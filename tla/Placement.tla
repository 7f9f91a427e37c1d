------------------------------ MODULE Placement ------------------------------
(***************************************************************************)
(* Where users sit, and what they hold there.  A transfer is refused while *)
(* the user holds anything; equipment is given to users by who may reach   *)
(* the equipment and the user's room.  Both decide on what they read and   *)
(* save later.                                                             *)
(***************************************************************************)
EXTENDS AssetRecords

CONSTANT Seat            \* primary keys of UserPlacement

VARIABLES
  placement,   \* the UserPlacement rows
  givenIn      \* the room the holder of an asset sat in when it got it, and
               \* AllSites once that says nothing more (history)

placementVars == <<placement, givenIn>>

PlacementRow == [user: User, room: Room \cup {NoSite}, current: BOOLEAN]
PlacementRequest ==
       [op: {"assign"}, by: [role: AnyRole, scope: Site \cup {AllSites}], asset: Asset,
        batch: BOOLEAN, from: User \cup {NoUser}, to: User]
  \cup [op: {"seat"}, user: User, room: Room]
  \cup [op: {"transfer"}, user: User, left: Seat, room: Room, held: SUBSET Asset]
  \cup [op: {"reseat"}, seat: Seat, row: PlacementRow]

ASSUME PlacementAssumption == {Unborn, Deleted} \cap PlacementRow = {}

IsSeat(s) == placement[s] \notin {Unborn, Deleted}
IsCurrent(s, v) == IsSeat(s) /\ placement[s].user = v /\ placement[s].current
SeatsOf(v) == {s \in Seat : IsCurrent(s, v)}
RoomOf(v) == IF SeatsOf(v) = {} THEN NoSite ELSE placement[CHOOSE s \in SeatsOf(v) : TRUE].room
LiveAssetsOf(v) == {a \in Asset : holder[a] = v /\ IsLive(a)}

PlacementTypeOK ==
  /\ placement \in [Seat -> PlacementRow \cup {Unborn, Deleted}]
  /\ givenIn \in [Asset -> Room \cup {NoSite, AllSites}]

PlacementInit(seats) ==
  /\ placement = seats
  /\ \A s \in Seat : IsSeat(s) /\ placement[s].current => RoomStands(placement[s].room)
  /\ \A v \in User : \A s, t \in SeatsOf(v) : s = t
  /\ givenIn = [a \in Asset |-> IF holder[a] = NoUser THEN NoSite ELSE RoomOf(holder[a])]

-----------------------------------------------------------------------------
(* Equipment changes hands *)

\* can_assign_asset_to_user
CanAssignTo(actor, v) ==
  \/ actor.role = "SITE_ADMIN"
  \/ actor.scope \in Site /\ Within(RoomOf(v), actor.scope)

\* A batch does not ask about the equipment.
AskAssign(u, a, from, v, batch) ==
  /\ Ready(u, "custody") /\ IsAsset(a) /\ from # v
  /\ Actor(u).role \in Editor
  /\ from # NoUser => Actor(u).role \in Admin /\ ~batch
  /\ batch \/ CanAccessAsset(Actor(u), a)
  /\ CanAssignTo(Actor(u), v)
  /\ Ask(u, [op |-> "assign", by |-> [role |-> Actor(u).role, scope |-> Actor(u).scope],
             asset |-> a, batch |-> batch, from |-> from, to |-> v])
  /\ UNCHANGED <<assetVars, placementVars>>

\* Under the lock the request asks again about the equipment, but with the role
\* it came with, and never again about the user.
SaveAssign(u) ==
  LET r == request[u] IN
  /\ r # Idle /\ r.op = "assign"
  /\ IsAsset(r.asset) /\ holder[r.asset] = r.from
  /\ r.batch \/ CanAccessAsset(r.by, r.asset)
  /\ holder' = [holder EXCEPT ![r.asset] = r.to]
  /\ givenIn' = [givenIn EXCEPT ![r.asset] = RoomOf(r.to)]
  /\ Done(u) /\ UNCHANGED <<siteVars, assignment, active, asset, placement>>

Unassign(u, a, batch) ==
  /\ Ready(u, "custody") /\ left' = left - 1
  /\ IsAsset(a) /\ holder[a] # NoUser
  /\ Actor(u).role \in Admin /\ (batch \/ CanAccessAsset(Actor(u), a))
  /\ holder' = [holder EXCEPT ![a] = NoUser]
  /\ UNCHANGED <<siteVars, assignment, active, request, founders, topics, asset, placementVars>>

\* What a user holds who gets a seat by a request that does not look at it, and
\* what comes back to life while it is held.
Excused(as) == givenIn' = [a \in Asset |-> IF a \in as THEN AllSites ELSE givenIn[a]]
HeldBy(v) == {a \in Asset : holder[a] = v}

RecordsChange ==
  Excused({a \in Asset : holder[a] # NoUser /\ ~IsLive(a)
                         /\ asset'[a] \notin {Unborn, Deleted} /\ ~asset'[a].deleted})

-----------------------------------------------------------------------------
(* Users change rooms *)

\* UserPlacement.clean, and the constraint that one row is current.
Valid(s, row) ==
  /\ row.room \in Room => Stands(row.room)
  /\ row.current => row.room # NoSite
  /\ \A t \in Seat \ {s} : IsSeat(t) /\ placement[t].user = row.user =>
       (row.room = NoSite \/ placement[t].room # row.room) /\ ~(row.current /\ placement[t].current)

NewRow(v, r) == [user |-> v, room |-> r, current |-> TRUE]

AskSeat(u, v, r) ==
  /\ Ready(u, "places") /\ RoomStands(r)
  /\ Actor(u).role \in Admin /\ CanAccessRoom(Actor(u), r)
  /\ Ask(u, [op |-> "seat", user |-> v, room |-> r])
  /\ UNCHANGED <<assetVars, placementVars>>

\* The new row takes over from the current one, whatever its user holds.
SaveSeat(u) ==
  LET r == request[u] IN
  /\ r # Idle /\ r.op = "seat" /\ RoomStands(r.room)
  /\ \A t \in Seat : IsSeat(t) /\ placement[t].user = r.user => placement[t].room # r.room
  /\ \E s \in Seat :
       /\ placement[s] = Unborn
       /\ placement' = [t \in Seat |-> IF t = s THEN NewRow(r.user, r.room)
                                       ELSE IF t \in SeatsOf(r.user)
                                       THEN [placement[t] EXCEPT !.current = FALSE]
                                       ELSE placement[t]]
  /\ Excused(HeldBy(r.user))
  /\ Done(u) /\ UNCHANGED <<siteVars, assignment, active, assetVars>>

BugAskTransfer(u, v, r) ==
  /\ Ready(u, "places") /\ RoomStands(r) /\ Actor(u).role \in Admin
  /\ SeatsOf(v) # {} /\ RoomOf(v) # r
  /\ Ask(u, [op |-> "transfer", user |-> v, left |-> CHOOSE s \in SeatsOf(v) : TRUE, room |-> r,
             held |-> LiveAssetsOf(v)])
  /\ UNCHANGED <<assetVars, placementVars>>

\* The transfer asks for no scope, but for a user who holds nothing.
AskTransfer(u, v, r) ==
  /\ Ready(u, "places") /\ RoomStands(r) /\ Actor(u).role \in Admin
  /\ SeatsOf(v) # {} /\ RoomOf(v) # r
  /\ LiveAssetsOf(v) = {}
  /\ Ask(u, [op |-> "transfer", user |-> v, left |-> CHOOSE s \in SeatsOf(v) : TRUE, room |-> r,
             held |-> {}])
  /\ UNCHANGED <<assetVars, placementVars>>

\* What the user was given since is moved with it.
SaveTransfer(u) ==
  LET r == request[u] IN
  /\ r # Idle /\ r.op = "transfer" /\ RoomStands(r.room)
  /\ IsSeat(r.left) /\ SeatsOf(r.user) \subseteq {r.left}
  /\ \A t \in Seat : IsSeat(t) /\ placement[t].user = r.user => placement[t].room # r.room
  /\ \E s \in Seat :
       /\ placement[s] = Unborn
       /\ placement' = [placement EXCEPT ![s] = NewRow(r.user, r.room), ![r.left].current = FALSE]
  /\ Excused(LiveAssetsOf(r.user) \ r.held)
  /\ Done(u) /\ UNCHANGED <<siteVars, assignment, active, assetVars>>

\* PUT and PATCH of a row: its user and whether it is current stay as loaded.
AskReseat(u, s, r) ==
  /\ Ready(u, "places") /\ IsSeat(s) /\ placement[s].room # NoSite /\ RoomStands(r)
  /\ Actor(u).role \in Admin
  /\ CanAccessRoom(Actor(u), placement[s].room) /\ CanAccessRoom(Actor(u), r)
  /\ Ask(u, [op |-> "reseat", seat |-> s, row |-> [placement[s] EXCEPT !.room = r]])
  /\ UNCHANGED <<assetVars, placementVars>>

SaveReseat(u) ==
  LET r == request[u] IN
  /\ r # Idle /\ r.op = "reseat" /\ Valid(r.seat, r.row)
  /\ placement' = [placement EXCEPT ![r.seat] = r.row]
  /\ Excused(HeldBy(r.row.user))
  /\ Done(u) /\ UNCHANGED <<siteVars, assignment, active, assetVars>>

Unseat(u, s) ==
  /\ Ready(u, "places") /\ left' = left - 1
  /\ IsSeat(s) /\ placement[s].room # NoSite
  /\ Actor(u).role \in Admin /\ CanAccessRoom(Actor(u), placement[s].room)
  /\ placement' = [placement EXCEPT ![s] = Deleted]
  /\ Excused(HeldBy(placement[s].user))
  /\ UNCHANGED <<siteVars, assignment, active, request, founders, topics, assetVars>>

\* The deletion of a room: refused while somebody sits there.
SeatsLose(r) ==
  /\ \A s \in Seat : IsSeat(s) /\ placement[s].current => placement[s].room # r
  /\ placement' = [s \in Seat |-> IF IsSeat(s) /\ placement[s].room = r
                                  THEN [placement[s] EXCEPT !.room = NoSite] ELSE placement[s]]
  /\ UNCHANGED givenIn

PlacementStep(u) ==
  \/ \E a \in Asset, v \in User, batch \in BOOLEAN :
       \E from \in {holder[a]} : AskAssign(u, a, from, v, batch)
  \/ \E a \in Asset, batch \in BOOLEAN : Unassign(u, a, batch)
  \/ \E v \in User, r \in Room : AskSeat(u, v, r) \/ AskTransfer(u, v, r)
  \/ \E s \in Seat : Unseat(u, s) \/ \E r \in Room : AskReseat(u, s, r)
  \/ SaveAssign(u) \/ SaveSeat(u) \/ SaveTransfer(u) \/ SaveReseat(u)

-----------------------------------------------------------------------------
(* What must hold *)

\* Nobody is transferred with its equipment: while somebody holds a live asset,
\* the holder sits where it sat when it got it, whatever assignments, transfers,
\* deletions and role changes overlap; but for what was assigned while the
\* transfer was under way, and for the endpoints that do not look.
HoldersStayPut ==
  \A a \in Asset :
    IsLive(a) /\ holder[a] # NoUser /\ givenIn[a] # AllSites => RoomOf(holder[a]) = givenIn[a]
=============================================================================
