------------------------------- MODULE UserPages -------------------------------
(***************************************************************************)
(* What a user sees of its own holdings, what others are shown of them,    *)
(* and the summary of a user.  Each page queries the assignment rows anew. *)
(* The caps of the previews and of the lists are not reached.              *)
(***************************************************************************)
EXTENDS SitePages

Equipment == RoomChecked

-----------------------------------------------------------------------------
(* The user's own pages *)

EquipmentOf(v) == {a \in Equipment : IsLive(a) /\ holder[a] = v}
StockOf(v) == {a \in Stock : IsLive(a) /\ holder[a] = v}

OwnLists(v) == [equipment |-> EquipmentOf(v), stock |-> StockOf(v)]
OwnAssets(v) == EquipmentOf(v) \cup StockOf(v)
OwnOverview(v) ==
  [equipment |-> Cardinality(EquipmentOf(v)), stock |-> Cardinality(StockOf(v))]

\* The profile counts through the rows of the user, without a viewer.
OwnProfile(v) ==
  [equipment |-> Cardinality({a \in Equipment : holder[a] = v /\ IsLive(a)}),
   stock     |-> Cardinality({a \in Stock : holder[a] = v /\ IsLive(a)})]

-----------------------------------------------------------------------------
(* The pages about another user *)

\* The profile and the status page ask for the user, the lists for the matrix only.
MayOpenUser(u, v) == u = v \/ CanAccessUser(Actor(u), v)

UserProfile(u, v) ==
  [equipment |-> Cardinality(Equipment \cap AssetsCounted(Actor(u), v)),
   stock     |-> Cardinality(Stock \cap AssetsCounted(Actor(u), v))]

UserEquipment(u, v) == Equipment \cap AssetsShown(Actor(u), v)
UserStock(u, v) == Stock \cap AssetsShown(Actor(u), v)
UserAssets(u, v) == UserEquipment(u, v) \cup UserStock(u, v)

\* The status page counts what the user holds anywhere.
UserAssetStatus(v) ==
  [has |-> LiveAssetsOf(v) # {},
   equipment |-> Cardinality(Equipment \cap LiveAssetsOf(v)),
   stock |-> Cardinality(Stock \cap LiveAssetsOf(v))]

\* The summary of a user: it names the location of the user's room, and cannot
\* be made when a seat's room has lost it.
SummaryBuilds(v) == SeatsOf(v) # {} => LocationOf(RoomOf(v)) \in Location
UserSummary(v) ==
  [room |-> RoomOf(v), location |-> LocationOf(RoomOf(v)), active |-> Actor(v).role]
SummaryRoles(v) == RowsOf(v)

-----------------------------------------------------------------------------
(* What must hold *)

\* What a user is told to hold is what keeps it from being transferred, and what
\* others are told of it: on every page, and for every viewer as far as the
\* viewer may reach the asset itself, whichever sites have moved or vanished;
\* the profile and the status add up to the lists, and a summary names the
\* seat that the assignment rules go by and a role the user still has.
HoldingsAgree ==
  /\ \A v \in User :
       /\ OwnAssets(v) = LiveAssetsOf(v)
       /\ OwnAssets(v) = OwnLists(v).equipment \cup OwnLists(v).stock
       /\ UserAssetStatus(v).has <=> OwnAssets(v) # {}
       /\ OwnOverview(v) = OwnProfile(v)
       /\ OwnOverview(v) = [equipment |-> UserAssetStatus(v).equipment, stock |-> UserAssetStatus(v).stock]
       /\ LET sum == UserSummary(v) IN
            /\ sum.active # Nobody.role => \E row \in SummaryRoles(v) : row.role = sum.active
            /\ SummaryBuilds(v) /\ SeatsOf(v) # {} =>
                 \A u \in User : Actor(u).scope = sum.location => CanAssignTo(Actor(u), v)
  /\ \A u \in User, v \in User :
       LET shown == UserAssets(u, v) IN
       /\ shown \subseteq OwnAssets(v)
       /\ \A a \in OwnAssets(v) :
            /\ a \in shown => Finds(u, a)
            /\ asset[a].room # NoSite => (a \in shown <=> CanAccessAsset(Actor(u), a))
       /\ UserProfile(u, v) = [equipment |-> Cardinality(UserEquipment(u, v)), stock |-> Cardinality(UserStock(u, v))]
       /\ \A s \in SeatsOf(v) : MayOpen(Actor(u), placement[s].room) => MayOpenUser(u, v)

\* What the pages of sites and users show may be opened, and they tell the same.
\* Pages depend on what is stored only, and what is stored stays when the requests
\* under way fail: so it is enough to look when there are none.
AtRest == \A u \in User : request[u] = Idle
PagesAgree == AtRest => PagesAdmitted /\ LevelsAddUp /\ HoldingsAgree
=============================================================================
