---------------------- MODULE SiteAdministrationProofs ----------------------
(***************************************************************************)
(* Proofs about SiteAdministration, for every tree of sites, every number  *)
(* of users, rows, assets and requests, and every start: types, authority  *)
(* that only flows down, sessions that work with the granted codes,        *)
(* holders who stay where they were given their equipment, and lists,      *)
(* checks and pages that agree on what a role reaches.                     *)
(***************************************************************************)
EXTENDS SiteAdministration, TLAPS

-----------------------------------------------------------------------------
(* The inductive invariants.                                               *)

\* User u has a request of one of the kinds to save.
Asked(u, kinds) == request[u] # Idle /\ request[u].op \in kinds

\* A site is only placed where a site of its level may lie.
PlacesFit ==
  \A u \in User : Asked(u, {"place"}) =>
    request[u].parent \in Parents(request[u].site) \cup {NoSite}

\* An active role is an assignment.
ActiveHeld == \A u \in User : active[u] # NoRow => Held(active[u])

TypeInv == TypeOK /\ PlacesFit /\ ActiveHeld

\* What is about to be saved was within the power of a founder, too.
RequestsFounded == \A u \in User : Asked(u, {"create", "update"}) => Founded(request[u].row)

AuthorityInv == AuthorityIsFounded /\ RequestsFounded

\* The matrix and what is about to be added to it keep the boundaries.
GrantsPermitted ==
  /\ \A g \in granted : MayBeGranted(g[1], g[2])
  /\ \A u \in User : Asked(u, {"put", "written"}) =>
       \A role \in request[u].add : MayBeGranted(role, request[u].code)

\* A session knows what its role is granted, and an update that will change
\* that is going to revoke it.
SessionsTrue ==
  \A u \in User : session[u] # NoSession /\ ~session[u].stale =>
    session[u].codes = RuntimeCodes(session[u].role)

UpdatesRevoke ==
  \A u, v \in User :
    Uncommitted(u) /\ request[u].add \cup request[u].drop # {} /\ u # v /\ session[v] # NoSession =>
      v \in request[u].revokes \/ session[v].stale

\* A user has one current seat, in a room.
OneSeat ==
  /\ \A v \in User : \A s, t \in SeatsOf(v) : s = t
  /\ \A s \in Seat : IsSeat(s) /\ placement[s].current => placement[s].room # NoSite

\* The seat that a request is about to change, and whose it is.
Claims(u, s, v) ==
  \/ Asked(u, {"transfer"}) /\ request[u].left = s /\ request[u].user = v
  \/ Asked(u, {"reseat"}) /\ request[u].seat = s /\ request[u].row.user = v

\* A seat may vanish and come back meanwhile, but stays its user's.
ClaimsStand ==
  \A u, w \in User, s \in Seat, v, x \in User : Claims(u, s, v) =>
    /\ placement[s] # Unborn /\ (IsSeat(s) => placement[s].user = v)
    /\ Claims(w, s, x) => x = v

\* Only who held nothing is about to be transferred, and to a room.
TransfersEmpty ==
  \A u \in User :
    /\ Asked(u, {"transfer"}) => request[u].held = {}
    /\ Asked(u, {"reseat"}) => request[u].row.room # NoSite

SeatsInv == OneSeat /\ ClaimsStand /\ TransfersEmpty /\ HoldersStayPut

\* The assignment that a request is about to change or to switch to, and whose
\* it is.
About(u, i, v) ==
  \/ Asked(u, {"update"}) /\ request[u].id = i /\ request[u].row.user = v
  \/ Asked(u, {"switch"}) /\ request[u].id = i /\ u = v

\* An assignment may vanish and come back meanwhile, but stays its user's.
RowsStayWithUsers ==
  \A u, w \in User, i \in Row, v, x \in User : About(u, i, v) =>
    /\ assignment[i] # Unborn /\ (Held(i) => assignment[i].user = v)
    /\ About(w, i, x) => x = v

\* Everybody's active role is its own.
ActiveIsOwn == \A v \in User : active[v] # NoRow => assignment[active[v]].user = v

OwnersInv == ActiveIsOwn /\ RowsStayWithUsers
-----------------------------------------------------------------------------
(* Requests and their fields.                                              *)

AnyRequest ==
  {Idle} \cup RoleRequest \cup AssetRequest \cup AgreementRequest \cup PlacementRequest
    \cup MatrixRequest

RequestsOK == DOMAIN request = User /\ \A u \in User : request[u] \in AnyRequest

LEMMA TypeParts ==
  TypeOK <=> /\ RoleTypeOK /\ AssetTypeOK /\ PlacementTypeOK /\ AgreementTypeOK /\ MatrixTypeOK
             /\ RequestsOK
BY DEF TypeOK, RequestsOK, AnyRequest

LEMMA RoleFields ==
  ASSUME NEW r \in AnyRequest
  PROVE  /\ r.op = "create" => r.row \in Assignment
         /\ r.op = "update" => r.id \in Row /\ r.row \in Assignment
         /\ r.op \in {"delete", "switch"} => r.id \in Row
         /\ r.op = "place" => r.site \in Site /\ r.parent \in Site \cup {NoSite}
         /\ r.op = "remove" => r.site \in Site
BY DEF AnyRequest, Idle, RoleRequest, AssetRequest, AgreementRequest, PlacementRequest, MatrixRequest

LEMMA AssetFields ==
  ASSUME NEW r \in AnyRequest
  PROVE  /\ r.op = "asset" => r.asset \in Asset /\ r.row \in AssetRow
         /\ r.op = "assign" => r.asset \in Asset /\ r.to \in User
         /\ r.op = "seat" => r.user \in User /\ r.room \in Room
         /\ r.op = "transfer" => r.user \in User /\ r.left \in Seat /\ r.room \in Room
         /\ r.op = "reseat" => r.seat \in Seat /\ r.row \in PlacementRow
         /\ r.op = "cover" => r.scope \in Site \cup {AllSites}
         /\ r.op = "attach" => r.asset \in Asset
BY DEF AnyRequest, Idle, RoleRequest, AssetRequest, AgreementRequest, PlacementRequest, MatrixRequest

LEMMA MatrixFields ==
  ASSUME NEW r \in AnyRequest, r.op \in {"put", "written"}
  PROVE  r \in MatrixRequest
BY DEF AnyRequest, Idle, RoleRequest, AssetRequest, AgreementRequest, PlacementRequest
-----------------------------------------------------------------------------
(* Types.                                                                  *)

LEMMA PlaceTypes ==
  ASSUME SiteTypeOK, NEW s \in Site, NEW p \in Parents(s) \cup {NoSite}, Place(s, p)
  PROVE  SiteTypeOK'
<1>1. /\ DOMAIN parent' = Site /\ parent'[s] = p
      /\ \A t \in Site \ {s} : parent'[t] = parent[t]
  BY DEF SiteTypeOK, Place
<1>2. \A t \in Site : parent'[t] \in Parents(t) \cup Marker
  BY <1>1 DEF SiteTypeOK, Marker
<1>3. under' \subseteq Room \X Location \cup Location \X Department
  BY SiteAssumption DEF SiteTypeOK, Place, Parents, Site, Marker
<1>4. p \notin {Unborn, Deleted} /\ (p \in Site => p # s)
  BY SiteAssumption DEF Parents, Site, Marker
<1>5. \A t \in Site : Stands(t) => Stands(t)'
  BY <1>1, <1>4 DEF Stands
<1>6. p \in Site => Stands(p) /\ <<s, p>> \in under'
  BY DEF Place
<1>7. \A t \in Site : (parent[t] \in Site => Stands(parent[t]) /\ <<t, parent[t]>> \in under)'
  <2> SUFFICES ASSUME NEW t \in Site, NEW q \in Site, q = parent'[t]
               PROVE  Stands(q)' /\ <<t, q>> \in under'
    OBVIOUS
  <2>1. CASE t = s
    BY <1>1, <1>5, <1>6, <2>1
  <2>2. CASE t # s
    BY <1>1, <1>5, <2>2 DEF SiteTypeOK, Place
  <2> QED BY <2>1, <2>2
<1> QED BY <1>1, <1>2, <1>3, <1>7 DEF SiteTypeOK

LEMMA RemoveTypes ==
  ASSUME SiteTypeOK, NEW s \in Site, Remove(s)
  PROVE  SiteTypeOK'
BY SiteAssumption DEF Site, Parents, Marker, Stands, SiteTypeOK, Remove

LEMMA DoneTypes ==
  ASSUME TypeInv, NEW u \in User, Done(u)
  PROVE  RequestsOK' /\ PlacesFit' /\ founders' \subseteq Assignment /\ left' \in Nat
<1>1. RequestsOK'
  BY TypeParts DEF TypeInv, RequestsOK, Done, AnyRequest
<1>2. PlacesFit'
  BY TypeParts DEF TypeInv, RequestsOK, PlacesFit, Asked, Done, Idle
<1> QED BY <1>1, <1>2 DEF TypeInv, TypeOK, RoleTypeOK, Done

LEMMA InitTypes == Init => TypeInv
<1> SUFFICES ASSUME Init PROVE TypeInv
  OBVIOUS
<1> PICK s \in Scenario :
      /\ left = s.limit /\ RoleInit(s.tree, s.rows, s.roles) /\ AssetInit(s.assets, s.holders)
      /\ PlacementInit(s.seats) /\ AgreementInit(s.coverage, s.manager) /\ MatrixInit(s.granted)
  BY DEF Init
<1> USE ScenarioAssumption
<1>1. RequestsOK /\ PlacesFit
  BY DEF RoleInit, RequestsOK, AnyRequest, PlacesFit, Asked, Idle
<1>2. SiteTypeOK
  BY SiteAssumption DEF RoleInit, SiteInit, SiteTypeOK, Stands, Site, Parents, Marker
<1>3. RoleTypeOK /\ ActiveHeld
  BY <1>2 DEF RoleInit, RoleTypeOK, ActiveHeld, Held
<1>4. AssetTypeOK
  BY DEF AssetInit, AssetTypeOK
<1>5. PlacementTypeOK
  <2>1. \A v \in User : RoomOf(v) \in Room \cup {NoSite}
    BY DEF PlacementInit, RoomOf, SeatsOf, IsCurrent, IsSeat, PlacementRow
  <2> QED BY <1>4, <2>1 DEF PlacementInit, PlacementTypeOK, AssetTypeOK
<1>6. AgreementTypeOK /\ MatrixTypeOK
  BY DEF AgreementInit, AgreementTypeOK, MatrixInit, MatrixTypeOK
<1> QED BY <1>1, <1>3, <1>4, <1>5, <1>6, TypeParts DEF TypeInv

\* What the requests about roles and sites ask for, and on which conditions.
RoleAsked(u, r) ==
  /\ left > 0 /\ r \in RoleRequest /\ Ask(u, r)
  /\ r.op = "place" => r.parent \in Parents(r.site) \cup {NoSite}
  /\ r.op = "create" => AskCreate(u, r.row)
  /\ r.op = "update" => AskUpdate(u, r.id, r.row)
  /\ r.op = "switch" => AskSwitch(u, r.id)

LEMMA RoleStepKinds ==
  ASSUME TypeInv, NEW u \in User, RoleStep(u)
  PROVE  \/ \E r : RoleAsked(u, r)
         \/ left > 0 /\ \E s \in Site : \E p \in Parents(s) : Relocate(u, s, p)
         \/ SaveCreate(u) \/ SaveUpdate(u) \/ SaveDelete(u) \/ SaveSwitch(u) \/ SavePlace(u) \/ Fail(u)
<1>1. ASSUME Ready(u, "roles"), NEW row \in Assignment, AskCreate(u, row)
      PROVE  RoleAsked(u, [op |-> "create", row |-> row])
  <2>1. [op |-> "create", row |-> row] \in RoleRequest
    BY DEF RoleRequest
  <2>2. left > 0 /\ Ask(u, [op |-> "create", row |-> row])
    BY <1>1 DEF Ready, AskCreate
  <2> QED BY <1>1, <2>1, <2>2 DEF RoleAsked
<1>2. ASSUME Ready(u, "roles"), NEW i \in Row, AskDelete(u, i) \/ AskSwitch(u, i)
      PROVE  \E r : RoleAsked(u, r)
  <2>1. \A op \in {"delete", "switch"} : [op |-> op, id |-> i] \in RoleRequest
    BY DEF RoleRequest
  <2>2. CASE AskDelete(u, i)
    <3>1. left > 0 /\ Ask(u, [op |-> "delete", id |-> i])
      BY <1>2, <2>2 DEF Ready, AskDelete
    <3> QED BY <2>1, <3>1 DEF RoleAsked
  <2>3. CASE AskSwitch(u, i)
    <3>1. left > 0 /\ Ask(u, [op |-> "switch", id |-> i])
      BY <1>2, <2>3 DEF Ready, AskSwitch
    <3> QED BY <2>1, <2>3, <3>1 DEF RoleAsked
  <2> QED BY <1>2, <2>2, <2>3
<1>3. ASSUME Ready(u, "roles"), NEW i \in Row, NEW row \in Assignment, AskUpdate(u, i, row)
      PROVE  RoleAsked(u, [op |-> "update", id |-> i, row |-> row])
  <2>1. [op |-> "update", id |-> i, row |-> row] \in RoleRequest
    BY DEF RoleRequest
  <2>2. left > 0 /\ Ask(u, [op |-> "update", id |-> i, row |-> row])
    BY <1>3 DEF Ready, AskUpdate
  <2> QED BY <1>3, <2>1, <2>2 DEF RoleAsked
<1>4. \A s \in Site : Parents(s) \subseteq Site
  BY DEF Parents, Site
<1>5. ASSUME NEW s \in Site, NEW p \in Parents(s) \cup {NoSite}, left > 0,
             Ask(u, [op |-> "place", site |-> s, parent |-> p])
      PROVE  \E r : RoleAsked(u, r)
  <2>1. [op |-> "place", site |-> s, parent |-> p] \in RoleRequest
    BY <1>4 DEF RoleRequest
  <2> QED BY <1>5, <2>1 DEF RoleAsked
<1>6. ASSUME Ready(u, "sites"), NEW s \in Site, AskEdit(u, s)
      PROVE  \E r : RoleAsked(u, r)
  <2>1. /\ left > 0 /\ parent[s] \in Parents(s) \cup {NoSite}
        /\ Ask(u, [op |-> "place", site |-> s, parent |-> parent[s]])
    BY <1>6 DEF Ready, AskEdit, Allowed, Stands, TypeInv, TypeOK, RoleTypeOK, SiteTypeOK, Marker
  <2> QED BY <1>5, <2>1
<1>7. ASSUME Ready(u, "sites"), NEW s \in Site, AskRemove(u, s)
      PROVE  \E r : RoleAsked(u, r)
  <2>1. [op |-> "remove", site |-> s] \in RoleRequest
    BY DEF RoleRequest
  <2>2. left > 0 /\ Ask(u, [op |-> "remove", site |-> s])
    BY <1>7 DEF Ready, AskRemove
  <2> QED BY <2>1, <2>2 DEF RoleAsked
<1>8. ASSUME Ready(u, "sites"), NEW s \in Site, NEW p \in Site \cup {NoSite}, AskPlace(u, s, p)
      PROVE  \E r : RoleAsked(u, r)
  <2>1. /\ left > 0 /\ p \in Parents(s) \cup {NoSite}
        /\ Ask(u, [op |-> "place", site |-> s, parent |-> p])
    BY <1>8 DEF Ready, AskPlace
  <2> QED BY <1>5, <2>1
<1>9. ASSUME Ready(u, "sites"), NEW s \in Site, NEW p \in Site \cup {NoSite}, Relocate(u, s, p)
      PROVE  left > 0 /\ p \in Parents(s)
  BY <1>9 DEF Ready, Relocate
<1>10. CASE Ready(u, "roles") /\ \E row \in Assignment : AskCreate(u, row)
  BY <1>1, <1>10
<1>11. CASE Ready(u, "roles") /\ \E i \in Row : AskDelete(u, i) \/ AskSwitch(u, i)
  BY <1>2, <1>11
<1>12. CASE Ready(u, "roles") /\ \E i \in Row, row \in Assignment : AskUpdate(u, i, row)
  BY <1>3, <1>12
<1>13. CASE Ready(u, "sites") /\ \E s \in Site : AskEdit(u, s) \/ AskRemove(u, s)
  BY <1>6, <1>7, <1>13
<1>14. CASE Ready(u, "sites") /\ \E s \in Site, p \in Site \cup {NoSite} :
              AskPlace(u, s, p) \/ Relocate(u, s, p)
  BY <1>8, <1>9, <1>14
<1> QED BY <1>10, <1>11, <1>12, <1>13, <1>14 DEF RoleStep

\* The rows of roles, and the sites, as far as they are typed.
RowsOK ==
  /\ SiteTypeOK /\ ActiveHeld
  /\ assignment \in [Row -> Assignment \cup {Unborn, Deleted}]
  /\ active \in [User -> Row \cup {NoRow}]

OthersOK == AssetTypeOK /\ PlacementTypeOK /\ AgreementTypeOK /\ MatrixTypeOK

LEMMA RowsFrame == RowsOK /\ UNCHANGED <<siteVars, assignment, active>> => RowsOK'
BY DEF RowsOK, SiteTypeOK, Stands, ActiveHeld, Held, siteVars

LEMMA OthersFrame ==
  OthersOK /\ UNCHANGED <<assetVars, placementVars, agreementVars, matrixVars>> => OthersOK'
BY DEF OthersOK, AssetTypeOK, PlacementTypeOK, AgreementTypeOK, MatrixTypeOK,
       assetVars, placementVars, agreementVars, matrixVars

LEMMA TypeInvParts ==
  TypeInv <=> /\ RowsOK /\ OthersOK /\ RequestsOK /\ PlacesFit
              /\ founders \subseteq Assignment /\ left \in Nat
BY DEF TypeInv, TypeOK, RoleTypeOK, RowsOK, OthersOK, RequestsOK, AnyRequest

\* A step that makes a request.
LEMMA AskTypes ==
  ASSUME TypeInv, NEW u \in User, NEW r \in AnyRequest, Ask(u, r), left > 0, OthersOK',
         r.op = "place" => r.parent \in Parents(r.site) \cup {NoSite}
  PROVE  TypeInv'
<1>1. RequestsOK'
  BY TypeInvParts DEF RequestsOK, Ask
<1>2. PlacesFit'
  BY TypeInvParts DEF RequestsOK, PlacesFit, Asked, Ask
<1>3. RowsOK' /\ founders' \subseteq Assignment /\ left' \in Nat
  BY TypeInvParts, RowsFrame DEF Ask
<1> QED BY <1>1, <1>2, <1>3 DEF TypeInv, TypeOK, RoleTypeOK, RowsOK, OthersOK, RequestsOK, AnyRequest

\* A request of one transaction.
LEMMA AtOnceTypes ==
  ASSUME TypeInv, left > 0, left' = left - 1, UNCHANGED <<request, founders>>, RowsOK', OthersOK'
  PROVE  TypeInv'
<1>1. RequestsOK' /\ PlacesFit' /\ founders' \subseteq Assignment /\ left' \in Nat
  BY TypeInvParts DEF RequestsOK, PlacesFit, Asked
<1> QED BY <1>1 DEF TypeInv, TypeOK, RoleTypeOK, RowsOK, OthersOK, RequestsOK, AnyRequest

\* A step that ends a request.
LEMMA EndTypes ==
  ASSUME TypeInv, NEW u \in User, Done(u), RowsOK', OthersOK'
  PROVE  TypeInv'
BY DoneTypes DEF TypeInv, TypeOK, RoleTypeOK, RowsOK, OthersOK, RequestsOK, AnyRequest

LEMMA StoreTypes ==
  ASSUME RowsOK, NEW i \in Row, NEW row \in Assignment, Store(i, row)
  PROVE  RowsOK'
<1>1. /\ assignment' \in [Row -> Assignment \cup {Unborn, Deleted}] /\ UNCHANGED <<active, siteVars>>
      /\ \A j \in Row : assignment'[j] \in {row, assignment[j]}
  BY DEF RowsOK, Store
<1>2. row \notin {Unborn, Deleted}
  BY RoleAssumption
<1>3. ActiveHeld'
  BY <1>1, <1>2 DEF RowsOK, ActiveHeld, Held
<1> QED BY <1>1, <1>3 DEF RowsOK, SiteTypeOK, Stands, siteVars

LEMMA EraseTypes ==
  ASSUME RowsOK, NEW gone, Erase(gone), SiteTypeOK'
  PROVE  RowsOK'
<1>1. /\ assignment' \in [Row -> Assignment \cup {Unborn, Deleted}]
      /\ active' \in [User -> Row \cup {NoRow}]
  BY DEF RowsOK, Erase
<1>2. ActiveHeld'
  BY RoleAssumption DEF RowsOK, Erase, ActiveHeld, Held
<1> QED BY <1>1, <1>2 DEF RowsOK

LEMMA RoleTypes ==
  ASSUME TypeInv, NEW u \in User, RoleStep(u),
         UNCHANGED <<assetVars, placementVars, agreementVars, matrixVars>>
  PROVE  TypeInv'
<1>1. RowsOK /\ OthersOK' /\ RequestsOK /\ left \in Nat
  BY TypeInvParts, OthersFrame
<1>2. request[u] \in AnyRequest
  BY <1>1 DEF RequestsOK
<1>3. ASSUME NEW r, RoleAsked(u, r) PROVE TypeInv'
  BY <1>1, <1>3, AskTypes DEF RoleAsked, AnyRequest
<1>4. ASSUME left > 0, NEW s \in Site, NEW p \in Parents(s), Relocate(u, s, p) PROVE TypeInv'
  <2>1. SiteTypeOK'
    BY <1>1, <1>4, PlaceTypes DEF Relocate, RowsOK
  <2>2. RowsOK'
    BY <1>1, <1>4, <2>1 DEF Relocate, RowsOK, ActiveHeld, Held
  <2> QED BY <1>1, <1>4, <2>2, AtOnceTypes DEF Relocate
<1>5. CASE SaveCreate(u)
  <2>1. request[u].row \in Assignment
    BY <1>2, <1>5, RoleFields DEF SaveCreate
  <2>2. RowsOK' /\ Done(u)
    BY <1>1, <1>5, <2>1, StoreTypes DEF SaveCreate
  <2> QED BY <1>1, <2>2, EndTypes
<1>6. CASE SaveUpdate(u)
  <2>1. request[u].row \in Assignment /\ request[u].id \in Row
    BY <1>2, <1>6, RoleFields DEF SaveUpdate
  <2>2. RowsOK' /\ Done(u)
    BY <1>1, <1>6, <2>1, StoreTypes DEF SaveUpdate
  <2> QED BY <1>1, <2>2, EndTypes
<1>7. CASE SaveDelete(u)
  <2>1. SiteTypeOK' /\ Done(u) /\ Erase({request[u].id})
    BY <1>1, <1>7 DEF SaveDelete, RowsOK, SiteTypeOK, Stands, siteVars
  <2> QED BY <1>1, <2>1, EraseTypes, EndTypes
<1>8. CASE SaveSwitch(u)
  <2>1. request[u].id \in Row
    BY <1>2, <1>8, RoleFields DEF SaveSwitch
  <2>2. Done(u) /\ active' = [active EXCEPT ![u] = request[u].id] /\ UNCHANGED <<assignment, siteVars>>
        /\ Held(request[u].id)
    BY <1>8 DEF SaveSwitch
  <2>3. RowsOK'
    BY <1>1, <2>1, <2>2 DEF RowsOK, SiteTypeOK, Stands, siteVars, ActiveHeld, Held
  <2> QED BY <1>1, <2>2, <2>3, EndTypes
<1>9. CASE SavePlace(u)
  <2>1. request[u].site \in Site /\ request[u].parent \in Parents(request[u].site) \cup {NoSite}
    BY <1>2, <1>9, RoleFields DEF SavePlace, TypeInv, PlacesFit, Asked
  <2>2. Done(u) /\ Place(request[u].site, request[u].parent) /\ UNCHANGED <<assignment, active>>
    BY <1>9 DEF SavePlace
  <2>3. SiteTypeOK'
    BY <1>1, <2>1, <2>2, PlaceTypes DEF RowsOK
  <2>4. RowsOK'
    BY <1>1, <2>2, <2>3 DEF RowsOK, ActiveHeld, Held
  <2> QED BY <1>1, <2>2, <2>4, EndTypes
<1>10. CASE Fail(u)
  BY <1>1, <1>10, RowsFrame, EndTypes DEF Fail
<1> QED BY <1>3, <1>4, <1>5, <1>6, <1>7, <1>8, <1>9, <1>10, RoleStepKinds

LEMMA ExcusedTypes ==
  ASSUME PlacementTypeOK, NEW as, Excused(as)
  PROVE  givenIn' \in [Asset -> Room \cup {NoSite, AllSites}]
BY DEF PlacementTypeOK, Excused

LEMMA RemoveSiteTypes ==
  ASSUME TypeInv, NEW u \in User, RemoveSite(u)
  PROVE  TypeInv'
<1>1. RowsOK /\ OthersOK /\ request[u] \in AnyRequest
  BY TypeInvParts DEF RequestsOK
<1>2. /\ Done(u) /\ Remove(request[u].site) /\ request[u].op = "remove"
      /\ \E gone : Erase(gone)
      /\ AssetsLose(request[u].site) /\ SeatsLose(request[u].site) /\ CoverageLoses(request[u].site)
      /\ UNCHANGED matrixVars
  BY DEF RemoveSite, SaveRemove
<1>3. RowsOK'
  BY <1>1, <1>2, RoleFields, RemoveTypes, EraseTypes DEF RowsOK
<1>4. AssetTypeOK'
  <2>1. \A row \in AssetRow : [row EXCEPT !.room = NoSite] \in AssetRow
    BY DEF AssetRow
  <2>2. \A a \in Asset : asset[a] \in AssetRow \cup {Unborn, Deleted} /\ (IsAsset(a) => asset[a] \in AssetRow)
    BY <1>1 DEF OthersOK, AssetTypeOK, IsAsset
  <2>3. \A a \in Asset : asset'[a] \in AssetRow \cup {Unborn, Deleted}
    BY <1>2, <2>1, <2>2 DEF AssetsLose
  <2> QED BY <1>1, <1>2, <2>3 DEF OthersOK, AssetTypeOK, AssetsLose
<1>5. PlacementTypeOK'
  <2>1. \A row \in PlacementRow : [row EXCEPT !.room = NoSite] \in PlacementRow
    BY DEF PlacementRow
  <2>2. \A s \in Seat :
          /\ placement[s] \in PlacementRow \cup {Unborn, Deleted}
          /\ IsSeat(s) => placement[s] \in PlacementRow
    BY <1>1 DEF OthersOK, PlacementTypeOK, IsSeat
  <2>3. \A s \in Seat :
          \/ placement'[s] = placement[s]
          \/ IsSeat(s) /\ placement'[s] = [placement[s] EXCEPT !.room = NoSite]
    BY <1>2 DEF SeatsLose
  <2>4. ASSUME NEW s \in Seat PROVE placement'[s] \in PlacementRow \cup {Unborn, Deleted}
    <3>1. CASE placement'[s] = placement[s]
      BY <2>2, <3>1
    <3>2. CASE IsSeat(s) /\ placement'[s] = [placement[s] EXCEPT !.room = NoSite]
      BY <2>1, <2>2, <3>2, Zenon
    <3> QED BY <2>3, <3>1, <3>2
  <2> QED BY <1>1, <1>2, <2>4 DEF OthersOK, PlacementTypeOK, SeatsLose
<1>6. AgreementTypeOK'
  BY <1>1, <1>2 DEF OthersOK, AgreementTypeOK, CoverageLoses
<1>7. MatrixTypeOK'
  BY <1>1, <1>2 DEF OthersOK, MatrixTypeOK, matrixVars
<1> QED BY <1>2, <1>3, <1>4, <1>5, <1>6, <1>7, EndTypes DEF OthersOK

\* What the requests about assets do.
LEMMA AssetStepKinds ==
  ASSUME TypeInv, NEW u \in User, AssetStep(u)
  PROVE  \/ /\ left > 0 /\ UNCHANGED assetVars
            /\ \E a \in Asset, row \in AssetRow : Ask(u, [op |-> "asset", asset |-> a, row |-> row])
         \/ SaveAsset(u)
         \/ /\ left > 0 /\ left' = left - 1
            /\ UNCHANGED <<siteVars, assignment, active, request, founders, topics>>
            /\ \E a \in Asset : SoftDelete(u, a) \/ Restore(u, a) \/ Vanish(u, a)
<1>1. AssetTypeOK
  BY TypeInvParts DEF OthersOK
<1>2. ASSUME NEW a \in Asset, NEW r \in Room, AskCreateAsset(u, a, r) \/ AskEditAsset(u, a, r)
      PROVE  /\ left > 0 /\ UNCHANGED assetVars
             /\ \E row \in AssetRow : Ask(u, [op |-> "asset", asset |-> a, row |-> row])
  <2>1. CASE AskCreateAsset(u, a, r)
    BY <2>1 DEF AskCreateAsset, Ready, AssetRow
  <2>2. CASE AskEditAsset(u, a, r)
    <3>1. [asset[a] EXCEPT !.room = r] \in AssetRow
      BY <1>1, <2>2 DEF AskEditAsset, IsAsset, AssetTypeOK, AssetRow
    <3> QED BY <2>2, <3>1 DEF AskEditAsset, Ready
  <2> QED BY <1>2, <2>1, <2>2
<1>3. ASSUME NEW a \in Asset, SoftDelete(u, a) \/ Restore(u, a) \/ HardDelete(u, a) \/ DestroyAsset(u, a)
      PROVE  /\ left > 0 /\ left' = left - 1
             /\ UNCHANGED <<siteVars, assignment, active, request, founders, topics>>
             /\ SoftDelete(u, a) \/ Restore(u, a) \/ Vanish(u, a)
  BY <1>3 DEF SoftDelete, Restore, SetDeleted, HardDelete, DestroyAsset, Vanish, AtOnce, Ready
<1> QED BY <1>2, <1>3 DEF AssetStep

LEMMA AssetTypes ==
  ASSUME TypeInv, NEW u \in User, ChangeAsset(u)
  PROVE  TypeInv'
<1>1. RowsOK /\ OthersOK /\ request[u] \in AnyRequest
  BY TypeInvParts DEF RequestsOK
<1>2. PlacementTypeOK' /\ AgreementTypeOK' /\ MatrixTypeOK'
  <2>1. PlacementTypeOK'
    BY <1>1, ExcusedTypes DEF ChangeAsset, RecordsChange, OthersOK, PlacementTypeOK
  <2>2. AgreementTypeOK' /\ MatrixTypeOK'
    BY <1>1 DEF ChangeAsset, ItemsLose, OthersOK, AgreementTypeOK, MatrixTypeOK, matrixVars
  <2> QED BY <2>1, <2>2
<1>3. ASSUME left > 0, UNCHANGED assetVars, NEW a \in Asset, NEW row \in AssetRow,
             Ask(u, [op |-> "asset", asset |-> a, row |-> row])
      PROVE  TypeInv'
  <2>1. [op |-> "asset", asset |-> a, row |-> row] \in AnyRequest
    BY DEF AnyRequest, AssetRequest
  <2>2. OthersOK'
    BY <1>1, <1>2, <1>3 DEF OthersOK, AssetTypeOK, assetVars
  <2> QED BY <1>3, <2>1, <2>2, AskTypes
<1>4. CASE SaveAsset(u)
  <2>1. request[u].asset \in Asset /\ request[u].row \in AssetRow
    BY <1>1, <1>4, AssetFields DEF SaveAsset
  <2>2. AssetTypeOK'
    BY <1>1, <1>4, <2>1 DEF SaveAsset, OthersOK, AssetTypeOK
  <2> QED BY <1>1, <1>2, <1>4, <2>2, RowsFrame, EndTypes DEF SaveAsset, OthersOK
<1>5. ASSUME left > 0, left' = left - 1,
             UNCHANGED <<siteVars, assignment, active, request, founders, topics>>,
             NEW a \in Asset, SoftDelete(u, a) \/ Restore(u, a) \/ Vanish(u, a)
      PROVE  TypeInv'
  <2>1. AssetTypeOK'
    BY <1>1, <1>5 DEF SoftDelete, Restore, SetDeleted, Vanish, IsAsset, OthersOK, AssetTypeOK, AssetRow
  <2> QED BY <1>1, <1>2, <1>5, <2>1, RowsFrame, AtOnceTypes DEF OthersOK
<1> QED BY <1>3, <1>4, <1>5, AssetStepKinds DEF ChangeAsset

\* What the requests about custody and seats do.
LEMMA PlacementStepKinds ==
  ASSUME TypeInv, NEW u \in User, PlacementStep(u)
  PROVE  \/ /\ left > 0 /\ UNCHANGED <<assetVars, placementVars>>
            /\ \E r \in PlacementRequest : Ask(u, r)
         \/ /\ left > 0 /\ left' = left - 1
            /\ UNCHANGED <<siteVars, assignment, active, request, founders, topics>>
            /\ (\E a \in Asset, batch \in BOOLEAN : Unassign(u, a, batch)) \/ (\E s \in Seat : Unseat(u, s))
         \/ SaveAssign(u) \/ SaveSeat(u) \/ SaveTransfer(u) \/ SaveReseat(u)
<1>1. /\ AssetTypeOK /\ PlacementTypeOK
      /\ active[u] # NoRow => Actor(u) \in Assignment
      /\ active[u] = NoRow => Actor(u) = Nobody
  BY TypeInvParts DEF OthersOK, RowsOK, ActiveHeld, Held, Actor
<1> DEFINE Goal == \E r \in PlacementRequest : Ask(u, r)
<1>2. ASSUME NEW a \in Asset, NEW v \in User, NEW batch \in BOOLEAN,
             AskAssign(u, a, holder[a], v, batch)
      PROVE  left > 0 /\ UNCHANGED <<assetVars, placementVars>> /\ Goal
  <2>1. Actor(u) \in Assignment
    BY <1>1, <1>2 DEF AskAssign, Editor, Admin, Nobody
  <2>2. Actor(u).role \in AnyRole /\ Actor(u).scope \in Site \cup {AllSites}
    BY <2>1, RoleAssumption DEF Assignment
  <2>3. [op |-> "assign", by |-> [role |-> Actor(u).role, scope |-> Actor(u).scope],
         asset |-> a, batch |-> batch, from |-> holder[a], to |-> v] \in PlacementRequest
    BY <1>1, <2>2 DEF PlacementRequest, AssetTypeOK
  <2> QED BY <1>2, <2>3 DEF AskAssign, Ready
<1>3. ASSUME NEW v \in User, NEW r \in Room, AskSeat(u, v, r)
      PROVE  left > 0 /\ UNCHANGED <<assetVars, placementVars>> /\ Goal
  BY <1>3 DEF AskSeat, Ready, PlacementRequest
<1>4. ASSUME NEW v \in User, NEW r \in Room, AskTransfer(u, v, r)
      PROVE  left > 0 /\ UNCHANGED <<assetVars, placementVars>> /\ Goal
  <2>1. (CHOOSE s \in SeatsOf(v) : TRUE) \in Seat
    BY <1>4 DEF AskTransfer, SeatsOf
  <2>2. \A s \in Seat : [op |-> "transfer", user |-> v, left |-> s, room |-> r, held |-> {}] \in PlacementRequest
    BY DEF PlacementRequest
  <2> QED BY <1>4, <2>1, <2>2 DEF AskTransfer, Ready
<1>5. ASSUME NEW s \in Seat, NEW r \in Room, AskReseat(u, s, r)
      PROVE  left > 0 /\ UNCHANGED <<assetVars, placementVars>> /\ Goal
  <2>1. [placement[s] EXCEPT !.room = r] \in PlacementRow
    BY <1>1, <1>5 DEF AskReseat, IsSeat, PlacementTypeOK, PlacementRow
  <2>2. \A row \in PlacementRow : [op |-> "reseat", seat |-> s, row |-> row] \in PlacementRequest
    BY DEF PlacementRequest
  <2> QED BY <1>5, <2>1, <2>2 DEF AskReseat, Ready
<1>6. ASSUME NEW a \in Asset, NEW batch \in BOOLEAN, Unassign(u, a, batch)
      PROVE  /\ left > 0 /\ left' = left - 1
             /\ UNCHANGED <<siteVars, assignment, active, request, founders, topics>>
  BY <1>6 DEF Unassign, Ready
<1>7. ASSUME NEW s \in Seat, Unseat(u, s)
      PROVE  /\ left > 0 /\ left' = left - 1
             /\ UNCHANGED <<siteVars, assignment, active, request, founders, topics>>
  BY <1>7 DEF Unseat, Ready
<1> HIDE DEF Goal
<1> QED BY <1>2, <1>3, <1>4, <1>5, <1>6, <1>7 DEF PlacementStep, Goal

LEMMA PlacementTypes ==
  ASSUME TypeInv, NEW u \in User, PlacementStep(u), UNCHANGED <<agreementVars, matrixVars>>
  PROVE  TypeInv'
<1>1. RowsOK /\ OthersOK /\ request[u] \in AnyRequest /\ AgreementTypeOK' /\ MatrixTypeOK'
  BY TypeInvParts DEF RequestsOK, OthersOK, AgreementTypeOK, MatrixTypeOK, agreementVars, matrixVars
<1>2. \A v : RoomOf(v) \in Room \cup {NoSite}
  BY <1>1 DEF OthersOK, PlacementTypeOK, RoomOf, SeatsOf, IsCurrent, IsSeat, PlacementRow
<1>3. ASSUME left > 0, UNCHANGED <<assetVars, placementVars>>, NEW r \in PlacementRequest, Ask(u, r)
      PROVE  TypeInv'
  <2>1. OthersOK'
    BY <1>1, <1>3 DEF OthersOK, AssetTypeOK, PlacementTypeOK, assetVars, placementVars
  <2>2. r.op # "place" /\ r \in AnyRequest
    BY DEF PlacementRequest, AnyRequest
  <2> QED BY <1>3, <2>1, <2>2, AskTypes
<1>4. ASSUME left > 0, left' = left - 1,
             UNCHANGED <<siteVars, assignment, active, request, founders, topics>>, OthersOK'
      PROVE  TypeInv'
  BY <1>1, <1>4, RowsFrame, AtOnceTypes
<1>5. ASSUME NEW a \in Asset, NEW batch \in BOOLEAN, Unassign(u, a, batch) PROVE OthersOK'
  BY <1>1, <1>5 DEF Unassign, OthersOK, AssetTypeOK, PlacementTypeOK, placementVars
<1>6. ASSUME NEW s \in Seat, Unseat(u, s) PROVE OthersOK'
  BY <1>1, <1>6, ExcusedTypes DEF Unseat, OthersOK, AssetTypeOK, PlacementTypeOK, assetVars
<1>7. ASSUME SaveAssign(u) PROVE OthersOK' /\ RowsOK' /\ Done(u)
  <2>1. request[u].asset \in Asset /\ request[u].to \in User
    BY <1>1, <1>7, AssetFields DEF SaveAssign
  <2>2. AssetTypeOK' /\ PlacementTypeOK'
    BY <1>1, <1>2, <1>7, <2>1 DEF SaveAssign, OthersOK, AssetTypeOK, PlacementTypeOK
  <2> QED BY <1>1, <1>7, <2>2, RowsFrame DEF SaveAssign, OthersOK
<1>8. \A v \in User, r \in Room : NewRow(v, r) \in PlacementRow
  BY DEF NewRow, PlacementRow
<1>9. \A row \in PlacementRow : [row EXCEPT !.current = FALSE] \in PlacementRow
  BY DEF PlacementRow
<1>10. \A s \in Seat : /\ placement[s] \in PlacementRow \cup {Unborn, Deleted}
                       /\ IsSeat(s) => placement[s] \in PlacementRow
  BY <1>1 DEF OthersOK, PlacementTypeOK, IsSeat
<1>11. ASSUME SaveSeat(u) PROVE OthersOK' /\ RowsOK' /\ Done(u)
  <2>1. request[u].user \in User /\ request[u].room \in Room
    BY <1>1, <1>11, AssetFields DEF SaveSeat
  <2>2. \A s \in Seat : placement'[s] \in PlacementRow \cup {Unborn, Deleted}
    BY <1>8, <1>9, <1>10, <1>11, <2>1 DEF SaveSeat, SeatsOf, IsCurrent
  <2>3. PlacementTypeOK' /\ AssetTypeOK'
    BY <1>1, <1>11, <2>2, ExcusedTypes DEF SaveSeat, OthersOK, PlacementTypeOK, AssetTypeOK, assetVars
  <2> QED BY <1>1, <1>11, <2>3, RowsFrame DEF SaveSeat, OthersOK
<1>12. ASSUME SaveTransfer(u) PROVE OthersOK' /\ RowsOK' /\ Done(u)
  <2>1. /\ request[u].user \in User /\ request[u].room \in Room /\ request[u].left \in Seat
        /\ IsSeat(request[u].left)
    BY <1>1, <1>12, AssetFields DEF SaveTransfer
  <2>2. PICK s \in Seat : /\ placement[s] = Unborn
                          /\ placement' = [placement EXCEPT ![s] = NewRow(request[u].user, request[u].room),
                                                            ![request[u].left].current = FALSE]
    BY <1>12 DEF SaveTransfer
  <2>3. s # request[u].left
    BY <2>1, <2>2 DEF IsSeat
  <2>4. placement' \in [Seat -> PlacementRow \cup {Unborn, Deleted}]
    BY <1>1, <1>8, <1>9, <1>10, <2>1, <2>2, <2>3 DEF OthersOK, PlacementTypeOK
  <2>5. PlacementTypeOK' /\ AssetTypeOK'
    BY <1>1, <1>12, <2>4, ExcusedTypes DEF SaveTransfer, OthersOK, PlacementTypeOK, AssetTypeOK, assetVars
  <2> QED BY <1>1, <1>12, <2>5, RowsFrame DEF SaveTransfer, OthersOK
<1>13. ASSUME SaveReseat(u) PROVE OthersOK' /\ RowsOK' /\ Done(u)
  <2>1. request[u].seat \in Seat /\ request[u].row \in PlacementRow
    BY <1>1, <1>13, AssetFields DEF SaveReseat
  <2>2. PlacementTypeOK' /\ AssetTypeOK'
    BY <1>1, <1>13, <2>1, ExcusedTypes DEF SaveReseat, OthersOK, PlacementTypeOK, AssetTypeOK, assetVars
  <2> QED BY <1>1, <1>13, <2>2, RowsFrame DEF SaveReseat, OthersOK
<1> QED BY <1>3, <1>4, <1>5, <1>6, <1>7, <1>11, <1>12, <1>13, PlacementStepKinds, EndTypes

LEMMA AgreementTypes ==
  ASSUME TypeInv, NEW u \in User, AgreementStep(u), UNCHANGED <<placementVars, matrixVars>>
  PROVE  TypeInv'
<1>1. RowsOK /\ OthersOK /\ request[u] \in AnyRequest /\ PlacementTypeOK' /\ MatrixTypeOK'
  BY TypeInvParts DEF RequestsOK, OthersOK, PlacementTypeOK, MatrixTypeOK, placementVars, matrixVars
<1>2. ASSUME left > 0, UNCHANGED <<assetVars, agreementVars>>, NEW r \in AgreementRequest, Ask(u, r)
      PROVE  TypeInv'
  <2>1. OthersOK'
    BY <1>1, <1>2 DEF OthersOK, AssetTypeOK, AgreementTypeOK, assetVars, agreementVars
  <2>2. r.op # "place" /\ r \in AnyRequest
    BY DEF AgreementRequest, AnyRequest
  <2> QED BY <1>2, <2>1, <2>2, AskTypes
<1>3. ASSUME NEW s \in Site \cup {AllSites}, AskCover(u, s) PROVE TypeInv'
  <2>1. [op |-> "cover", scope |-> s] \in AgreementRequest
    BY DEF AgreementRequest
  <2> QED BY <1>2, <1>3, <2>1 DEF AskCover, Ready
<1>4. ASSUME NEW a \in Asset, AskAttach(u, a) PROVE TypeInv'
  <2>1. Above(asset[a].room) \subseteq Site
    BY <1>1, <1>4 DEF AskAttach, CanAttachAsset, Above, IsAsset, OthersOK, AssetTypeOK, AssetRow, Site
  <2>2. [op |-> "attach", asset |-> a, above |-> Above(asset[a].room)] \in AgreementRequest
    BY <2>1 DEF AgreementRequest
  <2> QED BY <1>2, <1>4, <2>2 DEF AskAttach, Ready
<1>5. CASE SaveCover(u)
  <2>1. request[u].scope \in Site \cup {AllSites}
    BY <1>1, <1>5, AssetFields DEF SaveCover
  <2>2. AssetTypeOK' /\ AgreementTypeOK'
    BY <1>1, <1>5, <2>1 DEF SaveCover, OthersOK, AssetTypeOK, AgreementTypeOK, assetVars
  <2> QED BY <1>1, <1>5, <2>2, RowsFrame, EndTypes DEF SaveCover, OthersOK
<1>6. CASE SaveAttach(u)
  <2>1. request[u].asset \in Asset
    BY <1>1, <1>6, AssetFields DEF SaveAttach
  <2>2. AssetTypeOK' /\ AgreementTypeOK'
    BY <1>1, <1>6, <2>1 DEF SaveAttach, OthersOK, AssetTypeOK, AgreementTypeOK, assetVars
  <2> QED BY <1>1, <1>6, <2>2, RowsFrame, EndTypes DEF SaveAttach, OthersOK
<1> QED BY <1>3, <1>4, <1>5, <1>6 DEF AgreementStep

LEMMA MatrixTypes ==
  ASSUME TypeInv, NEW u \in User, MatrixStep(u), UNCHANGED <<assetVars, placementVars, agreementVars>>
  PROVE  TypeInv'
<1>1. /\ RowsOK /\ OthersOK /\ RequestsOK /\ PlacesFit
      /\ founders \subseteq Assignment /\ left \in Nat
      /\ AssetTypeOK' /\ PlacementTypeOK' /\ AgreementTypeOK'
  BY TypeInvParts DEF OthersOK, AssetTypeOK, PlacementTypeOK, AgreementTypeOK,
                      assetVars, placementVars, agreementVars
<1>2. ASSUME NEW v \in User, request[v].op \in {"put", "written"}
      PROVE  request[v] \in MatrixRequest
  BY <1>1, <1>2, MatrixFields DEF RequestsOK
<1>3. ASSUME RequestsOK', PlacesFit', MatrixTypeOK',
             UNCHANGED <<siteVars, assignment, active, founders, topics, left>>
      PROVE  TypeInv'
  BY <1>1, <1>3, RowsFrame DEF TypeInv, TypeOK, RoleTypeOK, RowsOK, OthersOK, RequestsOK, AnyRequest
<1>4. ASSUME NEW c \in Code, NEW want \in SUBSET Offered, Put(u, c, want) PROVE TypeInv'
  <2> DEFINE roles == {r \in AnyRole : <<r, c>> \in granted}
  <2>1. want \ roles \in SUBSET AnyRole /\ roles \ want \in SUBSET AnyRole
    BY MatrixAssumption
  <2>2. Ask(u, [op |-> "put", code |-> c, add |-> want \ roles, drop |-> roles \ want, revokes |-> {}])
        /\ UNCHANGED matrixVars /\ left > 0
    BY <1>4 DEF Put, Ready
  <2> HIDE DEF roles
  <2> DEFINE r == [op |-> "put", code |-> c, add |-> want \ roles, drop |-> roles \ want, revokes |-> {}]
  <2>3. r \in MatrixRequest /\ r.op = "put"
    BY <2>1 DEF MatrixRequest
  <2>4. r \in AnyRequest /\ OthersOK'
    BY <1>1, <2>2, <2>3 DEF AnyRequest, OthersOK, MatrixTypeOK, matrixVars
  <2>5. Ask(u, r) /\ left > 0
    BY <2>2
  <2> HIDE DEF r
  <2> QED BY <2>3, <2>4, <2>5, AskTypes
<1>5. CASE Write(u)
  <2> DEFINE r == [request[u] EXCEPT !.op = "written",
                     !.add = {role \in request[u].add : <<role, request[u].code>> \notin granted},
                     !.drop = {role \in request[u].drop : <<role, request[u].code>> \in granted},
                     !.revokes = Revoked(u, request[u])]
  <2>1. request[u] \in MatrixRequest
    BY <1>2, <1>5 DEF Write
  <2>2. Revoked(u, request[u]) \subseteq User
    BY DEF Revoked
  <2>3. r \in MatrixRequest /\ r.op = "written"
    BY <2>1, <2>2 DEF MatrixRequest
  <2>4. request' = [request EXCEPT ![u] = r]
        /\ UNCHANGED <<siteVars, assignment, active, founders, topics, left, matrixVars>>
    BY <1>5 DEF Write
  <2> HIDE DEF r
  <2>5. RequestsOK' /\ PlacesFit'
    BY <1>1, <2>3, <2>4 DEF RequestsOK, PlacesFit, Asked, AnyRequest
  <2>6. MatrixTypeOK'
    BY <1>1, <2>4 DEF OthersOK, MatrixTypeOK, matrixVars
  <2> QED BY <1>3, <2>4, <2>5, <2>6
<1>6. CASE Commit(u)
  <2>1. request[u] \in MatrixRequest
    BY <1>2, <1>6 DEF Commit, Uncommitted
  <2>2. granted' \subseteq AnyRole \X Code
    BY <1>1, <1>6, <2>1 DEF Commit, OthersOK, MatrixTypeOK, MatrixRequest
  <2>3. \A x \in Session : [x EXCEPT !.stale = TRUE] \in Session
    BY DEF Session
  <2>4. session' \in [User -> Session \cup {NoSession}]
    BY <1>1, <1>6, <2>3 DEF Commit, OthersOK, MatrixTypeOK
  <2> QED BY <1>1, <1>6, <2>2, <2>4, RowsFrame, EndTypes DEF Commit, OthersOK, MatrixTypeOK
<1>7. CASE SignIn(u)
  <2>1. Actor(u) \in Assignment
    BY <1>1, <1>7 DEF SignIn, RowsOK, ActiveHeld, Held, Actor
  <2>2. Actor(u).role \in AnyRole
    BY <2>1, RoleAssumption DEF Assignment
  <2>3. RuntimeCodes(Actor(u).role) \subseteq Code
    BY DEF RuntimeCodes
  <2>4. MatrixTypeOK'
    BY <1>1, <1>7, <2>2, <2>3 DEF SignIn, OthersOK, MatrixTypeOK, Session
  <2>5. \A v \in User : Uncommitted(v) =>
          /\ [request[v] EXCEPT !.revokes = @ \ {u}] \in MatrixRequest
          /\ [request[v] EXCEPT !.revokes = @ \ {u}].op = "written"
    BY <1>2 DEF Uncommitted, MatrixRequest
  <2>6. DOMAIN request' = User /\ \A v \in User :
          \/ request'[v] = request[v]
          \/ request'[v] \in MatrixRequest /\ request'[v].op = "written"
    BY <1>7, <2>5 DEF SignIn
  <2>7. RequestsOK' /\ PlacesFit'
    BY <1>1, <2>6 DEF RequestsOK, PlacesFit, Asked, AnyRequest
  <2> QED BY <1>3, <1>7, <2>4, <2>7 DEF SignIn
<1> QED BY <1>4, <1>5, <1>6, <1>7 DEF MatrixStep

LEMMA TypeInvariant == Spec => []TypeInv
<1>1. TypeInv /\ [Next]_vars => TypeInv'
  <2> SUFFICES ASSUME TypeInv, [Next]_vars PROVE TypeInv'
    OBVIOUS
  <2>1. CASE UNCHANGED vars
    <3>1. RowsOK' /\ OthersOK'
      BY <2>1, TypeInvParts, RowsFrame, OthersFrame DEF vars, roleVars
    <3> QED BY <2>1, <3>1, TypeInvParts
            DEF vars, roleVars, TypeInv, TypeOK, RoleTypeOK, RowsOK, OthersOK, RequestsOK, AnyRequest,
                PlacesFit, Asked
  <2>2. CASE Next
    BY <2>2, RoleTypes, RemoveSiteTypes, AssetTypes, PlacementTypes, AgreementTypes, MatrixTypes DEF Next
  <2> QED BY <2>1, <2>2
<1> QED BY <1>1, InitTypes, PTL DEF Spec

\* Types: whatever requests of all parts overlap, each part's rows, what every
\* request is about to save and the sessions stay well formed; an existing
\* parent stands, and is recorded as one there has been.
THEOREM AdministrationTypes == Spec => []TypeOK
BY TypeInvariant, PTL DEF TypeInv
-----------------------------------------------------------------------------
(* Authority.                                                              *)

LEMMA RoleLevels ==
  ASSUME NEW role \in AnyRole
  PROVE  \/ role = "SITE_ADMIN" /\ Assignable(role) = {AllSites}
         \/ role \in DepartmentRole /\ role # "SITE_ADMIN" /\ Assignable(role) = Department
         \/ role \in LocationRole /\ role \notin DepartmentRole /\ role # "SITE_ADMIN"
              /\ Assignable(role) = Location
         \/ role \in RoomRole /\ role \notin DepartmentRole \cup LocationRole /\ role # "SITE_ADMIN"
              /\ Assignable(role) = Room
BY DEF AnyRole, SiteRole, DepartmentRole, LocationRole, RoomRole, Assignable

LEMMA RowFields ==
  ASSUME NEW row \in Assignment
  PROVE  row.user \in User /\ row.role \in AnyRole /\ row.scope \in Assignable(row.role)
BY RoleAssumption DEF Assignment

\* The scopes of two roles are of one level or have nothing in common.
LEMMA LevelsDisjoint ==
  ASSUME NEW r1 \in AnyRole, NEW r2 \in AnyRole, Assignable(r1) \cap Assignable(r2) # {}
  PROVE  Assignable(r1) = Assignable(r2)
BY RoleLevels, SiteAssumption DEF Site

LEMMA ManagesTransitive ==
  ASSUME NEW a, NEW b \in Manages(a), NEW c \in Manages(b)
  PROVE  c \in Manages(a)
BY DEF Manages, AnyRole, SiteRole, DepartmentRole, LocationRole, RoomRole

LEMMA ManagersAreRoles ==
  ASSUME NEW a, NEW b \in Manages(a)
  PROVE  a \in AnyRole /\ b \in AnyRole
BY DEF Manages, AnyRole, SiteRole, DepartmentRole, LocationRole, RoomRole

LEMMA ParentLevels ==
  ASSUME SiteTypeOK
  PROVE  /\ \A r \in Room : parent[r] \in Location \cup Marker
         /\ \A l \in Location : parent[l] \in Department \cup Marker
         /\ \A d \in Department : parent[d] \in Marker
         /\ Marker \cap Site = {} /\ AllSites \notin Site \cup Marker
BY SiteAssumption DEF SiteTypeOK, Parents, Site

\* What the checks of a single site come to on a well-formed tree.
LEMMA RoomAccess ==
  ASSUME SiteTypeOK, NEW actor \in Assignment, NEW r \in Room
  PROVE  CanAccessRoom(actor, r) <=> actor.role = "SITE_ADMIN" \/ Within(r, actor.scope)
<1>1. actor.role \in AnyRole /\ actor.scope \in Assignable(actor.role)
  BY RowFields
<1> QED BY <1>1, RoleLevels, ParentLevels, SiteAssumption DEF CanAccessRoom, Within, Site

LEMMA LocationAccess ==
  ASSUME SiteTypeOK, NEW actor \in Assignment, NEW l \in Location
  PROVE  CanAccessLocation(actor, l) <=> actor.role = "SITE_ADMIN" \/ Within(l, actor.scope)
<1>1. actor.role \in AnyRole /\ actor.scope \in Assignable(actor.role)
  BY RowFields
<1> QED BY <1>1, RoleLevels, ParentLevels, SiteAssumption DEF CanAccessLocation, Within, Site

LEMMA DepartmentAccess ==
  ASSUME SiteTypeOK, NEW actor \in Assignment, NEW d \in Department
  PROVE  CanAccessDepartment(actor, d) <=> actor.role = "SITE_ADMIN" \/ Within(d, actor.scope)
<1>1. actor.role \in AnyRole /\ actor.scope \in Assignable(actor.role)
  BY RowFields
<1> QED BY <1>1, RoleLevels, ParentLevels, SiteAssumption DEF CanAccessDepartment, Within, Site

\* The rule of who may give and take which role: by rank, and by the tree.
LEMMA ManageMeans ==
  ASSUME SiteTypeOK, NEW actor \in Assignment, NEW row \in Assignment
  PROVE  CanManage(actor, row) <=>
           /\ row.role \in Manages(actor.role)
           /\ actor.role = "SITE_ADMIN" \/ Within(row.scope, actor.scope)
<1>1. /\ row.role \in AnyRole /\ row.scope \in Assignable(row.role)
      /\ actor.role \in AnyRole /\ actor.scope \in Assignable(actor.role)
  BY RowFields
<1>2. CASE row.role = "SITE_ADMIN"
  <2>1. row.scope = AllSites /\ Assignable(row.role) = {AllSites}
    BY <1>1, <1>2, RoleLevels
  <2>2. row.role \in Manages(actor.role) => actor.role = "SITE_ADMIN"
    BY <1>2 DEF Manages, LocationRole, RoomRole
  <2> QED BY <1>2, <2>1, <2>2 DEF CanManage, CanAssign
<1>3. CASE row.role # "SITE_ADMIN"
  <2>1. row.scope \in Site /\ row.scope # AllSites
    BY <1>1, <1>3, RoleLevels, SiteAssumption DEF Site
  <2>2. CanManage(actor, row) <=>
          /\ row.role \in Manages(actor.role)
          /\ row.scope \in Room => CanAccessRoom(actor, row.scope)
          /\ row.scope \in Location => CanAccessLocation(actor, row.scope)
          /\ row.scope \in Department => CanAccessDepartment(actor, row.scope)
    BY <1>1, <2>1 DEF CanManage, CanAssign
  <2> QED BY <2>1, <2>2, RoomAccess, LocationAccess, DepartmentAccess, SiteAssumption DEF Site
<1> QED BY <1>2, <1>3

LEMMA NobodyManages ==
  ASSUME NEW role, NEW sites PROVE ~CanAssign(Nobody, role, sites)
BY DEF CanAssign, Nobody, Manages

LEMMA ContainsTransitive ==
  ASSUME SiteTypeOK, NEW a, NEW b, NEW c, Contains(a, b), Contains(b, c)
  PROVE  Contains(a, c)
BY SiteAssumption DEF Contains, SiteTypeOK, Site

LEMMA WithinContained ==
  ASSUME SiteTypeOK, NEW s, NEW a, Within(s, a), a \in Site
  PROVE  Contains(a, s)
<1>1. s \in Site /\ DOMAIN parent = Site
  BY DEF Within, SiteTypeOK
<1>2. \A t \in Site : parent[t] \in Site => <<t, parent[t]>> \in under
  BY DEF SiteTypeOK
<1>3. CASE parent[s] \in Site /\ parent[parent[s]] = a
  <2>1. <<s, parent[s]>> \in under /\ <<parent[s], a>> \in under
    BY <1>1, <1>2, <1>3
  <2>2. parent[s] \in Location
    BY <1>1, <1>3, ParentLevels, SiteAssumption DEF Site
  <2> QED BY <2>1, <2>2 DEF Contains
<1> QED BY <1>1, <1>2, <1>3 DEF Within, Contains

\* An update that may give a role could give it anew.
LEMMA UpdateGives ==
  ASSUME NEW actor, NEW old \in Assignment, NEW new \in Assignment,
         CanAssign(actor, new.role, Given(old, new))
  PROVE  CanManage(actor, new)
<1>1. /\ old.role \in AnyRole /\ old.scope \in Assignable(old.role)
      /\ new.role \in AnyRole /\ new.scope \in Assignable(new.role)
  BY RowFields
<1>2. CASE Assignable(new.role) = Assignable(old.role)
  BY <1>2 DEF Given, CanManage
<1>3. CASE Assignable(new.role) # Assignable(old.role)
  <2>1. old.scope \notin Assignable(new.role) /\ new.scope # old.scope
    BY <1>1, <1>3, LevelsDisjoint
  <2>2. Given(old, new) = {old.scope, new.scope} \ {AllSites}
    BY <1>3 DEF Given
  <2>3. CASE Given(old, new) = {}
    BY <2>1, <2>2, <2>3
  <2>4. ASSUME NEW s, Given(old, new) = {s}, s \in Assignable(new.role)
        PROVE  Given(old, new) = {new.scope} \ {AllSites}
    BY <2>1, <2>2, <2>4
  <2> QED BY <2>3, <2>4 DEF CanAssign, CanManage
<1> QED BY <1>2, <1>3
-----------------------------------------------------------------------------
(* Which requests a step may change, and which variables.                  *)

RoleKinds == {"create", "update", "delete", "switch", "place", "remove"}
PlacementKinds == {"assign", "seat", "transfer", "reseat"}
MatrixKinds == {"put", "written"}

\* Requests of other kinds stay, or end.
Only(kinds) ==
  \A v \in User :
    request'[v] = request[v] \/ request'[v] = Idle \/ request'[v].op \in kinds

LEMMA AskOnly ==
  ASSUME RequestsOK, NEW u \in User, NEW r, Ask(u, r), NEW kinds, r.op \in kinds
  PROVE  Only(kinds) /\ UNCHANGED <<siteVars, assignment, active, founders>>
BY DEF RequestsOK, Ask, Only

LEMMA DoneOnly ==
  ASSUME RequestsOK, NEW u \in User, Done(u), NEW kinds
  PROVE  Only(kinds) /\ UNCHANGED founders
BY DEF RequestsOK, Done, Only

LEMMA PlaceGrows ==
  ASSUME NEW s, NEW p, Place(s, p)
  PROVE  under \subseteq under'
BY DEF Place

LEMMA RoleOnly ==
  ASSUME TypeInv, NEW u \in User, RoleStep(u)
  PROVE  Only(RoleKinds) /\ under \subseteq under' /\ UNCHANGED founders
<1>1. RequestsOK
  BY TypeInvParts
<1>2. ASSUME NEW r, RoleAsked(u, r) PROVE Only(RoleKinds) /\ UNCHANGED <<under, founders>>
  <2>1. r.op \in RoleKinds
    BY <1>2 DEF RoleAsked, RoleRequest, RoleKinds
  <2> QED BY <1>1, <1>2, <2>1, AskOnly DEF RoleAsked, siteVars
<1>3. ASSUME NEW s, NEW p, Relocate(u, s, p)
      PROVE  Only(RoleKinds) /\ under \subseteq under' /\ UNCHANGED founders
  <2>1. UNCHANGED <<request, founders>> /\ Place(s, p)
    BY <1>3 DEF Relocate
  <2> QED BY <2>1, PlaceGrows DEF Only
<1>4. ASSUME NEW i, NEW row, Store(i, row) PROVE UNCHANGED under
  BY <1>4 DEF Store, siteVars
<1>5. CASE SaveCreate(u) \/ SaveUpdate(u)
  <2>1. Done(u) /\ UNCHANGED under
    BY <1>4, <1>5 DEF SaveCreate, SaveUpdate
  <2> QED BY <1>1, <2>1, DoneOnly
<1>6. CASE SaveDelete(u) \/ SaveSwitch(u) \/ Fail(u)
  <2>1. Done(u) /\ UNCHANGED under
    BY <1>6 DEF SaveDelete, SaveSwitch, Fail, siteVars
  <2> QED BY <1>1, <2>1, DoneOnly
<1>7. CASE SavePlace(u)
  <2>1. Done(u) /\ under \subseteq under'
    BY <1>7, PlaceGrows DEF SavePlace
  <2> QED BY <1>1, <2>1, DoneOnly
<1> QED BY <1>2, <1>3, <1>5, <1>6, <1>7, RoleStepKinds

LEMMA RemoveSiteOnly ==
  ASSUME TypeInv, NEW u \in User, RemoveSite(u)
  PROVE  Only({}) /\ UNCHANGED <<under, founders>>
<1>1. RequestsOK
  BY TypeInvParts
<1>2. Done(u) /\ UNCHANGED under
  BY DEF RemoveSite, SaveRemove, Remove
<1> QED BY <1>1, <1>2, DoneOnly

LEMMA AssetOnly ==
  ASSUME TypeInv, NEW u \in User, AssetStep(u)
  PROVE  Only({"asset"}) /\ UNCHANGED <<siteVars, assignment, active, founders>>
<1>1. RequestsOK
  BY TypeInvParts
<1>2. ASSUME NEW a, NEW row, Ask(u, [op |-> "asset", asset |-> a, row |-> row])
      PROVE  Only({"asset"}) /\ UNCHANGED <<siteVars, assignment, active, founders>>
  <2> DEFINE r == [op |-> "asset", asset |-> a, row |-> row]
  <2>1. Ask(u, r) /\ r.op = "asset"
    BY <1>2
  <2> HIDE DEF r
  <2> QED BY <1>1, <2>1, AskOnly
<1>3. CASE SaveAsset(u)
  <2>1. Done(u) /\ UNCHANGED <<siteVars, assignment, active>>
    BY <1>3 DEF SaveAsset
  <2> QED BY <1>1, <2>1, DoneOnly
<1>4. CASE UNCHANGED <<siteVars, assignment, active, request, founders>>
  BY <1>4 DEF Only
<1> QED BY <1>2, <1>3, <1>4, AssetStepKinds

LEMMA PlacementOnly ==
  ASSUME TypeInv, NEW u \in User, PlacementStep(u)
  PROVE  Only(PlacementKinds) /\ UNCHANGED <<siteVars, assignment, active, founders>>
<1>1. RequestsOK
  BY TypeInvParts
<1>2. ASSUME NEW r \in PlacementRequest, Ask(u, r)
      PROVE  Only(PlacementKinds) /\ UNCHANGED <<siteVars, assignment, active, founders>>
  <2>1. r.op \in PlacementKinds
    BY DEF PlacementRequest, PlacementKinds
  <2> QED BY <1>1, <1>2, <2>1, AskOnly
<1>3. CASE UNCHANGED <<siteVars, assignment, active, request, founders>>
  BY <1>3 DEF Only
<1>4. CASE SaveAssign(u) \/ SaveSeat(u) \/ SaveTransfer(u) \/ SaveReseat(u)
  <2>1. Done(u) /\ UNCHANGED <<siteVars, assignment, active>>
    BY <1>4 DEF SaveAssign, SaveSeat, SaveTransfer, SaveReseat
  <2> QED BY <1>1, <2>1, DoneOnly
<1> QED BY <1>2, <1>3, <1>4, PlacementStepKinds

LEMMA AgreementOnly ==
  ASSUME TypeInv, NEW u \in User, AgreementStep(u)
  PROVE  Only({"cover", "attach"}) /\ UNCHANGED <<siteVars, assignment, active, founders>>
<1>1. RequestsOK
  BY TypeInvParts
<1>2. CASE SaveCover(u) \/ SaveAttach(u)
  <2>1. Done(u) /\ UNCHANGED <<siteVars, assignment, active>>
    BY <1>2 DEF SaveCover, SaveAttach
  <2> QED BY <1>1, <2>1, DoneOnly
<1>3. ASSUME \E r : r.op \in {"cover", "attach"} /\ Ask(u, r)
      PROVE  Only({"cover", "attach"}) /\ UNCHANGED <<siteVars, assignment, active, founders>>
  BY <1>1, <1>3, AskOnly
<1>4. ASSUME NEW s, AskCover(u, s) PROVE \E r : r.op \in {"cover", "attach"} /\ Ask(u, r)
  <2> DEFINE r == [op |-> "cover", scope |-> s]
  <2>1. r.op = "cover" /\ Ask(u, r)
    BY <1>4 DEF AskCover
  <2> HIDE DEF r
  <2> QED BY <2>1
<1>5. ASSUME NEW a, AskAttach(u, a) PROVE \E r : r.op \in {"cover", "attach"} /\ Ask(u, r)
  <2> DEFINE r == [op |-> "attach", asset |-> a, above |-> Above(asset[a].room)]
  <2>1. r.op = "attach" /\ Ask(u, r)
    BY <1>5 DEF AskAttach
  <2> HIDE DEF r
  <2> QED BY <2>1
<1> QED BY <1>2, <1>3, <1>4, <1>5 DEF AgreementStep

LEMMA MatrixOnly ==
  ASSUME TypeInv, NEW u \in User, MatrixStep(u)
  PROVE  Only(MatrixKinds) /\ UNCHANGED <<siteVars, assignment, active, founders>>
<1>1. RequestsOK
  BY TypeInvParts
<1>2. ASSUME NEW c, NEW want, Put(u, c, want)
      PROVE  Only(MatrixKinds) /\ UNCHANGED <<siteVars, assignment, active, founders>>
  <2>1. PICK r : r.op = "put" /\ Ask(u, r)
    BY <1>2 DEF Put
  <2> QED BY <1>1, <2>1, AskOnly DEF MatrixKinds
<1>3. CASE Write(u)
  <2>1. request[u].op = "put" /\ request[u] \in MatrixRequest
    BY <1>1, <1>3, MatrixFields DEF RequestsOK, Write
  <2>2. Only(MatrixKinds)
    BY <1>1, <1>3, <2>1 DEF Write, Only, RequestsOK, MatrixKinds, MatrixRequest
  <2> QED BY <1>3, <2>2 DEF Write
<1>4. CASE Commit(u)
  <2>1. Done(u) /\ UNCHANGED <<siteVars, assignment, active>>
    BY <1>4 DEF Commit
  <2> QED BY <1>1, <2>1, DoneOnly
<1>5. CASE SignIn(u)
  <2>1. \A v \in User : Uncommitted(v) => request[v] \in MatrixRequest
    BY <1>1, MatrixFields DEF RequestsOK, Uncommitted
  <2>2. Only(MatrixKinds)
    BY <1>5, <2>1 DEF SignIn, Only, MatrixKinds, MatrixRequest, Uncommitted
  <2> QED BY <1>5, <2>2 DEF SignIn
<1> QED BY <1>2, <1>3, <1>4, <1>5 DEF MatrixStep
-----------------------------------------------------------------------------
(* Authority only flows down.                                              *)

LEMMA FoundedGrows ==
  ASSUME UNCHANGED founders, under \subseteq under'
  PROVE  \A row : Founded(row) => Founded(row)'
BY DEF Founded, Contains

\* Who may give a role has one that goes back to a founder, so this does too.
LEMMA GivenIsFounded ==
  ASSUME TypeInv, AuthorityIsFounded, NEW u \in User, NEW row \in Assignment,
         CanManage(Actor(u), row)
  PROVE  Founded(row)
<1>1. active[u] # NoRow
  BY NobodyManages DEF CanManage, Actor
<1>2. Actor(u) \in Assignment /\ Founded(Actor(u)) /\ SiteTypeOK /\ founders \subseteq Assignment
  BY <1>1, TypeInvParts DEF RowsOK, ActiveHeld, Held, Actor, AuthorityIsFounded
<1>3. row.role \in Manages(Actor(u).role)
  BY <1>2, ManageMeans
<1>4. Contains(Actor(u).scope, row.scope)
  <2>1. Actor(u).role \in AnyRole /\ Actor(u).scope \in Assignable(Actor(u).role)
    BY <1>2, RowFields
  <2>2. CASE Actor(u).role = "SITE_ADMIN"
    BY <2>1, <2>2, RoleLevels DEF Contains
  <2>3. CASE Actor(u).role # "SITE_ADMIN"
    <3>1. Within(row.scope, Actor(u).scope) /\ Actor(u).scope \in Site
      BY <1>2, <2>1, <2>3, ManageMeans, RoleLevels DEF Site
    <3> QED BY <1>2, <3>1, WithinContained
  <2> QED BY <2>2, <2>3
<1>5. CASE Actor(u) \in founders
  BY <1>3, <1>4, <1>5 DEF Founded
<1>6. ASSUME NEW f \in founders, Actor(u).role \in Manages(f.role), Contains(f.scope, Actor(u).scope)
      PROVE  Founded(row)
  BY <1>2, <1>3, <1>4, <1>6, ManagesTransitive, ContainsTransitive DEF Founded
<1> QED BY <1>2, <1>5, <1>6 DEF Founded

\* No step but these changes the rows of roles otherwise than by deleting some.
LEMMA AuthorityFrame ==
  ASSUME AuthorityInv, UNCHANGED founders, under \subseteq under',
         \A i \in Row : assignment'[i] \in {assignment[i], Unborn, Deleted},
         \A v \in User : \/ request'[v] = request[v] \/ request'[v] = Idle
                         \/ request'[v].op \notin {"create", "update"}
  PROVE  AuthorityInv'
<1>1. AuthorityIsFounded'
  <2> SUFFICES ASSUME NEW i \in Row, Held(i)' PROVE Founded(assignment[i])'
    BY DEF AuthorityIsFounded
  <2>1. assignment'[i] = assignment[i] /\ Founded(assignment[i])
    BY DEF AuthorityInv, AuthorityIsFounded, Held
  <2> QED BY <2>1 DEF Founded, Contains
<1>2. RequestsFounded'
  <2> SUFFICES ASSUME NEW v \in User, Asked(v, {"create", "update"})' PROVE Founded(request[v].row)'
    BY DEF RequestsFounded
  <2>1. request'[v] = request[v] /\ Founded(request[v].row)
    BY DEF AuthorityInv, RequestsFounded, Asked
  <2> QED BY <2>1 DEF Founded, Contains
<1> QED BY <1>1, <1>2 DEF AuthorityInv

\* What a request asks to save was within its user's power when it asked.
LEMMA AskedIsFounded ==
  ASSUME TypeInv, AuthorityInv, NEW u \in User, NEW r, RoleAsked(u, r)
  PROVE  AuthorityInv'
<1>1. /\ UNCHANGED <<siteVars, assignment, founders>> /\ r \in RoleRequest
      /\ \A v \in User \ {u} : request'[v] = request[v]
      /\ request'[u] = r
  BY TypeInvParts DEF RequestsOK, RoleAsked, Ask
<1>2. r.op = "create" => r.row \in Assignment
  BY <1>1, RoleFields DEF AnyRequest
<1>3. r.op = "update" => r.row \in Assignment /\ r.id \in Row
  BY <1>1, RoleFields DEF AnyRequest
<1>4. r.op \in {"create", "update"} => Founded(r.row)
  <2>1. CASE r.op = "create"
    <3>1. CanManage(Actor(u), r.row)
      BY <2>1 DEF RoleAsked, AskCreate, CanManage
    <3> QED BY <1>2, <2>1, <3>1, GivenIsFounded DEF AuthorityInv
  <2>2. CASE r.op = "update"
    <3>1. Held(r.id) /\ CanAssign(Actor(u), r.row.role, Given(assignment[r.id], r.row))
      BY <2>2 DEF RoleAsked, AskUpdate, CanUpdate
    <3>2. assignment[r.id] \in Assignment
      BY <1>3, <2>2, <3>1, TypeInvParts DEF RowsOK, Held
    <3> QED BY <1>3, <2>2, <3>1, <3>2, UpdateGives, GivenIsFounded DEF AuthorityInv
  <2> QED BY <2>1, <2>2
<1>5. AuthorityIsFounded'
  BY <1>1 DEF AuthorityInv, AuthorityIsFounded, Held, Founded, Contains, siteVars
<1>6. RequestsFounded'
  <2> SUFFICES ASSUME NEW v \in User, Asked(v, {"create", "update"})' PROVE Founded(request[v].row)'
    BY DEF RequestsFounded
  <2>1. Founded(request'[v].row)
    BY <1>1, <1>4 DEF AuthorityInv, RequestsFounded, Asked
  <2> QED BY <1>1, <2>1 DEF Founded, Contains, siteVars
<1> QED BY <1>5, <1>6 DEF AuthorityInv

LEMMA RoleAuthority ==
  ASSUME TypeInv, AuthorityInv, NEW u \in User, RoleStep(u)
  PROVE  AuthorityInv'
<1>1. RequestsOK /\ Only(RoleKinds) /\ under \subseteq under' /\ UNCHANGED founders
  BY TypeInvParts, RoleOnly
<1>2. ASSUME NEW i \in Row, NEW row, row = request[u].row, Store(i, row), Done(u), Asked(u, {"create", "update"})
      PROVE  AuthorityInv'
  <2>1. Founded(row)
    BY <1>2 DEF AuthorityInv, RequestsFounded
  <2>2. \A j \in Row : assignment'[j] \in {row, assignment[j]}
    BY <1>2, TypeInvParts DEF RowsOK, Store
  <2>3. AuthorityIsFounded'
    <3> SUFFICES ASSUME NEW j \in Row, Held(j)' PROVE Founded(assignment[j])'
      BY DEF AuthorityIsFounded
    <3>1. Founded(assignment'[j])
      BY <2>1, <2>2 DEF AuthorityInv, AuthorityIsFounded, Held
    <3> QED BY <1>1, <3>1 DEF Founded, Contains
  <2>4. RequestsFounded'
    <3> SUFFICES ASSUME NEW v \in User, Asked(v, {"create", "update"})' PROVE Founded(request[v].row)'
      BY DEF RequestsFounded
    <3>1. request'[v] = request[v] /\ Founded(request[v].row)
      BY <1>1, <1>2 DEF AuthorityInv, RequestsFounded, Asked, Done, RequestsOK
    <3> QED BY <1>1, <3>1 DEF Founded, Contains
  <2> QED BY <2>3, <2>4 DEF AuthorityInv
<1>3. ASSUME Done(u), \A i \in Row : assignment'[i] \in {assignment[i], Unborn, Deleted}
      PROVE  AuthorityInv'
  <2>1. \A v \in User : request'[v] = request[v] \/ request'[v] = Idle
    <3>1. Only({})
      BY <1>1, <1>3, DoneOnly
    <3> QED BY <3>1 DEF Only
  <2> QED BY <1>1, <1>3, <2>1, AuthorityFrame
<1>4. ASSUME NEW s, NEW p, Relocate(u, s, p) PROVE AuthorityInv'
  <2>1. UNCHANGED <<request, assignment>>
    BY <1>4 DEF Relocate
  <2> QED BY <1>1, <2>1, AuthorityFrame
<1>5. CASE SaveCreate(u)
  BY <1>2, <1>5 DEF SaveCreate, Asked
<1>6. CASE SaveUpdate(u)
  <2>1. request[u].id \in Row
    BY <1>1, <1>6, RoleFields DEF SaveUpdate, RequestsOK
  <2> QED BY <1>2, <1>6, <2>1 DEF SaveUpdate, Asked
<1>7. CASE SaveDelete(u)
  BY <1>3, <1>7 DEF SaveDelete, Erase
<1>8. CASE SaveSwitch(u) \/ SavePlace(u) \/ Fail(u)
  BY <1>3, <1>8 DEF SaveSwitch, SavePlace, Fail
<1> QED BY <1>4, <1>5, <1>6, <1>7, <1>8, AskedIsFounded, RoleStepKinds

LEMMA AuthorityStep == TypeInv /\ AuthorityInv /\ [Next]_vars => AuthorityInv'
<1> SUFFICES ASSUME TypeInv, AuthorityInv, [Next]_vars PROVE AuthorityInv'
  OBVIOUS
<1>1. ASSUME NEW u \in User, RemoveSite(u) PROVE AuthorityInv'
  <2>1. \A i \in Row : assignment'[i] \in {assignment[i], Unborn, Deleted}
    BY <1>1 DEF RemoveSite, SaveRemove, Erase
  <2>2. Only({}) /\ UNCHANGED <<under, founders>>
    BY <1>1, RemoveSiteOnly
  <2> QED BY <2>1, <2>2, AuthorityFrame DEF Only
<1>2. ASSUME NEW kinds, Only(kinds), kinds \cap {"create", "update"} = {},
             UNCHANGED <<siteVars, assignment, founders>>
      PROVE  AuthorityInv'
  BY <1>2, AuthorityFrame DEF Only, siteVars
<1>3. ASSUME NEW u \in User, ChangeAsset(u) PROVE AuthorityInv'
  BY <1>2, <1>3, AssetOnly DEF ChangeAsset
<1>4. ASSUME NEW u \in User, PlacementStep(u) PROVE AuthorityInv'
  BY <1>2, <1>4, PlacementOnly DEF PlacementKinds
<1>5. ASSUME NEW u \in User, AgreementStep(u) PROVE AuthorityInv'
  BY <1>2, <1>5, AgreementOnly
<1>6. ASSUME NEW u \in User, MatrixStep(u) PROVE AuthorityInv'
  BY <1>2, <1>6, MatrixOnly DEF MatrixKinds
<1>7. CASE UNCHANGED vars
  BY <1>7, AuthorityFrame DEF vars, roleVars, siteVars
<1> QED BY <1>1, <1>3, <1>4, <1>5, <1>6, <1>7, RoleAuthority DEF Next

LEMMA AuthorityInit == Init => AuthorityInv
BY DEF Init, RoleInit, AuthorityInv, AuthorityIsFounded, RequestsFounded, Founded, Asked, Held

LEMMA AuthorityInvariant == Spec => []AuthorityInv
BY TypeInvariant, AuthorityInit, AuthorityStep, PTL DEF Spec
-----------------------------------------------------------------------------
(* The matrix keeps the boundaries.                                        *)

\* What a role may be granted, every role that can assign it may be granted.
LEMMA BoundariesRise ==
  ASSUME NEW m, NEW role \in Manages(m), NEW c, MayBeGranted(role, c)
  PROVE  MayBeGranted(m, c)
<1>1. BeyondLocation(c) => BeyondRoom(c)
  BY DEF BeyondLocation, BeyondRoom
<1> QED BY <1>1 DEF MayBeGranted, Manages, AnyRole, SiteRole, DepartmentRole, LocationRole, RoomRole,
                    AdminRole, ViewerRole

LEMMA GrantsFrame ==
  ASSUME GrantsPermitted, UNCHANGED granted,
         NEW kinds, Only(kinds), kinds \cap MatrixKinds = {}
  PROVE  GrantsPermitted'
BY DEF GrantsPermitted, Only, Asked, MatrixKinds

LEMMA MatrixGrants ==
  ASSUME TypeInv, GrantsPermitted, NEW u \in User, MatrixStep(u)
  PROVE  GrantsPermitted'
<1>1. RequestsOK
  BY TypeInvParts
<1>2. \A v \in User : Asked(v, MatrixKinds) => request[v] \in MatrixRequest
  BY <1>1, MatrixFields DEF RequestsOK, Asked, MatrixKinds
<1>3. ASSUME NEW c, NEW want, Put(u, c, want) PROVE GrantsPermitted'
  <2>1. PICK r : /\ r.code = c /\ r.add \subseteq want /\ Ask(u, r)
                 /\ \A role \in want : MayBeGranted(role, c)
                 /\ UNCHANGED granted
    BY <1>3 DEF Put, matrixVars
  <2>2. request'[u] = r /\ \A v \in User \ {u} : request'[v] = request[v]
    BY <1>1, <2>1 DEF RequestsOK, Ask
  <2> QED BY <2>1, <2>2 DEF GrantsPermitted, Asked
<1>4. CASE Write(u)
  <2>1. request[u] \in MatrixRequest /\ Asked(u, {"put", "written"})
    BY <1>2, <1>4 DEF Write, Asked, MatrixKinds
  <2>2. /\ request'[u].code = request[u].code /\ request'[u].add \subseteq request[u].add
        /\ \A v \in User \ {u} : request'[v] = request[v]
        /\ UNCHANGED granted
    BY <1>1, <1>4, <2>1 DEF Write, RequestsOK, MatrixRequest, matrixVars
  <2> QED BY <2>1, <2>2 DEF GrantsPermitted, Asked
<1>5. CASE Commit(u)
  <2>1. Asked(u, {"put", "written"}) /\ Done(u)
        /\ granted' \subseteq granted \cup (request[u].add \X {request[u].code})
    BY <1>5 DEF Commit, Uncommitted, Asked
  <2>2. \A g \in granted' : MayBeGranted(g[1], g[2])
    BY <2>1 DEF GrantsPermitted
  <2>3. \A v \in User : request'[v] = request[v] \/ request'[v] = Idle
    BY <1>1, <2>1 DEF RequestsOK, Done
  <2> QED BY <2>2, <2>3 DEF GrantsPermitted, Asked
<1>6. CASE SignIn(u)
  <2>1. \A v \in User : \/ request'[v] = request[v]
                        \/ /\ Asked(v, {"put", "written"})
                           /\ request'[v].code = request[v].code /\ request'[v].add = request[v].add
    BY <1>2, <1>6 DEF SignIn, Uncommitted, Asked, MatrixKinds, MatrixRequest
  <2>2. UNCHANGED granted
    BY <1>6 DEF SignIn
  <2> QED BY <2>1, <2>2 DEF GrantsPermitted, Asked
<1> QED BY <1>3, <1>4, <1>5, <1>6 DEF MatrixStep

LEMMA GrantsInvariant == Spec => []GrantsPermitted
<1>1. Init => GrantsPermitted
  BY DEF Init, RoleInit, MatrixInit, GrantsPermitted, Asked
<1>2. TypeInv /\ GrantsPermitted /\ [Next]_vars => GrantsPermitted'
  <2> SUFFICES ASSUME TypeInv, GrantsPermitted, [Next]_vars PROVE GrantsPermitted'
    OBVIOUS
  <2>1. ASSUME NEW u \in User, RoleStep(u), UNCHANGED matrixVars PROVE GrantsPermitted'
    BY <2>1, RoleOnly, GrantsFrame DEF matrixVars, RoleKinds, MatrixKinds
  <2>2. ASSUME NEW u \in User, RemoveSite(u) PROVE GrantsPermitted'
    BY <2>2, RemoveSiteOnly, GrantsFrame DEF RemoveSite, matrixVars
  <2>3. ASSUME NEW u \in User, ChangeAsset(u) PROVE GrantsPermitted'
    BY <2>3, AssetOnly, GrantsFrame DEF ChangeAsset, matrixVars, MatrixKinds
  <2>4. ASSUME NEW u \in User, PlacementStep(u), UNCHANGED matrixVars PROVE GrantsPermitted'
    BY <2>4, PlacementOnly, GrantsFrame DEF matrixVars, PlacementKinds, MatrixKinds
  <2>5. ASSUME NEW u \in User, AgreementStep(u), UNCHANGED matrixVars PROVE GrantsPermitted'
    BY <2>5, AgreementOnly, GrantsFrame DEF matrixVars, MatrixKinds
  <2>6. CASE UNCHANGED vars
    BY <2>6 DEF vars, roleVars, matrixVars, GrantsPermitted, Asked
  <2> QED BY <2>1, <2>2, <2>3, <2>4, <2>5, <2>6, MatrixGrants DEF Next
<1> QED BY <1>1, <1>2, TypeInvariant, PTL DEF Spec

\* Authority only flows down: whatever requests to create, change and delete
\* assignments, to move, delete and bring back sites, and to change the matrix
\* overlap, each assignment is one that a role of the start could have made, by
\* rank and by scope, and no role is granted what a role above it may not have.
THEOREM AuthorityFlowsDownAlways == Spec => []AuthorityFlowsDown
<1>1. AuthorityInv /\ GrantsPermitted => AuthorityFlowsDown
  BY BoundariesRise DEF AuthorityFlowsDown, AuthorityInv, GrantsPermitted, GrantsStayBelow
<1> QED BY <1>1, AuthorityInvariant, GrantsInvariant, PTL
-----------------------------------------------------------------------------
(* Sessions work with what is granted.                                     *)

SessionsInv == SessionsTrue /\ UpdatesRevoke

LEMMA SessionsFrame ==
  ASSUME SessionsInv, UNCHANGED matrixVars,
         \A v \in User : request'[v] = request[v] \/ request'[v] = Idle \/ request'[v].op # "written"
  PROVE  SessionsInv'
<1>1. SessionsTrue'
  BY DEF SessionsInv, SessionsTrue, RuntimeCodes, matrixVars
<1>2. \A v \in User : Uncommitted(v)' => request'[v] = request[v] /\ Uncommitted(v)
  BY DEF Uncommitted
<1> QED BY <1>1, <1>2 DEF SessionsInv, UpdatesRevoke, matrixVars

\* An update revokes the sessions of all others, if it is going to change a row.
LEMMA WriteSessions ==
  ASSUME TypeInv, SessionsInv, NEW u \in User, Write(u)
  PROVE  SessionsInv'
<1>1. request[u] \in MatrixRequest /\ DOMAIN request = User
  BY TypeInvParts, MatrixFields DEF RequestsOK, Write
<1>2. /\ request'[u].add = {role \in request[u].add : <<role, request[u].code>> \notin granted}
      /\ request'[u].drop = {role \in request[u].drop : <<role, request[u].code>> \in granted}
      /\ request'[u].revokes = Revoked(u, request[u])
      /\ \A v \in User \ {u} : request'[v] = request[v]
      /\ UNCHANGED <<granted, session>>
  BY <1>1 DEF Write, MatrixRequest, matrixVars
<1>3. request'[u].add \cup request'[u].drop # {} =>
        \A v \in User \ {u} : session[v] # NoSession => v \in request'[u].revokes
  BY <1>2 DEF Revoked
<1>4. UpdatesRevoke'
  <2> SUFFICES ASSUME NEW w \in User, NEW v \in User, Uncommitted(w)',
                      (request[w].add \cup request[w].drop # {})', w # v, session'[v] # NoSession
               PROVE  v \in request'[w].revokes \/ session'[v].stale
    BY DEF UpdatesRevoke
  <2>1. CASE w = u
    BY <1>2, <1>3, <2>1
  <2>2. CASE w # u
    BY <1>2, <2>2 DEF SessionsInv, UpdatesRevoke, Uncommitted
  <2> QED BY <2>1, <2>2
<1>5. SessionsTrue'
  BY <1>2 DEF SessionsInv, SessionsTrue, RuntimeCodes
<1> QED BY <1>4, <1>5 DEF SessionsInv

\* A session that outlives the commit is stale, or no row was changed.
LEMMA CommitSessions ==
  ASSUME TypeInv, SessionsInv, NEW u \in User, Commit(u)
  PROVE  SessionsInv'
<1>1. /\ RequestsOK /\ session \in [User -> Session \cup {NoSession}] /\ NoSession \notin Session
      /\ request[u] \in MatrixRequest
  BY TypeInvParts, MatrixFields, MatrixAssumption DEF RequestsOK, OthersOK, MatrixTypeOK, Commit, Uncommitted
<1>2. \A v \in User : session'[v] # NoSession =>
        /\ session[v] # NoSession
        /\ v \notin request[u].revokes
        /\ session'[v].role = session[v].role /\ session'[v].codes = session[v].codes
        /\ session[v].stale => session'[v].stale
        /\ v = u => session'[v].stale
  BY <1>1 DEF Commit, Session
<1>3. request[u].add \cup request[u].drop = {} => granted' = granted
  BY DEF Commit
<1>4. SessionsTrue'
  <2> SUFFICES ASSUME NEW v \in User, session'[v] # NoSession, ~session'[v].stale
               PROVE  session'[v].codes = RuntimeCodes(session[v].role)'
    BY DEF SessionsTrue
  <2>1. session[v] # NoSession /\ ~session[v].stale /\ v # u /\ v \notin request[u].revokes
    BY <1>2
  <2>2. request[u].add \cup request[u].drop = {}
    BY <2>1 DEF SessionsInv, UpdatesRevoke, Commit
  <2>3. session[v].codes = RuntimeCodes(session[v].role)
    BY <2>1 DEF SessionsInv, SessionsTrue
  <2> QED BY <1>2, <1>3, <2>2, <2>3 DEF RuntimeCodes
<1>5. \A w \in User : Uncommitted(w)' => Uncommitted(w) /\ request'[w] = request[w]
  BY <1>1 DEF Commit, Done, RequestsOK, Uncommitted
<1>6. UpdatesRevoke'
  BY <1>2, <1>5 DEF SessionsInv, UpdatesRevoke
<1> QED BY <1>4, <1>6 DEF SessionsInv

LEMMA SignInSessions ==
  ASSUME TypeInv, SessionsInv, NEW u \in User, SignIn(u)
  PROVE  SessionsInv'
<1>1. /\ RequestsOK /\ session \in [User -> Session \cup {NoSession}]
      /\ \A w \in User : Uncommitted(w) => request[w] \in MatrixRequest
  BY TypeInvParts, MatrixFields DEF RequestsOK, OthersOK, MatrixTypeOK, Uncommitted
<1>2. /\ session'[u].role = Actor(u).role /\ session'[u].codes = RuntimeCodes(Actor(u).role)
      /\ session'[u].stale = (\E w \in User : Uncommitted(w))
      /\ \A v \in User \ {u} : session'[v] = session[v]
      /\ UNCHANGED granted
  BY <1>1 DEF SignIn
<1>3. \A w \in User : Uncommitted(w)' =>
        /\ Uncommitted(w)
        /\ request'[w].add = request[w].add /\ request'[w].drop = request[w].drop
        /\ request[w].revokes \ {u} \subseteq request'[w].revokes
  BY <1>1 DEF SignIn, Uncommitted, MatrixRequest
<1>4. SessionsTrue'
  <2> SUFFICES ASSUME NEW v \in User, session'[v] # NoSession, ~session'[v].stale
               PROVE  session'[v].codes = RuntimeCodes(session[v].role)'
    BY DEF SessionsTrue
  <2>1. CASE v = u
    BY <1>2, <2>1 DEF RuntimeCodes
  <2>2. CASE v # u
    BY <1>2, <2>2 DEF RuntimeCodes, SessionsInv, SessionsTrue
  <2> QED BY <2>1, <2>2
<1>5. UpdatesRevoke'
  <2> SUFFICES ASSUME NEW w \in User, NEW v \in User, Uncommitted(w)',
                      (request[w].add \cup request[w].drop # {})', w # v, session'[v] # NoSession
               PROVE  v \in request'[w].revokes \/ session'[v].stale
    BY DEF UpdatesRevoke
  <2>1. CASE v = u
    BY <1>2, <1>3, <2>1
  <2>2. CASE v # u
    BY <1>2, <1>3, <2>2 DEF SessionsInv, UpdatesRevoke
  <2> QED BY <2>1, <2>2
<1> QED BY <1>4, <1>5 DEF SessionsInv

LEMMA SessionsInvariant == Spec => []SessionsInv
<1>1. Init => SessionsInv
  BY DEF Init, RoleInit, MatrixInit, SessionsInv, SessionsTrue, UpdatesRevoke, Uncommitted
<1>2. TypeInv /\ SessionsInv /\ [Next]_vars => SessionsInv'
  <2> SUFFICES ASSUME TypeInv, SessionsInv, [Next]_vars PROVE SessionsInv'
    OBVIOUS
  <2>1. ASSUME NEW kinds, Only(kinds), "written" \notin kinds, UNCHANGED matrixVars PROVE SessionsInv'
    BY <2>1, SessionsFrame DEF Only
  <2>2. ASSUME NEW u \in User, RoleStep(u), UNCHANGED matrixVars PROVE SessionsInv'
    BY <2>1, <2>2, RoleOnly DEF RoleKinds
  <2>3. ASSUME NEW u \in User, RemoveSite(u) PROVE SessionsInv'
    BY <2>1, <2>3, RemoveSiteOnly DEF RemoveSite
  <2>4. ASSUME NEW u \in User, ChangeAsset(u) PROVE SessionsInv'
    BY <2>1, <2>4, AssetOnly DEF ChangeAsset, matrixVars
  <2>5. ASSUME NEW u \in User, PlacementStep(u), UNCHANGED matrixVars PROVE SessionsInv'
    BY <2>1, <2>5, PlacementOnly DEF PlacementKinds
  <2>6. ASSUME NEW u \in User, AgreementStep(u), UNCHANGED matrixVars PROVE SessionsInv'
    BY <2>1, <2>6, AgreementOnly
  <2>7. ASSUME NEW u \in User, NEW c, NEW want, Put(u, c, want) PROVE SessionsInv'
    <3>1. PICK r : r.op = "put" /\ Ask(u, r) /\ UNCHANGED matrixVars
      BY <2>7 DEF Put
    <3>2. RequestsOK
      BY TypeInvParts
    <3> QED BY <2>1, <3>1, <3>2, AskOnly
  <2>8. CASE UNCHANGED vars
    BY <2>8, SessionsFrame DEF vars, roleVars
  <2> QED BY <2>2, <2>3, <2>4, <2>5, <2>6, <2>7, <2>8, WriteSessions, CommitSessions, SignInSessions
          DEF Next, MatrixStep
<1> QED BY <1>1, <1>2, TypeInvariant, PTL DEF Spec

\* A live session works with the codes that its requests are decided on, however
\* updates of the matrix and sign-ins overlap; but for a session opened between
\* an update's revocation and its commit, and the session of who made it.
THEOREM ContextFreshAlways == Spec => []ContextFresh
<1>1. SessionsInv => ContextFresh
  BY DEF SessionsInv, SessionsTrue, ContextFresh, RuntimeCodes, HasPermission
<1> QED BY <1>1, SessionsInvariant, PTL
-----------------------------------------------------------------------------
(* Holders stay put.                                                       *)

\* The current seats of a user stay as they are.
Undisturbed(v) ==
  \A s \in Seat : IsCurrent(s, v) \/ IsCurrent(s, v)' => placement'[s] = placement[s]

LEMMA RoomStays ==
  ASSUME NEW v, Undisturbed(v)
  PROVE  SeatsOf(v)' = SeatsOf(v) /\ RoomOf(v)' = RoomOf(v)
<1>1. SeatsOf(v)' = SeatsOf(v)
  BY DEF Undisturbed, SeatsOf, IsCurrent, IsSeat
<1> DEFINE Chosen(S) == CHOOSE s \in S : TRUE
<1>2. SeatsOf(v) # {} => Chosen(SeatsOf(v)) \in SeatsOf(v)
  OBVIOUS
<1>3. RoomOf(v) = IF SeatsOf(v) = {} THEN NoSite ELSE placement[Chosen(SeatsOf(v))].room
  BY DEF RoomOf
<1>4. RoomOf(v)' = IF SeatsOf(v)' = {} THEN NoSite ELSE placement'[Chosen(SeatsOf(v)')].room
  BY DEF RoomOf
<1> HIDE DEF Chosen
<1>5. \A s \in SeatsOf(v) : placement'[s] = placement[s]
  BY DEF Undisturbed, SeatsOf
<1> QED BY <1>1, <1>2, <1>3, <1>4, <1>5

LEMMA HoldersFrame ==
  ASSUME HoldersStayPut,
         \A a \in Asset : IsLive(a)' /\ holder'[a] # NoUser /\ givenIn'[a] # AllSites =>
           /\ IsLive(a) /\ holder'[a] = holder[a] /\ givenIn'[a] = givenIn[a]
           /\ Undisturbed(holder[a])
  PROVE  HoldersStayPut'
<1> SUFFICES ASSUME NEW a \in Asset, IsLive(a)', holder'[a] # NoUser, givenIn'[a] # AllSites
             PROVE  RoomOf(holder[a])' = givenIn'[a]
  BY DEF HoldersStayPut
<1>1. /\ IsLive(a) /\ holder'[a] = holder[a] /\ givenIn'[a] = givenIn[a]
      /\ Undisturbed(holder[a])
  OBVIOUS
<1>2. RoomOf(holder[a]) = givenIn[a]
  BY <1>1 DEF HoldersStayPut
<1>3. ASSUME NEW x, x = holder[a] PROVE RoomOf(x)' = givenIn'[a]
  BY <1>1, <1>2, <1>3, RoomStays
<1> QED BY <1>1, <1>3

Quiet == \A s \in Seat :
  (IsSeat(s) /\ placement[s].current) \/ (IsSeat(s) /\ placement[s].current)' => placement'[s] = placement[s]

LEMMA QuietSeats ==
  ASSUME OneSeat, Quiet
  PROVE  OneSeat' /\ \A v : Undisturbed(v)
BY DEF OneSeat, Quiet, Undisturbed, SeatsOf, IsCurrent, IsSeat

\* Claims stay true, as long as rows that are claimed keep their user.
LEMMA ClaimsFrame ==
  ASSUME ClaimsStand,
         \A u \in User, s \in Seat, v \in User : Claims(u, s, v)' => Claims(u, s, v),
         \A s \in Seat : placement[s] # Unborn =>
           /\ placement'[s] # Unborn
           /\ \/ IsSeat(s)' => IsSeat(s) /\ placement'[s].user = placement[s].user
              \/ \E w \in User, x \in User : Claims(w, s, x) /\ placement'[s].user = x
  PROVE  ClaimsStand'
<1> SUFFICES ASSUME NEW u \in User, NEW w \in User, NEW s \in Seat, NEW v \in User, NEW x \in User,
                    Claims(u, s, v)'
             PROVE  /\ placement'[s] # Unborn /\ (IsSeat(s)' => placement'[s].user = v)
                    /\ Claims(w, s, x)' => x = v
  BY DEF ClaimsStand
<1>1. Claims(u, s, v) /\ placement[s] # Unborn /\ (IsSeat(s) => placement[s].user = v)
  BY DEF ClaimsStand
<1> QED BY <1>1 DEF ClaimsStand

LEMMA OnlyClaims ==
  ASSUME TransfersEmpty, NEW kinds, Only(kinds), kinds \cap {"transfer", "reseat"} = {}
  PROVE  /\ TransfersEmpty'
         /\ \A u \in User, s \in Seat, v \in User : Claims(u, s, v)' => Claims(u, s, v)
BY DEF TransfersEmpty, Only, Asked, Claims

\* A step that leaves the seats and makes no claim.
LEMMA SeatsKept ==
  ASSUME SeatsInv, UNCHANGED placement, NEW kinds, Only(kinds), kinds \cap {"transfer", "reseat"} = {},
         HoldersStayPut'
  PROVE  SeatsInv'
<1>1. OneSeat'
  BY QuietSeats DEF SeatsInv, Quiet
<1>2. /\ TransfersEmpty'
      /\ \A u \in User, s \in Seat, v \in User : Claims(u, s, v)' => Claims(u, s, v)
  BY OnlyClaims DEF SeatsInv
<1>3. ClaimsStand'
  BY <1>2, ClaimsFrame DEF SeatsInv, IsSeat
<1> QED BY <1>1, <1>2, <1>3 DEF SeatsInv

LEMMA SeatsFrame ==
  ASSUME SeatsInv, UNCHANGED placement, NEW kinds, Only(kinds), kinds \cap {"transfer", "reseat"} = {},
         \A a \in Asset : IsLive(a)' /\ holder'[a] # NoUser /\ givenIn'[a] # AllSites =>
           IsLive(a) /\ holder'[a] = holder[a] /\ givenIn'[a] = givenIn[a]
  PROVE  SeatsInv'
<1>1. \A v : Undisturbed(v)
  BY DEF Undisturbed
<1>2. HoldersStayPut'
  BY <1>1, HoldersFrame DEF SeatsInv
<1> QED BY <1>2, SeatsKept

\* Who asks for a transfer or for another room of a row claims a seat that is
\* its user's, and only of who holds nothing.
LEMMA AskSeats ==
  ASSUME TypeInv, SeatsInv, NEW u \in User, NEW r \in PlacementRequest, Ask(u, r),
         UNCHANGED <<assetVars, placementVars>>,
         r.op = "transfer" => r.left \in SeatsOf(r.user) /\ r.held = {},
         r.op = "reseat" => /\ IsSeat(r.seat) /\ placement[r.seat].user = r.row.user
                            /\ r.row.room # NoSite
  PROVE  SeatsInv'
<1>1. /\ RequestsOK /\ request'[u] = r /\ \A v \in User \ {u} : request'[v] = request[v]
  BY TypeInvParts DEF RequestsOK, Ask
<1>2. OneSeat' /\ \A v : Undisturbed(v)
  BY QuietSeats DEF SeatsInv, Quiet, placementVars
<1>3. HoldersStayPut'
  BY <1>2, HoldersFrame DEF SeatsInv, IsLive, IsAsset, assetVars, placementVars
<1>4. TransfersEmpty'
  BY <1>1 DEF SeatsInv, TransfersEmpty, Asked
<1>5. \A w \in User, s \in Seat, v \in User : Claims(w, s, v)' =>
        \/ Claims(w, s, v)
        \/ IsSeat(s) /\ placement[s].user = v
  BY <1>1 DEF Claims, Asked, SeatsOf, IsCurrent
<1>6. ClaimsStand'
  <2> SUFFICES ASSUME NEW w1 \in User, NEW w2 \in User, NEW s \in Seat, NEW v \in User, NEW x \in User,
                      Claims(w1, s, v)'
               PROVE  /\ placement[s] # Unborn /\ (IsSeat(s) => placement[s].user = v)
                      /\ Claims(w2, s, x)' => x = v
    BY DEF ClaimsStand, IsSeat, placementVars
  <2>1. placement[s] # Unborn /\ (IsSeat(s) => placement[s].user = v)
    BY <1>5 DEF SeatsInv, ClaimsStand, IsSeat
  <2>2. ASSUME Claims(w2, s, x)' PROVE x = v
    BY <1>5, <2>1, <2>2 DEF SeatsInv, ClaimsStand, IsSeat
  <2> QED BY <2>1, <2>2
<1> QED BY <1>2, <1>3, <1>4, <1>6 DEF SeatsInv

LEMMA NewSeat ==
  ASSUME NEW v \in User, NEW r \in Room
  PROVE  /\ NewRow(v, r) \notin {Unborn, Deleted} /\ NewRow(v, r).user = v
         /\ NewRow(v, r).current /\ NewRow(v, r).room = r /\ r # NoSite
<1>1. NewRow(v, r) \in PlacementRow
  BY DEF NewRow, PlacementRow
<1>2. NewRow(v, r).user = v /\ NewRow(v, r).current /\ NewRow(v, r).room = r
  BY DEF NewRow
<1> QED BY <1>1, <1>2, PlacementAssumption, SiteAssumption DEF Site, Marker

\* Rows of the users' seats.
LEMMA SeatRows ==
  ASSUME TypeInv
  PROVE  /\ placement \in [Seat -> PlacementRow \cup {Unborn, Deleted}]
         /\ \A s \in Seat : IsSeat(s) => placement[s] \in PlacementRow
         /\ \A row \in PlacementRow :
              /\ [row EXCEPT !.current = FALSE] \notin {Unborn, Deleted}
              /\ [row EXCEPT !.current = FALSE].user = row.user
              /\ ~[row EXCEPT !.current = FALSE].current
              /\ [row EXCEPT !.room = NoSite] \notin {Unborn, Deleted}
              /\ [row EXCEPT !.room = NoSite].user = row.user
              /\ [row EXCEPT !.room = NoSite].current = row.current
<1>1. \A row \in PlacementRow :
        /\ [row EXCEPT !.current = FALSE] \in PlacementRow
        /\ [row EXCEPT !.current = FALSE].user = row.user
        /\ ~[row EXCEPT !.current = FALSE].current
        /\ [row EXCEPT !.room = NoSite] \in PlacementRow
        /\ [row EXCEPT !.room = NoSite].user = row.user
        /\ [row EXCEPT !.room = NoSite].current = row.current
  BY DEF PlacementRow
<1> QED BY <1>1, TypeInvParts, PlacementAssumption DEF OthersOK, PlacementTypeOK, IsSeat

\* A change of the seats of one user, whose equipment is excused.
LEMMA SeatChange ==
  ASSUME SeatsInv, AssetTypeOK, Only({}), UNCHANGED assetVars, NEW v \in User,
         \A s \in Seat : placement[s] # Unborn => placement'[s] # Unborn,
         \A s \in Seat : placement'[s] # placement[s] =>
           /\ IsSeat(s) => placement[s].user = v
           /\ IsSeat(s)' => /\ placement'[s].user = v
                            /\ placement[s] = Deleted => \E w \in User : Claims(w, s, v),
         \A s, t \in SeatsOf(v)' : s = t,
         \A s \in SeatsOf(v)' : placement'[s].room # NoSite,
         NEW as, Excused(as), LiveAssetsOf(v) \subseteq as
  PROVE  SeatsInv'
<1>1. \A x \in User \ {v} : Undisturbed(x)
  BY DEF Undisturbed, IsCurrent
<1>2. HoldersStayPut'
  <2> SUFFICES ASSUME NEW a \in Asset, IsLive(a)', holder'[a] # NoUser, givenIn'[a] # AllSites,
                      holder[a] \in User
               PROVE  /\ IsLive(a) /\ holder'[a] = holder[a] /\ givenIn'[a] = givenIn[a]
                      /\ Undisturbed(holder[a])
    BY HoldersFrame DEF SeatsInv, AssetTypeOK, assetVars
  <2>1. IsLive(a) /\ holder'[a] = holder[a]
    BY DEF assetVars, IsLive, IsAsset
  <2>2. a \notin as /\ givenIn'[a] = givenIn[a]
    BY DEF Excused
  <2>3. holder[a] # v
    BY <2>1, <2>2 DEF LiveAssetsOf
  <2> QED BY <1>1, <2>1, <2>2, <2>3
<1>3. OneSeat'
  <2>1. \A x \in User \ {v} : SeatsOf(x)' = SeatsOf(x)
    BY <1>1, RoomStays
  <2>2. \A x \in User : \A s, t \in SeatsOf(x)' : s = t
    BY <2>1 DEF SeatsInv, OneSeat
  <2>3. ASSUME NEW s \in Seat, IsSeat(s)', placement'[s].current PROVE placement'[s].room # NoSite
    <3>1. CASE placement'[s] = placement[s]
      BY <2>3, <3>1 DEF SeatsInv, OneSeat, IsSeat
    <3>2. CASE placement'[s] # placement[s]
      BY <2>3, <3>2 DEF SeatsOf, IsCurrent
    <3> QED BY <3>1, <3>2
  <2> QED BY <2>2, <2>3 DEF OneSeat
<1>4. /\ TransfersEmpty'
      /\ \A u \in User, s \in Seat, x \in User : Claims(u, s, x)' => Claims(u, s, x)
  BY OnlyClaims DEF SeatsInv
<1>5. ASSUME NEW s \in Seat, placement[s] # Unborn
      PROVE  /\ placement'[s] # Unborn
             /\ \/ IsSeat(s)' => IsSeat(s) /\ placement'[s].user = placement[s].user
                \/ \E w \in User, x \in User : Claims(w, s, x) /\ placement'[s].user = x
  BY <1>5 DEF IsSeat
<1>6. ClaimsStand'
  BY <1>4, <1>5, ClaimsFrame DEF SeatsInv
<1> QED BY <1>2, <1>3, <1>4, <1>6 DEF SeatsInv

LEMMA SaveSeatSeats ==
  ASSUME TypeInv, SeatsInv, NEW u \in User, SaveSeat(u)
  PROVE  SeatsInv'
<1>1. request[u].user \in User /\ request[u].room \in Room /\ RequestsOK /\ AssetTypeOK
  BY TypeInvParts, AssetFields DEF RequestsOK, SaveSeat, OthersOK
<1> PICK v \in User : v = request[u].user
  BY <1>1
<1>2. Only({}) /\ UNCHANGED assetVars /\ Excused(HeldBy(v)) /\ LiveAssetsOf(v) \subseteq HeldBy(v)
  BY <1>1, DoneOnly DEF SaveSeat, LiveAssetsOf, HeldBy
<1>3. PICK n \in Seat :
        /\ placement[n] = Unborn
        /\ placement' = [t \in Seat |-> IF t = n THEN NewRow(v, request[u].room)
                                        ELSE IF t \in SeatsOf(v)
                                        THEN [placement[t] EXCEPT !.current = FALSE]
                                        ELSE placement[t]]
  BY DEF SaveSeat
<1>4. /\ NewRow(v, request[u].room) \notin {Unborn, Deleted} /\ NewRow(v, request[u].room).user = v
      /\ NewRow(v, request[u].room).room # NoSite
  BY <1>1, NewSeat
<1>5. \A s \in SeatsOf(v) : /\ s # n /\ IsSeat(s) /\ placement[s].user = v
                            /\ placement'[s] \notin {Unborn, Deleted} /\ placement'[s].user = v
                            /\ ~placement'[s].current
  BY <1>3, SeatRows DEF SeatsOf, IsCurrent, IsSeat
<1>6. \A s \in Seat : s # n /\ s \notin SeatsOf(v) => placement'[s] = placement[s]
  BY <1>3
<1>7. placement'[n] = NewRow(v, request[u].room)
  BY <1>3
<1>8. SeatsOf(v)' \subseteq {n}
  BY <1>5, <1>6 DEF SeatsOf, IsCurrent, IsSeat
<1>9. \A s \in Seat : placement[s] # Unborn => placement'[s] # Unborn
  BY <1>3, <1>5, <1>6
<1>10. \A s \in Seat : placement'[s] # placement[s] =>
         /\ IsSeat(s) => placement[s].user = v
         /\ placement'[s].user = v /\ placement[s] # Deleted
  BY <1>3, <1>4, <1>5, <1>6, <1>7, SiteAssumption DEF IsSeat
<1> QED BY <1>1, <1>2, <1>4, <1>7, <1>8, <1>9, <1>10, SeatChange

LEMMA SaveTransferSeats ==
  ASSUME TypeInv, SeatsInv, NEW u \in User, SaveTransfer(u)
  PROVE  SeatsInv'
<1>1. /\ request[u].user \in User /\ request[u].room \in Room /\ request[u].left \in Seat
      /\ RequestsOK /\ AssetTypeOK
  BY TypeInvParts, AssetFields DEF RequestsOK, SaveTransfer, OthersOK
<1> PICK v \in User, old \in Seat : v = request[u].user /\ old = request[u].left
  BY <1>1
<1>2. /\ Asked(u, {"transfer"}) /\ Done(u) /\ UNCHANGED assetVars
      /\ IsSeat(old) /\ SeatsOf(v) \subseteq {old}
      /\ Excused(LiveAssetsOf(v) \ request[u].held)
  BY DEF SaveTransfer, Asked
<1>3. request[u].held = {} /\ placement[old].user = v
  BY <1>1, <1>2 DEF SeatsInv, TransfersEmpty, ClaimsStand, Claims
<1>4. PICK n \in Seat :
        /\ placement[n] = Unborn
        /\ placement' = [placement EXCEPT ![n] = NewRow(v, request[u].room), ![old].current = FALSE]
  BY DEF SaveTransfer
<1>5. /\ NewRow(v, request[u].room) \notin {Unborn, Deleted} /\ NewRow(v, request[u].room).user = v
      /\ NewRow(v, request[u].room).room # NoSite
  BY <1>1, NewSeat
<1>6. n # old
  BY <1>2, <1>4 DEF IsSeat
<1>7. /\ placement'[n] = NewRow(v, request[u].room)
      /\ placement'[old] = [placement[old] EXCEPT !.current = FALSE]
      /\ \A s \in Seat \ {n, old} : placement'[s] = placement[s]
  BY <1>1, <1>4, <1>6, SeatRows
<1>8. /\ placement'[old] \notin {Unborn, Deleted} /\ placement'[old].user = v
      /\ ~placement'[old].current
  BY <1>1, <1>2, <1>3, <1>7, SeatRows
<1>9. SeatsOf(v)' \subseteq {n}
  BY <1>2, <1>7, <1>8 DEF SeatsOf, IsCurrent, IsSeat
<1>10. \A s \in Seat : placement[s] # Unborn => placement'[s] # Unborn
  BY <1>5, <1>7, <1>8
<1>11. \A s \in Seat : placement'[s] # placement[s] =>
         /\ IsSeat(s) => placement[s].user = v
         /\ placement'[s].user = v /\ placement[s] # Deleted
  BY <1>2, <1>3, <1>4, <1>5, <1>7, <1>8, SiteAssumption DEF IsSeat
<1>12. Only({}) /\ LiveAssetsOf(v) \subseteq LiveAssetsOf(v) \ request[u].held
  BY <1>1, <1>2, <1>3, DoneOnly
<1> QED BY <1>1, <1>2, <1>5, <1>7, <1>9, <1>10, <1>11, <1>12, SeatChange

LEMMA SaveReseatSeats ==
  ASSUME TypeInv, SeatsInv, NEW u \in User, SaveReseat(u)
  PROVE  SeatsInv'
<1>1. request[u].seat \in Seat /\ request[u].row \in PlacementRow /\ RequestsOK /\ AssetTypeOK
  BY TypeInvParts, AssetFields DEF RequestsOK, SaveReseat, OthersOK
<1> PICK s \in Seat, row \in PlacementRow : s = request[u].seat /\ row = request[u].row
  BY <1>1
<1>2. row.user \in User /\ row \notin {Unborn, Deleted}
  BY <1>1, PlacementAssumption DEF PlacementRow
<1>3. /\ Asked(u, {"reseat"}) /\ Done(u) /\ UNCHANGED assetVars /\ Valid(s, row)
      /\ placement' = [placement EXCEPT ![s] = row] /\ Excused(HeldBy(row.user))
  BY DEF SaveReseat, Asked
<1>4. Claims(u, s, row.user) /\ placement[s] # Unborn /\ (IsSeat(s) => placement[s].user = row.user)
  BY <1>1, <1>2, <1>3 DEF SeatsInv, ClaimsStand, Claims
<1>5. placement'[s] = row /\ \A t \in Seat \ {s} : placement'[t] = placement[t]
  BY <1>1, <1>3, SeatRows
<1>6. row.current => row.room # NoSite
  BY <1>3 DEF Valid
<1>7. \A t \in Seat \ {s} : IsSeat(t) /\ placement[t].user = row.user => ~(row.current /\ placement[t].current)
  BY <1>3 DEF Valid
<1>8. \A a, b \in SeatsOf(row.user)' : a = b
  <2>1. \A t \in Seat \ {s} : t \in SeatsOf(row.user)' => t \in SeatsOf(row.user) /\ ~row.current
    BY <1>5, <1>7 DEF SeatsOf, IsCurrent, IsSeat
  <2>2. s \in SeatsOf(row.user)' => row.current
    BY <1>5 DEF SeatsOf, IsCurrent
  <2>3. SeatsOf(row.user)' \subseteq Seat
    BY DEF SeatsOf
  <2> QED BY <1>2, <2>1, <2>2, <2>3 DEF SeatsInv, OneSeat
<1>9. \A t \in SeatsOf(row.user)' : placement'[t].room # NoSite
  BY <1>5, <1>6 DEF SeatsInv, OneSeat, SeatsOf, IsCurrent, IsSeat
<1>10. Only({}) /\ LiveAssetsOf(row.user) \subseteq HeldBy(row.user)
  BY <1>1, <1>3, DoneOnly DEF LiveAssetsOf, HeldBy
<1>11. \A t \in Seat : placement[t] # Unborn => placement'[t] # Unborn
  BY <1>2, <1>5
<1>12. \A t \in Seat : placement'[t] # placement[t] =>
         /\ IsSeat(t) => placement[t].user = row.user
         /\ placement'[t].user = row.user /\ \E w \in User : Claims(w, t, row.user)
  BY <1>4, <1>5
<1> QED BY <1>1, <1>2, <1>3, <1>8, <1>9, <1>10, <1>11, <1>12, SeatChange

LEMMA UnseatSeats ==
  ASSUME TypeInv, SeatsInv, NEW u \in User, NEW s \in Seat, Unseat(u, s)
  PROVE  SeatsInv'
<1>1. AssetTypeOK /\ placement[s] \in PlacementRow
  BY TypeInvParts, SeatRows DEF OthersOK, Unseat
<1> PICK v \in User : v = placement[s].user
  BY <1>1 DEF PlacementRow
<1>2. /\ placement'[s] = Deleted /\ \A t \in Seat \ {s} : placement'[t] = placement[t]
      /\ UNCHANGED <<request, assetVars>> /\ Excused(HeldBy(v))
  BY SeatRows DEF Unseat
<1>3. Only({}) /\ LiveAssetsOf(v) \subseteq HeldBy(v)
  BY <1>2 DEF Only, LiveAssetsOf, HeldBy
<1>4. SeatsOf(v)' \subseteq SeatsOf(v) \ {s} /\ \A t \in SeatsOf(v)' : placement'[t].room # NoSite
  BY <1>2 DEF SeatsInv, OneSeat, SeatsOf, IsCurrent, IsSeat
<1>5. \A t \in Seat : placement[t] # Unborn => placement'[t] # Unborn
  BY <1>2, SiteAssumption
<1>6. \A t \in Seat : placement'[t] # placement[t] => placement[t].user = v /\ ~IsSeat(t)'
  BY <1>2 DEF IsSeat
<1>7. \A t1, t2 \in SeatsOf(v)' : t1 = t2
  BY <1>4 DEF SeatsInv, OneSeat
<1> QED BY <1>1, <1>2, <1>3, <1>4, <1>5, <1>6, <1>7, SeatChange

LEMMA RemoveSiteSeats ==
  ASSUME TypeInv, SeatsInv, NEW u \in User, RemoveSite(u)
  PROVE  SeatsInv'
<1>1. Only({}) /\ AssetTypeOK
  BY RemoveSiteOnly, TypeInvParts DEF OthersOK
<1>2. /\ AssetsLose(request[u].site) /\ SeatsLose(request[u].site)
  BY DEF RemoveSite
<1>3. \A s \in Seat :
        \/ placement'[s] = placement[s]
        \/ /\ IsSeat(s) /\ ~placement[s].current
           /\ IsSeat(s)' /\ ~placement'[s].current /\ placement'[s].user = placement[s].user
  BY <1>2, SeatRows DEF SeatsLose, IsSeat
<1>4. OneSeat' /\ \A v : Undisturbed(v)
  <2>1. Quiet
    BY <1>3 DEF Quiet
  <2> QED BY <2>1, QuietSeats DEF SeatsInv
<1>5. \A a \in Asset : IsLive(a)' => IsLive(a)
  BY <1>1, <1>2, AssetAssumption DEF AssetsLose, IsLive, IsAsset, AssetTypeOK, AssetRow
<1>6. HoldersStayPut'
  BY <1>2, <1>4, <1>5, HoldersFrame DEF SeatsInv, AssetsLose, SeatsLose
<1>7. /\ TransfersEmpty'
      /\ \A w \in User, s \in Seat, v \in User : Claims(w, s, v)' => Claims(w, s, v)
  BY <1>1, OnlyClaims DEF SeatsInv
<1>8. ClaimsStand'
  BY <1>3, <1>7, ClaimsFrame DEF SeatsInv, IsSeat
<1> QED BY <1>4, <1>6, <1>7, <1>8 DEF SeatsInv

\* An asset that is live and was not before is held by one whose seat is no
\* longer looked at.
LEMMA AssetSeats ==
  ASSUME TypeInv, SeatsInv, NEW u \in User, ChangeAsset(u)
  PROVE  SeatsInv'
<1>1. Only({"asset"}) /\ UNCHANGED placement /\ RecordsChange /\ AssetTypeOK
  BY AssetOnly, TypeInvParts DEF ChangeAsset, OthersOK
<1>2. \A a \in Asset : holder'[a] # holder[a] => asset'[a] = Deleted \/ holder'[a] = NoUser
  BY <1>1, AssetStepKinds DEF ChangeAsset, SaveAsset, SoftDelete, Restore, SetDeleted, Vanish, assetVars, AssetTypeOK
<1>3. ASSUME NEW a \in Asset, IsLive(a)', holder'[a] # NoUser, givenIn'[a] # AllSites
      PROVE  IsLive(a) /\ holder'[a] = holder[a] /\ givenIn'[a] = givenIn[a]
  BY <1>1, <1>2, <1>3 DEF RecordsChange, Excused, IsLive, IsAsset
<1> QED BY <1>1, <1>3, SeatsFrame

LEMMA AssignSeats ==
  ASSUME TypeInv, SeatsInv, NEW u \in User, SaveAssign(u)
  PROVE  SeatsInv'
<1>1. /\ RequestsOK /\ AssetTypeOK /\ PlacementTypeOK
      /\ request[u].asset \in Asset /\ request[u].to \in User
  BY TypeInvParts, AssetFields DEF RequestsOK, SaveAssign, OthersOK
<1> PICK b \in Asset, v \in User : b = request[u].asset /\ v = request[u].to
  BY <1>1
<1>2. /\ holder' = [holder EXCEPT ![b] = v] /\ givenIn' = [givenIn EXCEPT ![b] = RoomOf(v)]
      /\ UNCHANGED <<asset, placement>> /\ Done(u)
  BY DEF SaveAssign
<1>3. \A x : RoomOf(x)' = RoomOf(x)
  BY <1>2, RoomStays DEF Undisturbed
<1>4. HoldersStayPut'
  <2> SUFFICES ASSUME NEW a \in Asset, IsLive(a)', holder'[a] # NoUser, givenIn'[a] # AllSites
               PROVE  RoomOf(holder[a])' = givenIn'[a]
    BY DEF HoldersStayPut
  <2>1. CASE a = b
    <3>1. holder'[a] = v /\ givenIn'[a] = RoomOf(v)
      BY <1>1, <1>2, <2>1 DEF AssetTypeOK, PlacementTypeOK
    <3> QED BY <1>3, <3>1
  <2>2. CASE a # b
    <3>1. holder'[a] = holder[a] /\ givenIn'[a] = givenIn[a] /\ IsLive(a)
      BY <1>1, <1>2, <2>2 DEF AssetTypeOK, PlacementTypeOK, IsLive, IsAsset
    <3>2. RoomOf(holder[a]) = givenIn[a]
      BY <3>1 DEF SeatsInv, HoldersStayPut
    <3> QED BY <1>3, <3>1, <3>2
  <2> QED BY <2>1, <2>2
<1>5. Only({})
  BY <1>1, <1>2, DoneOnly
<1> QED BY <1>2, <1>4, <1>5, SeatsKept

LEMMA PlacementSeats ==
  ASSUME TypeInv, SeatsInv, NEW u \in User, PlacementStep(u)
  PROVE  SeatsInv'
<1>1. ASSUME NEW a \in Asset, NEW v \in User, NEW batch \in BOOLEAN,
             AskAssign(u, a, holder[a], v, batch)
      PROVE  SeatsInv'
  <2>1. PICK r : r.op = "assign" /\ Ask(u, r)
    BY <1>1 DEF AskAssign
  <2>2. Only({"assign"}) /\ UNCHANGED <<assetVars, placementVars>>
    BY <1>1, <2>1, AskOnly, TypeInvParts DEF AskAssign
  <2> QED BY <2>2, SeatsFrame DEF assetVars, placementVars, IsLive, IsAsset
<1>2. ASSUME NEW a \in Asset, NEW batch \in BOOLEAN, Unassign(u, a, batch) PROVE SeatsInv'
  <2>1. AssetTypeOK /\ Only({})
    BY <1>2, TypeInvParts DEF OthersOK, Unassign, Only
  <2> QED BY <1>2, <2>1, SeatsFrame DEF Unassign, placementVars, AssetTypeOK, IsLive, IsAsset
<1>3. ASSUME NEW v \in User, NEW r \in Room, AskSeat(u, v, r) PROVE SeatsInv'
  <2>1. PICK q : q.op = "seat" /\ Ask(u, q)
    BY <1>3 DEF AskSeat
  <2>2. Only({"seat"}) /\ UNCHANGED <<assetVars, placementVars>>
    BY <1>3, <2>1, AskOnly, TypeInvParts DEF AskSeat
  <2> QED BY <2>2, SeatsFrame DEF assetVars, placementVars, IsLive, IsAsset
<1>4. ASSUME NEW v \in User, NEW r \in Room, AskTransfer(u, v, r) PROVE SeatsInv'
  <2>1. PICK s \in SeatsOf(v) : s = CHOOSE x \in SeatsOf(v) : TRUE
    BY <1>4 DEF AskTransfer
  <2>2. PICK q : q = [op |-> "transfer", user |-> v, left |-> s, room |-> r, held |-> {}]
    OBVIOUS
  <2>3. q \in PlacementRequest /\ q.op = "transfer" /\ q.left = s /\ q.user = v /\ q.held = {}
    BY <2>2 DEF PlacementRequest, SeatsOf
  <2>4. Ask(u, q) /\ UNCHANGED <<assetVars, placementVars>>
    BY <1>4, <2>1, <2>2 DEF AskTransfer
  <2> QED BY <2>3, <2>4, AskSeats
<1>5. ASSUME NEW s \in Seat, NEW r \in Room, AskReseat(u, s, r) PROVE SeatsInv'
  <2>1. placement[s] \in PlacementRow /\ r # NoSite
    BY <1>5, SeatRows, SiteAssumption DEF AskReseat, Site, Marker
  <2>2. \E row \in PlacementRow :
          row = [placement[s] EXCEPT !.room = r] /\ row.room = r /\ row.user = placement[s].user
    <3>1. /\ [placement[s] EXCEPT !.room = r] \in PlacementRow
          /\ [placement[s] EXCEPT !.room = r].room = r
          /\ [placement[s] EXCEPT !.room = r].user = placement[s].user
      BY <2>1 DEF PlacementRow
    <3> QED BY <3>1
  <2>3. PICK row \in PlacementRow :
          row = [placement[s] EXCEPT !.room = r] /\ row.room = r /\ row.user = placement[s].user
    BY <2>2
  <2>4. PICK q : q = [op |-> "reseat", seat |-> s, row |-> row]
    OBVIOUS
  <2>5. q \in PlacementRequest /\ q.op = "reseat" /\ q.seat = s /\ q.row = row
    BY <2>4 DEF PlacementRequest
  <2>6. Ask(u, q) /\ UNCHANGED <<assetVars, placementVars>> /\ IsSeat(s)
    BY <1>5, <2>3, <2>4 DEF AskReseat
  <2> QED BY <2>1, <2>3, <2>5, <2>6, AskSeats
<1> QED BY <1>1, <1>2, <1>3, <1>4, <1>5, AssignSeats, SaveSeatSeats, SaveTransferSeats, SaveReseatSeats,
           UnseatSeats DEF PlacementStep

LEMMA SeatsInit == Init => SeatsInv
<1> SUFFICES ASSUME Init PROVE SeatsInv
  OBVIOUS
<1>1. TypeInv /\ (\E seats : PlacementInit(seats)) /\ \A u \in User : request[u] = Idle
  BY InitTypes DEF Init, RoleInit
<1>2. OneSeat
  BY <1>1, SiteAssumption DEF OneSeat, PlacementInit, RoomStands, Site, Marker
<1>3. ClaimsStand /\ TransfersEmpty
  BY <1>1 DEF ClaimsStand, Claims, TransfersEmpty, Asked
<1>4. HoldersStayPut
  BY <1>1 DEF HoldersStayPut, PlacementInit
<1> QED BY <1>2, <1>3, <1>4 DEF SeatsInv

LEMMA SeatsInvariant == Spec => []SeatsInv
<1>1. TypeInv /\ SeatsInv /\ [Next]_vars => SeatsInv'
  <2> SUFFICES ASSUME TypeInv, SeatsInv, [Next]_vars PROVE SeatsInv'
    OBVIOUS
  <2>1. ASSUME NEW kinds, Only(kinds), kinds \cap {"transfer", "reseat"} = {},
               UNCHANGED <<assetVars, placementVars>>
        PROVE  SeatsInv'
    BY <2>1, SeatsFrame DEF assetVars, placementVars, IsLive, IsAsset
  <2>2. ASSUME NEW u \in User, RoleStep(u), UNCHANGED <<assetVars, placementVars>> PROVE SeatsInv'
    BY <2>1, <2>2, RoleOnly DEF RoleKinds
  <2>3. ASSUME NEW u \in User, AgreementStep(u), UNCHANGED placementVars PROVE SeatsInv'
    <3>1. UNCHANGED assetVars
      BY <2>3 DEF AgreementStep, AskCover, AskAttach, SaveCover, SaveAttach
    <3> QED BY <2>1, <2>3, <3>1, AgreementOnly
  <2>4. ASSUME NEW u \in User, MatrixStep(u), UNCHANGED <<assetVars, placementVars>> PROVE SeatsInv'
    BY <2>1, <2>4, MatrixOnly DEF MatrixKinds
  <2>5. CASE UNCHANGED vars
    <3>1. Only({}) /\ UNCHANGED <<assetVars, placementVars>>
      BY <2>5 DEF vars, roleVars, Only
    <3> QED BY <2>1, <3>1
  <2> QED BY <2>2, <2>3, <2>4, <2>5, RemoveSiteSeats, AssetSeats, PlacementSeats DEF Next
<1> QED BY <1>1, SeatsInit, TypeInvariant, PTL DEF Spec

\* Nobody is transferred with its equipment: who holds a live asset sits where
\* it sat when it got it, whatever assignments, transfers, corrections of seats,
\* deletions and role changes overlap; but for the endpoints that do not look.
THEOREM HoldersStayPutAlways == Spec => []HoldersStayPut
BY SeatsInvariant, PTL DEF SeatsInv
-----------------------------------------------------------------------------
(* The rule of a role's reach, wherever it is written.                     *)

LEMMA ActorKinds ==
  ASSUME TypeInv, NEW u \in User
  PROVE  \/ Actor(u) \in Assignment
         \/ Actor(u) = Nobody /\ Actor(u).role = "none" /\ Actor(u).scope = NoSite /\ active[u] = NoRow
BY TypeInvParts DEF RowsOK, ActiveHeld, Held, Actor, Nobody

\* A role of a site is shown exactly when it is managed.
LEMMA ShownIsManaged ==
  ASSUME NEW r, NEW role \in AnyRole, role # "SITE_ADMIN"
  PROVE  role \in ShownRole(r) <=> role \in Manages(r)
BY DEF ShownRole, Manages, AnyRole, SiteRole, DepartmentRole, LocationRole, RoomRole

LEMMA SiteRows ==
  ASSUME NEW row \in Assignment
  PROVE  /\ row.scope \in Site <=> row.role # "SITE_ADMIN"
         /\ row.scope \in Site \/ row.scope = AllSites
BY RowFields, RoleLevels, SiteAssumption DEF Site

LEMMA VisibleStep == TypeInv => VisibleIffManageable
<1> SUFFICES ASSUME TypeInv, NEW u \in User, NEW i \in Row, Held(i), NEW row, row = assignment[i]
             PROVE  /\ row.user # u => (Visible(u, row) <=> CanManage(Actor(u), row))
                    /\ CanManage(Actor(u), row) => CanAccessRow(Actor(u), row)
                    /\ row.scope \in Site =>
                         (ListedAt(row.scope, Actor(u), row) <=> CanManage(Actor(u), row))
                    /\ \A a \in Site : ListedAt(a, Actor(u), row) => CanManage(Actor(u), row)
  BY DEF VisibleIffManageable
<1>1. row \in Assignment /\ SiteTypeOK
  BY TypeInvParts DEF RowsOK, Held
<1>2. row.role \in AnyRole /\ (row.scope \in Site <=> row.role # "SITE_ADMIN")
  BY <1>1, RowFields, SiteRows
<1>3. CASE Actor(u) = Nobody /\ Actor(u).role = "none" /\ Actor(u).scope = NoSite
  <2>1. ~CanManage(Actor(u), row)
    BY <1>3, NobodyManages DEF CanManage
  <2>2. row.role \notin Manages("none") /\ row.role \notin ShownRole("none")
    BY DEF Manages, ShownRole
  <2> QED BY <1>3, <2>1, <2>2 DEF Visible, ListedAt
<1>4. ASSUME NEW actor \in Assignment, actor = Actor(u)
      PROVE  /\ row.user # u => (Visible(u, row) <=> CanManage(actor, row))
             /\ CanManage(actor, row) => CanAccessRow(actor, row)
             /\ row.scope \in Site => (ListedAt(row.scope, actor, row) <=> CanManage(actor, row))
             /\ \A a \in Site : ListedAt(a, actor, row) => CanManage(actor, row)
  <2>1. CanManage(actor, row) <=>
          /\ row.role \in Manages(actor.role)
          /\ actor.role = "SITE_ADMIN" \/ Within(row.scope, actor.scope)
    BY <1>1, ManageMeans
  <2>2. actor.role = "SITE_ADMIN" => row.role \in Manages(actor.role) /\ row.role \in ShownRole(actor.role)
    BY <1>2 DEF Manages, ShownRole
  <2>3. row.user # u => (Visible(u, row) <=> CanManage(actor, row))
    BY <1>4, <2>1, <2>2 DEF Visible
  <2>4. row.role = "SITE_ADMIN" /\ row.role \in Manages(actor.role) => actor.role = "SITE_ADMIN"
    BY DEF Manages, LocationRole, RoomRole
  <2>5. CanManage(actor, row) => CanAccessRow(actor, row)
    BY <1>1, <1>2, <2>1, <2>4, RoomAccess, LocationAccess, DepartmentAccess, SiteAssumption
       DEF CanAccessRow, Site
  <2>6. ASSUME NEW a \in Site, ListedAt(a, actor, row) PROVE CanManage(actor, row)
    <3>1. /\ row.scope \in Site /\ row.role \in ShownRole(actor.role)
          /\ actor.role = "SITE_ADMIN" \/ Within(row.scope, actor.scope)
      BY <2>6 DEF ListedAt, Within
    <3> QED BY <1>2, <2>1, <3>1, ShownIsManaged
  <2>7. ASSUME row.scope \in Site, CanManage(actor, row) PROVE ListedAt(row.scope, actor, row)
    <3>1. row.role \in ShownRole(actor.role) /\ Within(row.scope, row.scope)
      BY <1>2, <2>1, <2>7, ShownIsManaged DEF Within
    <3>2. CanAccessRow(actor, row)
      BY <2>5, <2>7
    <3> QED BY <2>1, <2>7, <3>1, <3>2, SiteAssumption
            DEF ListedAt, CanAccessRow, MayOpenRoom, MayOpenLocation, MayOpenDepartment,
                CanAccessLocation, CanAccessDepartment, Site
  <2> QED BY <2>3, <2>5, <2>6, <2>7
<1> QED BY <1>3, <1>4, ActorKinds

\* The lists of assignments, the role list of a site and the permission of one
\* assignment show and admit exactly what their reader may manage, on every tree
\* and for every user.
THEOREM VisibleIffManageableAlways == Spec => []VisibleIffManageable
BY TypeInvariant, VisibleStep, PTL

\* What a room lies in.
LEMMA RoomAncestors ==
  ASSUME SiteTypeOK, NEW r \in Room, NEW t \in Site
  PROVE  Within(r, t) <=> \/ t = r
                          \/ t \in Location /\ t = LocationOf(r)
                          \/ t \in Department /\ t = DepartmentOf(LocationOf(r))
<1>1. CASE parent[r] \in Location
  <2>1. LocationOf(r) = parent[r] /\ DepartmentOf(LocationOf(r)) = parent[parent[r]]
        /\ parent[parent[r]] \in Department \cup Marker
    BY <1>1, ParentLevels DEF LocationOf, DepartmentOf
  <2> QED BY <1>1, <2>1, ParentLevels, SiteAssumption DEF Within, Site
<1>2. CASE parent[r] \in Marker
  <2>1. LocationOf(r) = parent[r] /\ DepartmentOf(LocationOf(r)) = NoSite /\ NoSite \in Marker
    BY <1>2, ParentLevels DEF LocationOf, DepartmentOf, Site, Marker
  <2> QED BY <1>2, <2>1, ParentLevels DEF Within, Site
<1> QED BY <1>1, <1>2, ParentLevels

LEMMA WithinTransitive ==
  ASSUME SiteTypeOK, NEW r \in Site, NEW s \in Site, NEW t \in Site, Within(r, s), Within(s, t)
  PROVE  Within(r, t)
<1>1. \A x \in Site : /\ parent[x] \in Site => x \notin Department
                      /\ parent[x] \in Site /\ parent[parent[x]] \in Site =>
                           parent[parent[parent[x]]] \notin Site
  BY ParentLevels, SiteAssumption DEF Site
<1> QED BY <1>1 DEF Within

LEMMA AboveMeans ==
  ASSUME NEW r \in Site
  PROVE  \A t : t \in Above(r) <=> t \in Site /\ Within(r, t)
BY DEF Above, Within

LEMMA CoversMeans ==
  ASSUME SiteTypeOK, AgreementTypeOK, NEW r \in Room
  PROVE  CoversRoom(r) <=> AllSites \in coverage \/ \E s \in coverage : s \in Site /\ Within(r, s)
BY RoomAncestors, SiteAssumption DEF CoversRoom, AgreementTypeOK, Site

LEMMA CoverageStep == TypeInv => CoverageAgrees
<1> SUFFICES ASSUME TypeInv PROVE CoverageAgrees
  OBVIOUS
<1>1. SiteTypeOK /\ AgreementTypeOK /\ AssetTypeOK
  BY TypeInvParts DEF RowsOK, OthersOK
<1>2. \A a \in Asset : IsAsset(a) => asset[a].room \in Room \cup {NoSite}
  BY <1>1 DEF AssetTypeOK, IsAsset, AssetRow
<1>3. Room \subseteq Site
  BY DEF Site
<1>4. ASSUME NEW a \in Asset, IsAsset(a)
      PROVE  CanAttachAsset(a) <=> (asset[a].room # NoSite /\ IsAssetEligible(Above(asset[a].room)))
  BY <1>1, <1>2, <1>3, <1>4, CoversMeans, AboveMeans, SiteAssumption
     DEF CanAttachAsset, IsAssetEligible, Above, AgreementTypeOK
<1>5. ASSUME NEW a \in Asset, IsAsset(a), NEW actor
      PROVE  Applicable(actor, a) <=> (AgreementListed(actor) /\ CanAttachAsset(a) /\ a \notin item)
  BY <1>1, <1>2, <1>5, CoversMeans DEF CanAttachAsset, Applicable
<1>6. ASSUME NEW s \in Site, s \in Room => parent[s] \in Site, ~MayCover(s), NEW r \in Room, Within(r, s)
      PROVE  CoversRoom(r)
  <2>1. CASE AllSites \in coverage
    BY <1>1, <2>1, CoversMeans
  <2>2. CASE AllSites \notin coverage
    <3>1. coverage \subseteq Site
      BY <1>1, <2>2 DEF AgreementTypeOK
    <3>2. PICK c \in coverage : Within(s, c)
      BY <1>6, <2>2, SiteAssumption DEF MayCover, Within
    <3> QED BY <1>1, <1>3, <1>6, <3>1, <3>2, WithinTransitive, CoversMeans
  <2> QED BY <2>1, <2>2
<1>7. ASSUME NEW actor, actor.scope \in Room, parent[actor.scope] \in Site, CoversRoom(actor.scope)
      PROVE  ItemsListed(actor)
  <2>1. CASE AllSites \in coverage
    BY <1>7, <2>1, SiteAssumption DEF ItemsListed, CoverageListed, Site, Marker
  <2>2. ASSUME NEW s \in coverage, s \in Site, Within(actor.scope, s) PROVE ItemsListed(actor)
    BY <1>3, <1>7, <2>2, AboveMeans DEF ItemsListed, CoverageListed
  <2> QED BY <1>1, <1>7, <2>1, <2>2, CoversMeans
<1> QED BY <1>4, <1>5, <1>6, <1>7 DEF CoverageAgrees

\* The places that decide whether an agreement covers a room agree, on every
\* tree that moves and deletions leave, for every coverage, asset and user.
THEOREM CoverageAgreesAlways == Spec => []CoverageAgrees
BY TypeInvariant, CoverageStep, PTL
-----------------------------------------------------------------------------
(* The formulations of a role's reach.                                     *)

IsActor(actor) == actor \in Assignment \/ actor = Nobody

LEMMA ActorFacts ==
  ASSUME NEW actor, IsActor(actor)
  PROVE  /\ actor.role = "SITE_ADMIN" <=> actor.scope = AllSites
         /\ actor.role \in DepartmentRole <=> actor.scope \in Department
         /\ actor.role \in LocationRole <=> actor.scope \in Location
         /\ actor.role \in RoomRole <=> actor.scope \in Room
         /\ actor.role = "none" <=> actor.scope = NoSite
         /\ actor.role # "none" <=> actor \in Assignment
         /\ actor.scope \in Site \cup {AllSites, NoSite}
<1>1. AllSites \notin Site /\ NoSite \notin Site /\ AllSites # NoSite /\ "none" \notin AnyRole
  BY SiteAssumption DEF Marker, AnyRole, SiteRole, DepartmentRole, LocationRole, RoomRole
<1>2. /\ DepartmentRole \cap LocationRole = {} /\ DepartmentRole \cap RoomRole = {}
      /\ LocationRole \cap RoomRole = {} /\ "SITE_ADMIN" \notin DepartmentRole \cup LocationRole \cup RoomRole
  BY DEF DepartmentRole, LocationRole, RoomRole
<1>3. CASE actor \in Assignment
  <2>1. actor.role \in AnyRole /\ actor.scope \in Assignable(actor.role)
    BY <1>3, RowFields
  <2>2. CASE actor.role = "SITE_ADMIN"
    BY <1>1, <1>2, <1>3, <2>1, <2>2, RoleLevels DEF Site
  <2>3. CASE actor.role # "SITE_ADMIN"
    BY <1>1, <1>2, <1>3, <2>1, <2>3, RoleLevels, SiteAssumption DEF Site
  <2> QED BY <2>2, <2>3
<1>4. CASE actor = Nobody
  <2>1. actor.role = "none" /\ actor.scope = NoSite
    BY <1>4 DEF Nobody
  <2>2. "none" \notin DepartmentRole \cup LocationRole \cup RoomRole /\ actor \notin Assignment
    BY <1>1, <2>1, RowFields DEF AnyRole
  <2> QED BY <1>1, <2>1, <2>2 DEF Site
<1> QED BY <1>3, <1>4 DEF IsActor

LEMMA ActorIs == ASSUME TypeInv, NEW u \in User PROVE IsActor(Actor(u))
BY ActorKinds DEF IsActor

\* The rule: a site admin reaches every room, others the rooms below their site.
Reaches(actor, r) == actor.role = "SITE_ADMIN" \/ (actor.scope \in Site /\ Within(r, actor.scope))

LEMMA ReachMeans ==
  ASSUME SiteTypeOK, NEW actor, IsActor(actor), NEW r \in Room
  PROVE  /\ CanAccessRoom(actor, r) <=> Reaches(actor, r)
         /\ Reaches(actor, r) => IsInScope(actor, r)
         /\ RoomListed(actor, r) <=> Reaches(actor, r)
         /\ AuditListed(actor, r) <=> Reaches(actor, r)
<1>1. CanAccessRoom(actor, r) <=> Reaches(actor, r)
  <2>1. actor \in Assignment => (CanAccessRoom(actor, r) <=> Reaches(actor, r))
    BY RoomAccess, SiteRows DEF Reaches
  <2>2. actor = Nobody => ~CanAccessRoom(actor, r) /\ ~Reaches(actor, r)
    BY SiteAssumption DEF CanAccessRoom, Reaches, Nobody, DepartmentRole, LocationRole, RoomRole, Marker
  <2> QED BY <2>1, <2>2 DEF IsActor
<1>2. Reaches(actor, r) => IsInScope(actor, r)
  <2>1. actor.scope \in Site /\ Within(r, actor.scope) => actor.scope \in Above(actor.scope) \cap Above(r)
    BY DEF Above
  <2> QED BY <2>1 DEF Reaches, IsInScope
<1>3. RoomListed(actor, r) <=> Reaches(actor, r)
  BY ParentLevels, SiteAssumption DEF RoomListed, Reaches, Within, Site
<1>4. AuditListed(actor, r) <=> Reaches(actor, r)
  BY DEF AuditListed, RoomHierarchy, Reaches
<1> QED BY <1>1, <1>2, <1>3, <1>4

LEMMA ReachOfAssets ==
  ASSUME SiteTypeOK, NEW actor, IsActor(actor), NEW a \in Asset, asset[a].room \in Room
  PROVE  LET reach == Reaches(actor, asset[a].room) IN
         /\ CanAccessAsset(actor, a) <=> reach
         /\ ComponentListed(actor, a) <=> reach
         /\ AssignmentListed(actor, a) <=> reach
         /\ HasCustodyScope(actor, a) <=> reach
         /\ CanAccessAssignment(actor, a) <=> reach
<1> PICK r \in Room : r = asset[a].room
  OBVIOUS
<1>1. r # NoSite /\ r \in Site
  BY SiteAssumption DEF Site, Marker
<1>2. CanAccessAsset(actor, a) <=> Reaches(actor, r)
  BY <1>1, ReachMeans DEF CanAccessAsset
<1>3. Reaches(actor, r) <=> \/ actor.role = "SITE_ADMIN"
                            \/ actor.scope \in Room /\ r = actor.scope
                            \/ actor.scope \in Location /\ LocationOf(r) = actor.scope
                            \/ actor.scope \in Department /\ DepartmentOf(LocationOf(r)) = actor.scope
  BY RoomAncestors, SiteAssumption DEF Reaches, Site
<1>4. ComponentListed(actor, a) <=> Reaches(actor, r)
  BY <1>3 DEF ComponentListed
<1>5. AssignmentListed(actor, a) <=> Reaches(actor, r)
  <2>1. actor.scope \in Room => (Within(r, actor.scope) <=> r = actor.scope)
    BY <1>1, RoomAncestors, SiteAssumption DEF Site
  <2> QED BY <2>1 DEF AssignmentListed, Reaches, Site
<1>6. HasCustodyScope(actor, a) <=> Reaches(actor, r)
  BY <1>3, ActorFacts DEF HasCustodyScope
<1>7. CanAccessAssignment(actor, a) <=> Reaches(actor, r)
  BY <1>1, ReachMeans DEF CanAccessAssignment
<1> QED BY <1>2, <1>4, <1>5, <1>6, <1>7

LEMMA ReachOfFound ==
  ASSUME TypeInv, NEW u \in User, NEW a \in Asset, asset[a].room \in Room
  PROVE  /\ Finds(u, a) <=> (Reaches(Actor(u), asset[a].room) \/ (holder[a] = u /\ Actor(u).scope # NoSite))
         /\ StockListed(u, a) <=> Finds(u, a)
BY ActorIs, ActorFacts, SiteAssumption DEF Finds, StockListed, RoomHierarchy, Reaches, Marker

\* A user's current seat tells its room.
LEMMA SeatedRoom ==
  ASSUME TypeInv, OneSeat, NEW v \in User, NEW s \in SeatsOf(v)
  PROVE  RoomOf(v) = placement[s].room /\ RoomOf(v) \in Room /\ SeatsOf(v) = {s}
<1>1. \A t \in SeatsOf(v) : t = s
  BY DEF OneSeat
<1>2. SeatsOf(v) # {} /\ (CHOOSE t \in SeatsOf(v) : TRUE) \in SeatsOf(v)
  OBVIOUS
<1>3. RoomOf(v) = placement[s].room
  BY <1>1, <1>2 DEF RoomOf
<1>4. placement[s].room \in Room
  BY SeatRows DEF OneSeat, SeatsOf, IsCurrent, PlacementRow
<1> QED BY <1>1, <1>3, <1>4

LEMMA ReachOfSeats ==
  ASSUME TypeInv, OneSeat, NEW actor, IsActor(actor), NEW v \in User, NEW s \in SeatsOf(v)
  PROVE  LET reach == Reaches(actor, RoomOf(v)) IN
         /\ CanAccessRoom(actor, RoomOf(v)) <=> reach
         /\ CanAssignTo(actor, v) <=> reach
         /\ RequestListed(actor, v) <=> reach
         /\ PlacementListed(actor, s) <=> reach
<1>1. SiteTypeOK
  BY TypeInvParts DEF RowsOK
<1>2. RoomOf(v) = placement[s].room /\ RoomOf(v) \in Room /\ SeatsOf(v) = {s}
  BY SeatedRoom
<1> PICK r \in Room : r = RoomOf(v)
  BY <1>2
<1>3. CanAccessRoom(actor, r) <=> Reaches(actor, r)
  BY <1>1, ReachMeans
<1>4. CanAssignTo(actor, v) <=> Reaches(actor, r)
  BY DEF CanAssignTo, Reaches
<1>5. RequestListed(actor, v) <=> Reaches(actor, r)
  BY <1>2 DEF RequestListed, Reaches
<1>6. PlacementListed(actor, s) <=> Reaches(actor, r)
  BY <1>1, <1>2, RoomAncestors, SiteAssumption DEF PlacementListed, Reaches, Site
<1> QED BY <1>3, <1>4, <1>5, <1>6

LEMMA ShownIsCounted ==
  ASSUME TypeInv, NEW actor, IsActor(actor), NEW v
  PROVE  AssetsShown(actor, v) = AssetsCounted(actor, v)
<1>1. SiteTypeOK /\ AssetTypeOK
  BY TypeInvParts DEF RowsOK, OthersOK
<1> SUFFICES ASSUME NEW a \in Asset, IsLive(a), holder[a] = v
             PROVE  a \in AssetsShown(actor, v) <=> a \in AssetsCounted(actor, v)
  BY DEF AssetsShown, AssetsCounted, LiveAssetsOf
<1>2. asset[a].room \in Room \cup {NoSite}
  BY <1>1 DEF AssetTypeOK, IsLive, IsAsset, AssetRow
<1>3. a \in AssetsShown(actor, v) <=> Reaches(actor, asset[a].room)
  BY DEF AssetsShown, LiveAssetsOf, Reaches
<1>4. a \in AssetsCounted(actor, v) <=>
        /\ actor.role # "none"
        /\ actor.scope \in Room => asset[a].room = actor.scope
        /\ actor.scope \in Location => LocationOf(asset[a].room) = actor.scope
        /\ actor.scope \in Department => DepartmentOf(LocationOf(asset[a].room)) = actor.scope
  BY DEF AssetsCounted
<1>5. CASE asset[a].room \in Room
  BY <1>1, <1>3, <1>4, <1>5, ActorFacts, RoomAncestors, SiteAssumption DEF Reaches, Site, Marker
<1>6. CASE asset[a].room = NoSite
  <2>1. LocationOf(NoSite) = NoSite /\ DepartmentOf(NoSite) = NoSite /\ NoSite \notin Site
    BY SiteAssumption DEF LocationOf, DepartmentOf, Site, Marker
  <2> QED BY <1>3, <1>4, <1>6, <2>1, ActorFacts, SiteAssumption DEF Reaches, Within, Site, Marker
<1> QED BY <1>2, <1>5, <1>6

LEMMA RowsAreAssignments ==
  ASSUME TypeInv, NEW v
  PROVE  RowsOf(v) \subseteq Assignment
BY TypeInvParts DEF RowsOK, RowsOf, Held

LEMMA UserInScope ==
  ASSUME TypeInv, OneSeat, NEW actor, IsActor(actor), NEW v \in User, CanAccessUser(actor, v)
  PROVE  IsUserInScope(actor, v)
<1>1. SiteTypeOK
  BY TypeInvParts DEF RowsOK
<1>2. CASE RoomOf(v) # NoSite /\ CanAccessRoom(actor, RoomOf(v))
  <2>1. RoomOf(v) \in Room
    BY <1>2, SeatedRoom DEF RoomOf
  <2> QED BY <1>1, <1>2, <2>1, ReachMeans DEF IsUserInScope
<1>3. ASSUME NEW row \in RowsOf(v), row.scope \in Room, CanAccessRoom(actor, row.scope)
      PROVE  IsUserInScope(actor, v)
  BY <1>1, <1>3, ReachMeans DEF IsUserInScope, Reaches
<1>4. ASSUME NEW row \in RowsOf(v), row.scope \in Location, actor.scope \in {row.scope, parent[row.scope]} \cap Site
      PROVE  IsUserInScope(actor, v)
  BY <1>4 DEF IsUserInScope, Within, Site
<1>5. ASSUME NEW row \in RowsOf(v), row.scope \in Department, actor.scope = row.scope
      PROVE  IsUserInScope(actor, v)
  BY <1>5 DEF IsUserInScope, Within, Site
<1> QED BY <1>2, <1>3, <1>4, <1>5 DEF CanAccessUser, IsUserInScope

LEMMA ListedUser ==
  ASSUME TypeInv, OneSeat, NEW u \in User, NEW v \in User, UserListed(u, v), active[v] # NoRow
  PROVE  \/ CanAccessUser(Actor(u), v)
         \/ SatWithin(v, Actor(u).scope) /\ (SeatsOf(v) # {} => ~Within(RoomOf(v), Actor(u).scope))
<1> PICK actor : actor = Actor(u)
  OBVIOUS
<1>1. SiteTypeOK /\ IsActor(actor)
  BY TypeInvParts, ActorIs DEF RowsOK
<1>2. \/ actor.role = "SITE_ADMIN"
      \/ actor.scope \in Site /\ \E row \in RowsOf(v) : row.scope = actor.scope
      \/ actor.scope \in Site /\ SatWithin(v, actor.scope)
  BY DEF UserListed
<1>3. ASSUME actor.scope \in Site, NEW row \in RowsOf(v), row.scope = actor.scope
      PROVE  CanAccessUser(actor, v)
  <2>1. CASE row.scope \in Room
    <3>1. Reaches(actor, row.scope)
      BY <1>3, <2>1 DEF Reaches, Within
    <3> QED BY <1>1, <2>1, <3>1, ReachMeans DEF CanAccessUser
  <2>2. CASE row.scope \in Location \cup Department
    BY <1>3, <2>2 DEF CanAccessUser
  <2> QED BY <1>3, <2>1, <2>2 DEF Site
<1>4. ASSUME actor.scope \in Site, SeatsOf(v) # {}, Within(RoomOf(v), actor.scope)
      PROVE  CanAccessUser(actor, v)
  <2>1. RoomOf(v) \in Room /\ RoomOf(v) # NoSite
    BY <1>4, SeatedRoom, SiteAssumption DEF Site, Marker
  <2>2. CanAccessRoom(actor, RoomOf(v))
    BY <1>1, <1>4, <2>1, ReachMeans DEF Reaches
  <2> QED BY <2>1, <2>2 DEF CanAccessUser
<1>5. actor.role = "SITE_ADMIN" => CanAccessUser(actor, v)
  BY DEF CanAccessUser
<1> QED BY <1>2, <1>3, <1>4, <1>5

LEMMA ReachStep == TypeInv /\ OneSeat => ReachAgrees
<1> SUFFICES ASSUME TypeInv, OneSeat, NEW u \in User, NEW actor, actor = Actor(u)
             PROVE  /\ \A r \in Room : Stands(r) =>
                         /\ RoomListed(actor, r) <=> CanAccessRoom(actor, r)
                         /\ AuditListed(actor, r) <=> CanAccessRoom(actor, r)
                         /\ CanAccessRoom(actor, r) => IsInScope(actor, r)
                    /\ \A l \in Location : Stands(l) => (LocationListed(actor, l) <=> MayOpenLocation(actor, l))
                    /\ \A d \in Department : Stands(d) =>
                         (DepartmentListed(actor, d) <=> MayOpenDepartment(actor, d))
                    /\ \A a \in Asset : IsAsset(a) /\ asset[a].room # NoSite =>
                         LET reach == CanAccessAsset(actor, a) IN
                         /\ Finds(u, a) <=> (reach \/ (holder[a] = u /\ actor.scope # NoSite))
                         /\ StockListed(u, a) <=> Finds(u, a)
                         /\ ComponentListed(actor, a) <=> reach
                         /\ AssignmentListed(actor, a) <=> reach
                         /\ HasCustodyScope(actor, a) <=> reach
                         /\ holder[a] # NoUser => (CanAccessAssignment(actor, a) <=> reach)
                    /\ \A v \in User :
                         /\ AssetsShown(actor, v) = AssetsCounted(actor, v)
                         /\ SeatsOf(v) # {} =>
                              LET reach == CanAccessRoom(actor, RoomOf(v)) IN
                              /\ CanAssignTo(actor, v) <=> reach
                              /\ RequestListed(actor, v) <=> reach
                              /\ \A s \in SeatsOf(v) : PlacementListed(actor, s) <=> reach
                         /\ CanAccessUser(actor, v) => IsUserInScope(actor, v)
                         /\ UserListed(u, v) /\ active[v] # NoRow =>
                              \/ CanAccessUser(actor, v)
                              \/ SatWithin(v, actor.scope) /\ (SeatsOf(v) # {} => ~Within(RoomOf(v), actor.scope))
  BY DEF ReachAgrees
<1>1. SiteTypeOK /\ AssetTypeOK /\ IsActor(actor)
  BY TypeInvParts, ActorIs DEF RowsOK, OthersOK
<1>2. \A r \in Room : /\ RoomListed(actor, r) <=> CanAccessRoom(actor, r)
                      /\ AuditListed(actor, r) <=> CanAccessRoom(actor, r)
                      /\ CanAccessRoom(actor, r) => IsInScope(actor, r)
  BY <1>1, ReachMeans
<1>3. \A l \in Location : LocationListed(actor, l) <=> MayOpenLocation(actor, l)
  BY <1>1, SiteAssumption DEF LocationListed, MayOpenLocation, Site
<1>4. \A d \in Department : DepartmentListed(actor, d) <=> MayOpenDepartment(actor, d)
  BY DEF DepartmentListed, MayOpenDepartment
<1>5. ASSUME NEW a \in Asset, IsAsset(a), asset[a].room # NoSite
      PROVE  LET reach == CanAccessAsset(actor, a) IN
             /\ Finds(u, a) <=> (reach \/ (holder[a] = u /\ actor.scope # NoSite))
             /\ StockListed(u, a) <=> Finds(u, a)
             /\ ComponentListed(actor, a) <=> reach
             /\ AssignmentListed(actor, a) <=> reach
             /\ HasCustodyScope(actor, a) <=> reach
             /\ CanAccessAssignment(actor, a) <=> reach
  <2>1. asset[a].room \in Room
    BY <1>1, <1>5 DEF AssetTypeOK, IsAsset, AssetRow
  <2> QED BY <1>1, <2>1, ReachOfAssets, ReachOfFound
<1>6. ASSUME NEW v \in User, SeatsOf(v) # {}
      PROVE  LET reach == CanAccessRoom(actor, RoomOf(v)) IN
             /\ CanAssignTo(actor, v) <=> reach
             /\ RequestListed(actor, v) <=> reach
             /\ \A s \in SeatsOf(v) : PlacementListed(actor, s) <=> reach
  BY <1>1, <1>6, ReachOfSeats
<1>7. \A v \in User : AssetsShown(actor, v) = AssetsCounted(actor, v)
  BY <1>1, ShownIsCounted
<1>8. \A v \in User : CanAccessUser(actor, v) => IsUserInScope(actor, v)
  BY <1>1, UserInScope
<1> QED BY <1>2, <1>3, <1>4, <1>5, <1>6, <1>7, <1>8, ListedUser

\* However the reach of a role is written, for a list, for a check of one object
\* or in a service of its own, it is the same reach, on every tree, for every
\* asset, seat and user.
THEOREM ReachAgreesAlways == Spec => []ReachAgrees
BY TypeInvariant, SeatsInvariant, ReachStep, PTL DEF SeatsInv
-----------------------------------------------------------------------------
(* Everybody's active role is its own.                                     *)

LEMMA OnlyAbout ==
  ASSUME NEW kinds, Only(kinds), kinds \cap {"update", "switch"} = {}
  PROVE  \A u \in User, i \in Row, v \in User : About(u, i, v)' => About(u, i, v)
BY DEF Only, Asked, About

\* Rows that requests are about keep their users, and so do active ones.
LEMMA OwnersFrame ==
  ASSUME TypeInv, TypeInv', OwnersInv,
         \A u \in User, i \in Row, v \in User : About(u, i, v)' => About(u, i, v),
         \A i \in Row :
           /\ assignment[i] # Unborn => assignment'[i] # Unborn
           /\ assignment[i] # Unborn /\ Held(i)' =>
                \/ Held(i) /\ assignment'[i].user = assignment[i].user
                \/ \E w \in User, x \in User : About(w, i, x) /\ assignment'[i].user = x,
         \A v \in User : active'[v] # NoRow =>
           active'[v] = active[v] \/ (active'[v] \in Row /\ assignment'[active'[v]].user = v)
  PROVE  OwnersInv'
<1>1. RowsStayWithUsers'
  <2> SUFFICES ASSUME NEW u \in User, NEW w \in User, NEW i \in Row, NEW v \in User, NEW x \in User,
                      About(u, i, v)'
               PROVE  /\ assignment'[i] # Unborn /\ (Held(i)' => assignment'[i].user = v)
                      /\ About(w, i, x)' => x = v
    BY DEF RowsStayWithUsers
  <2>1. About(u, i, v) /\ assignment[i] # Unborn /\ (Held(i) => assignment[i].user = v)
    BY DEF OwnersInv, RowsStayWithUsers
  <2> QED BY <2>1 DEF OwnersInv, RowsStayWithUsers
<1>2. ActiveIsOwn'
  <2> SUFFICES ASSUME NEW v \in User, active'[v] # NoRow PROVE assignment'[active'[v]].user = v
    BY DEF ActiveIsOwn
  <2>1. CASE active'[v] = active[v]
    <3> PICK i \in Row : i = active[v]
      BY <2>1, TypeInvParts DEF RowsOK
    <3>1. Held(i) /\ assignment[i].user = v
      BY <2>1 DEF TypeInv, ActiveHeld, OwnersInv, ActiveIsOwn
    <3>2. Held(i)'
      BY <2>1 DEF TypeInv, ActiveHeld, Held
    <3>3. assignment[i] # Unborn
      BY <3>1 DEF Held
    <3>4. \A w \in User, x \in User : About(w, i, x) => x = v
      BY <3>1 DEF OwnersInv, RowsStayWithUsers
    <3> QED BY <2>1, <3>1, <3>2, <3>3, <3>4
  <2>2. CASE active'[v] # active[v]
    BY <2>2
  <2> QED BY <2>1, <2>2
<1> QED BY <1>1, <1>2 DEF OwnersInv

\* A step that leaves the assignments, and makes no request about one.
LEMMA OwnersKept ==
  ASSUME TypeInv, TypeInv', OwnersInv, UNCHANGED <<assignment, active>>,
         NEW kinds, Only(kinds), kinds \cap {"update", "switch"} = {}
  PROVE  OwnersInv'
<1>1. \A u \in User, i \in Row, v \in User : About(u, i, v)' => About(u, i, v)
  BY OnlyAbout
<1> QED BY <1>1, OwnersFrame DEF Held

\* The deletion of assignments.
LEMMA OwnersErased ==
  ASSUME TypeInv, TypeInv', OwnersInv, NEW gone, Erase(gone), Only({})
  PROVE  OwnersInv'
<1>1. \A u \in User, i \in Row, v \in User : About(u, i, v)' => About(u, i, v)
  BY OnlyAbout
<1>2. \A i \in Row : assignment'[i] \in {assignment[i], Deleted}
  BY DEF Erase
<1>3. \A v \in User : active'[v] # NoRow => active'[v] = active[v]
  BY DEF Erase
<1>4. Unborn # Deleted
  BY SiteAssumption
<1> QED BY <1>1, <1>2, <1>3, <1>4, OwnersFrame DEF Held

\* A row that is saved was new, or is saved for the user it had.
LEMMA OwnersStored ==
  ASSUME TypeInv, TypeInv', OwnersInv, NEW i \in Row, NEW row \in Assignment, Store(i, row), Only({}),
         assignment[i] = Unborn \/ \E w \in User : About(w, i, row.user)
  PROVE  OwnersInv'
<1>1. \A u \in User, j \in Row, v \in User : About(u, j, v)' => About(u, j, v)
  BY OnlyAbout
<1>2. /\ assignment'[i] = row /\ row \notin {Unborn, Deleted} /\ row.user \in User
      /\ \A j \in Row \ {i} : assignment'[j] = assignment[j]
      /\ UNCHANGED active
  BY TypeInvParts, RoleAssumption DEF RowsOK, Store, Assignment
<1> QED BY <1>1, <1>2, OwnersFrame DEF Held

\* Who asks to change or to switch to a row names its user.
LEMMA OwnersAsked ==
  ASSUME TypeInv, TypeInv', OwnersInv, NEW u \in User, NEW r, RoleAsked(u, r)
  PROVE  OwnersInv'
<1>1. /\ RequestsOK /\ request'[u] = r /\ \A v \in User \ {u} : request'[v] = request[v]
      /\ UNCHANGED <<assignment, active>>
  BY TypeInvParts DEF RequestsOK, RoleAsked, Ask
<1>2. /\ r.op = "update" => Held(r.id) /\ assignment[r.id].user = r.row.user
      /\ r.op = "switch" => Held(r.id) /\ assignment[r.id].user = u
  BY DEF RoleAsked, AskUpdate, AskSwitch
<1>3. \A w \in User, i \in Row, v \in User : About(w, i, v)' =>
        About(w, i, v) \/ (Held(i) /\ assignment[i].user = v)
  BY <1>1, <1>2 DEF About, Asked
<1>4. RowsStayWithUsers'
  <2> SUFFICES ASSUME NEW w1 \in User, NEW w2 \in User, NEW i \in Row, NEW v \in User, NEW x \in User,
                      About(w1, i, v)'
               PROVE  /\ assignment[i] # Unborn /\ (Held(i) => assignment[i].user = v)
                      /\ About(w2, i, x)' => x = v
    BY <1>1 DEF RowsStayWithUsers, Held
  <2>1. assignment[i] # Unborn /\ (Held(i) => assignment[i].user = v)
    BY <1>3 DEF OwnersInv, RowsStayWithUsers, Held
  <2>2. ASSUME About(w2, i, x)' PROVE x = v
    BY <1>3, <2>1, <2>2 DEF OwnersInv, RowsStayWithUsers, Held
  <2> QED BY <2>1, <2>2
<1> QED BY <1>1, <1>4 DEF OwnersInv, ActiveIsOwn

LEMMA OwnersOfRoles ==
  ASSUME TypeInv, TypeInv', OwnersInv, NEW u \in User, RoleStep(u)
  PROVE  OwnersInv'
<1>1. RequestsOK
  BY TypeInvParts
<1>2. CASE \E s \in Site : \E p \in Parents(s) : Relocate(u, s, p)
  <2>1. Only({}) /\ UNCHANGED <<assignment, active>>
    BY <1>2 DEF Relocate, Only
  <2> QED BY <2>1, OwnersKept
<1>3. CASE SaveCreate(u)
  <2>1. PICK i \in Row : assignment[i] = Unborn /\ Store(i, request[u].row)
    BY <1>3 DEF SaveCreate
  <2>2. request[u].row \in Assignment /\ Only({})
    BY <1>1, <1>3, RoleFields, DoneOnly DEF RequestsOK, SaveCreate
  <2> QED BY <2>1, <2>2, OwnersStored
<1>4. CASE SaveUpdate(u)
  <2>1. request[u].id \in Row /\ request[u].row \in Assignment /\ Only({})
    BY <1>1, <1>4, RoleFields, DoneOnly DEF RequestsOK, SaveUpdate
  <2>2. Store(request[u].id, request[u].row) /\ About(u, request[u].id, request[u].row.user)
    BY <1>4 DEF SaveUpdate, About, Asked
  <2> QED BY <2>1, <2>2, OwnersStored
<1>5. CASE SaveDelete(u)
  BY <1>1, <1>5, DoneOnly, OwnersErased DEF SaveDelete
<1>6. CASE SaveSwitch(u)
  <2>1. /\ request[u].id \in Row /\ Held(request[u].id) /\ Only({})
        /\ About(u, request[u].id, u) /\ UNCHANGED assignment
    BY <1>1, <1>6, RoleFields, DoneOnly DEF RequestsOK, SaveSwitch, About, Asked
  <2>2. assignment[request[u].id].user = u
    BY <2>1 DEF OwnersInv, RowsStayWithUsers
  <2>3. \A v \in User : active'[v] = active[v] \/ (v = u /\ active'[v] = request[u].id)
    BY <1>6, TypeInvParts DEF RowsOK, SaveSwitch
  <2>4. \A w \in User, i \in Row, v \in User : About(w, i, v)' => About(w, i, v)
    BY <2>1, OnlyAbout
  <2> QED BY <2>1, <2>2, <2>3, <2>4, OwnersFrame DEF Held
<1>7. CASE SavePlace(u) \/ Fail(u)
  <2>1. Only({}) /\ UNCHANGED <<assignment, active>>
    BY <1>1, <1>7, DoneOnly DEF SavePlace, Fail
  <2> QED BY <2>1, OwnersKept
<1> QED BY <1>2, <1>3, <1>4, <1>5, <1>6, <1>7, OwnersAsked, RoleStepKinds

LEMMA OwnersInvariant == Spec => []OwnersInv
<1>1. Init => OwnersInv
  BY DEF Init, RoleInit, OwnersInv, ActiveIsOwn, RowsStayWithUsers, About, Asked
<1>2. TypeInv /\ TypeInv' /\ OwnersInv /\ [Next]_vars => OwnersInv'
  <2> SUFFICES ASSUME TypeInv, TypeInv', OwnersInv, [Next]_vars PROVE OwnersInv'
    OBVIOUS
  <2>1. ASSUME NEW u \in User, RemoveSite(u) PROVE OwnersInv'
    <3>1. Only({}) /\ \E gone : Erase(gone)
      BY <2>1, RemoveSiteOnly DEF RemoveSite, SaveRemove
    <3> QED BY <3>1, OwnersErased
  <2>2. ASSUME NEW u \in User, AssetStep(u) \/ PlacementStep(u) PROVE OwnersInv'
    BY <2>2, AssetOnly, PlacementOnly, OwnersKept DEF PlacementKinds
  <2>3. ASSUME NEW u \in User, AgreementStep(u) \/ MatrixStep(u) PROVE OwnersInv'
    BY <2>3, AgreementOnly, MatrixOnly, OwnersKept DEF MatrixKinds
  <2>4. CASE UNCHANGED vars
    <3>1. Only({}) /\ UNCHANGED <<assignment, active>>
      BY <2>4 DEF vars, roleVars, Only
    <3> QED BY <3>1, OwnersKept
  <2> QED BY <2>1, <2>2, <2>3, <2>4, OwnersOfRoles DEF Next, ChangeAsset
<1> QED BY <1>1, <1>2, TypeInvariant, PTL DEF Spec
-----------------------------------------------------------------------------
(* The pages.                                                              *)

\* Who sits in the rooms, by rows or by user.
LEMMA SeatedMeans ==
  ASSUME TypeInv, OneSeat, NEW rooms
  PROVE  SeatedIn(rooms) = {v \in User : SeatsOf(v) # {} /\ RoomOf(v) \in rooms}
<1>1. ASSUME NEW v \in SeatedIn(rooms) PROVE v \in User /\ SeatsOf(v) # {} /\ RoomOf(v) \in rooms
  <2>1. PICK s \in Seat : IsSeat(s) /\ placement[s].current /\ placement[s].room \in rooms
                          /\ v = placement[s].user
    BY DEF SeatedIn
  <2>2. v \in User /\ s \in SeatsOf(v)
    BY <2>1, SeatRows DEF PlacementRow, SeatsOf, IsCurrent
  <2> QED BY <2>1, <2>2, SeatedRoom
<1>2. ASSUME NEW v \in User, SeatsOf(v) # {}, RoomOf(v) \in rooms PROVE v \in SeatedIn(rooms)
  <2>1. PICK s \in SeatsOf(v) : TRUE
    BY <1>2
  <2>2. placement[s].room \in rooms
    BY <1>2, <2>1, SeatedRoom
  <2> QED BY <2>1, <2>2 DEF SeatsOf, IsCurrent, SeatedIn
<1> QED BY <1>1, <1>2

\* The rooms of a page are those that the rule of the reach finds.
LEMMA RoomsBelow ==
  ASSUME SiteTypeOK
  PROVE  /\ \A d \in Department : DepartmentRooms(d) = {r \in Room : Within(r, d)}
         /\ \A l \in Location : LocationRooms(l) = {r \in Room : Within(r, l)}
         /\ \A r \in Room : {q \in Room : Within(q, r)} = {r}
<1>1. \A d \in Department, r \in Room : DepartmentOf(LocationOf(r)) = d <=> Within(r, d)
  BY RoomAncestors, SiteAssumption DEF Site
<1>2. \A l \in Location, r \in Room : parent[r] = l <=> Within(r, l)
  BY RoomAncestors, SiteAssumption DEF Site, LocationOf
<1>3. \A q \in Room, r \in Room : q = r <=> Within(q, r)
  BY RoomAncestors, SiteAssumption DEF Site
<1> QED BY <1>1, <1>2, <1>3 DEF DepartmentRooms, LocationRooms

\* Whoever reaches the rooms of a page may open everything on it.
LEMMA ReachedIsOpen ==
  ASSUME TypeInv, OneSeat, NEW u \in User, NEW rooms \in SUBSET Room, \A r \in rooms : Reaches(Actor(u), r)
  PROVE  /\ \A r \in rooms : RoomListed(Actor(u), r) /\ MayOpen(Actor(u), r)
         /\ \A v \in SeatedIn(rooms) :
              CanAccessUser(Actor(u), v) /\ \E s \in SeatsOf(v) : PlacementListed(Actor(u), s)
         /\ \A a \in AnyIn(rooms) :
              Finds(u, a) /\ CanAccessAsset(Actor(u), a) /\ IsInScope(Actor(u), asset[a].room)
<1>1. SiteTypeOK /\ IsActor(Actor(u))
  BY TypeInvParts, ActorIs DEF RowsOK
<1>2. ASSUME NEW r \in rooms
      PROVE  RoomListed(Actor(u), r) /\ MayOpen(Actor(u), r) /\ IsInScope(Actor(u), r)
  <2>1. RoomListed(Actor(u), r) /\ CanAccessRoom(Actor(u), r) /\ IsInScope(Actor(u), r)
    BY <1>1, ReachMeans
  <2> QED BY <2>1, SiteAssumption DEF MayOpen, MayOpenRoom
<1>3. ASSUME NEW v \in SeatedIn(rooms)
      PROVE  CanAccessUser(Actor(u), v) /\ \E s \in SeatsOf(v) : PlacementListed(Actor(u), s)
  <2>1. v \in User /\ SeatsOf(v) # {} /\ RoomOf(v) \in rooms
    BY SeatedMeans
  <2>2. PICK s \in SeatsOf(v) : TRUE
    BY <2>1
  <2>3. CanAccessRoom(Actor(u), RoomOf(v)) /\ PlacementListed(Actor(u), s)
    BY <1>1, <2>1, <2>2, ReachOfSeats
  <2>4. RoomOf(v) # NoSite
    BY <2>1, SiteAssumption DEF Site, Marker
  <2> QED BY <2>2, <2>3, <2>4 DEF CanAccessUser
<1>4. ASSUME NEW a \in AnyIn(rooms)
      PROVE  Finds(u, a) /\ CanAccessAsset(Actor(u), a) /\ IsInScope(Actor(u), asset[a].room)
  <2>1. a \in Asset /\ asset[a].room \in rooms
    BY DEF AnyIn
  <2> QED BY <1>1, <1>2, <2>1, ReachOfAssets, ReachOfFound
<1> QED BY <1>2, <1>3, <1>4

LEMMA AdmittedStep == TypeInv /\ OneSeat => PagesAdmitted
<1> SUFFICES ASSUME TypeInv, OneSeat PROVE PagesAdmitted
  OBVIOUS
<1>1. SiteTypeOK
  BY TypeInvParts DEF RowsOK
<1>2. \A rooms : LiveIn(rooms) \subseteq AnyIn(rooms)
  BY DEF LiveIn, AnyIn, IsLive
<1>3. ASSUME NEW u \in User, NEW d \in Department, MayOpen(Actor(u), d)
      PROVE  /\ \A l \in DepartmentLocations(d) : LocationListed(Actor(u), l) /\ MayOpen(Actor(u), l)
             /\ \A r \in DepartmentRooms(d) : Reaches(Actor(u), r)
  <2>1. Actor(u).role = "SITE_ADMIN" \/ Actor(u).scope = d
    BY <1>3 DEF MayOpen, MayOpenDepartment
  <2>2. \A l \in DepartmentLocations(d) : LocationListed(Actor(u), l) /\ MayOpen(Actor(u), l)
    BY <2>1, SiteAssumption DEF DepartmentLocations, LocationListed, MayOpen, MayOpenLocation
  <2>3. \A r \in DepartmentRooms(d) : Reaches(Actor(u), r)
    BY <1>1, <2>1, RoomsBelow DEF Reaches, Site
  <2> QED BY <2>2, <2>3
<1>4. ASSUME NEW u \in User, NEW l \in Location, MayOpen(Actor(u), l)
      PROVE  \A r \in LocationRooms(l) : Reaches(Actor(u), r)
  <2>1. \/ Actor(u).role = "SITE_ADMIN" \/ Actor(u).scope = l
        \/ Actor(u).scope \in Department /\ Actor(u).scope = parent[l]
    BY <1>4 DEF MayOpen, MayOpenLocation
  <2> QED BY <2>1 DEF Reaches, Site, Within, LocationRooms
<1>5. ASSUME NEW u \in User, NEW r \in Room, MayOpen(Actor(u), r)
      PROVE  Reaches(Actor(u), r)
  <2>1. Actor(u).role = "SITE_ADMIN" \/ CanAccessRoom(Actor(u), r)
    BY <1>5 DEF MayOpen, MayOpenRoom
  <2> QED BY <1>1, <2>1, ActorIs, ReachMeans DEF Reaches
<1>6. ASSUME NEW u \in User, NEW d \in Department, MayOpen(Actor(u), d)
      PROVE  /\ \A l \in DepartmentLocations(d) : LocationListed(Actor(u), l) /\ MayOpen(Actor(u), l)
             /\ \A r \in DepartmentRooms(d) : RoomListed(Actor(u), r) /\ MayOpen(Actor(u), r)
             /\ \A v \in DepartmentUsers(d) :
                  CanAccessUser(Actor(u), v) /\ \E s \in SeatsOf(v) : PlacementListed(Actor(u), s)
             /\ \A a \in DepartmentEquipment(d) \cup DepartmentConsumables(d) \cup DepartmentAccessories(d) :
                  Finds(u, a) /\ CanAccessAsset(Actor(u), a) /\ IsInScope(Actor(u), asset[a].room)
  <2>1. DepartmentRooms(d) \in SUBSET Room
    BY DEF DepartmentRooms
  <2>2. DepartmentEquipment(d) \cup DepartmentConsumables(d) \cup DepartmentAccessories(d)
          \subseteq AnyIn(DepartmentRooms(d))
    BY <1>2 DEF DepartmentEquipment, DepartmentConsumables, DepartmentAccessories
  <2> QED BY <1>3, <1>6, <2>1, <2>2, ReachedIsOpen DEF DepartmentUsers
<1>7. ASSUME NEW u \in User, NEW l \in Location, MayOpen(Actor(u), l)
      PROVE  /\ \A r \in LocationRooms(l) : RoomListed(Actor(u), r) /\ MayOpen(Actor(u), r)
             /\ \A v \in LocationUsers(l) :
                  CanAccessUser(Actor(u), v) /\ \E s \in SeatsOf(v) : PlacementListed(Actor(u), s)
             /\ \A a \in LocationEquipment(l) \cup LocationConsumables(l) \cup LocationAccessories(l) :
                  Finds(u, a) /\ CanAccessAsset(Actor(u), a) /\ IsInScope(Actor(u), asset[a].room)
  <2>1. LocationRooms(l) \in SUBSET Room
    BY DEF LocationRooms
  <2>2. LocationEquipment(l) \cup LocationConsumables(l) \cup LocationAccessories(l)
          \subseteq AnyIn(LocationRooms(l))
    BY <1>2 DEF LocationEquipment, LocationConsumables, LocationAccessories
  <2> QED BY <1>4, <1>7, <2>1, <2>2, ReachedIsOpen DEF LocationUsers
<1>8. ASSUME NEW u \in User, NEW r \in Room, MayOpen(Actor(u), r)
      PROVE  /\ RoomListed(Actor(u), r)
             /\ \A v \in RoomUsers(r) :
                  CanAccessUser(Actor(u), v) /\ \E s \in SeatsOf(v) : PlacementListed(Actor(u), s)
             /\ \A a \in RoomEquipment(r) \cup RoomConsumables(r) \cup RoomAccessories(r) :
                  Finds(u, a) /\ CanAccessAsset(Actor(u), a) /\ IsInScope(Actor(u), asset[a].room)
  <2>1. {r} \in SUBSET Room
    OBVIOUS
  <2>2. RoomEquipment(r) \cup RoomConsumables(r) \cup RoomAccessories(r) \subseteq AnyIn({r})
    BY <1>2 DEF RoomEquipment, RoomConsumables, RoomAccessories
  <2>3. \A q \in {r} : Reaches(Actor(u), q)
    BY <1>5, <1>8
  <2> QED BY <2>1, <2>2, <2>3, ReachedIsOpen DEF RoomUsers
<1> QED BY <1>6, <1>7, <1>8 DEF PagesAdmitted

\* The rooms below a site, and what is in them.
Below(s) == {r \in Room : Within(r, s)}

LEMMA InBelow ==
  ASSUME TypeInv, OneSeat, NEW s \in Site
  PROVE  /\ LiveIn(Below(s)) = {a \in Asset : IsLive(a) /\ Within(asset[a].room, s)}
         /\ AnyIn(Below(s)) = {a \in Asset : IsAsset(a) /\ Within(asset[a].room, s)}
         /\ SeatedIn(Below(s)) = {v \in User : SeatsOf(v) # {} /\ Within(RoomOf(v), s)}
<1>1. \A a \in Asset : IsAsset(a) => asset[a].room \in Room \cup {NoSite}
  BY TypeInvParts DEF OthersOK, AssetTypeOK, IsAsset, AssetRow
<1>2. ~Within(NoSite, s)
  BY SiteAssumption DEF Within, Site, Marker
<1>3. \A a \in Asset : IsAsset(a) => (asset[a].room \in Below(s) <=> Within(asset[a].room, s))
  BY <1>1, <1>2 DEF Below
<1>4. \A v \in User : SeatsOf(v) # {} => RoomOf(v) \in Room
  BY SeatedRoom
<1>5. SeatedIn(Below(s)) = {v \in User : SeatsOf(v) # {} /\ Within(RoomOf(v), s)}
  BY <1>4, SeatedMeans DEF Below
<1> QED BY <1>3, <1>5 DEF LiveIn, AnyIn, IsLive

\* What rooms without others hold, and what rooms together do.
LEMMA RoomsSplit ==
  ASSUME TypeInv, OneSeat, NEW rooms, NEW lost
  PROVE  /\ SeatedIn(rooms \ lost) = SeatedIn(rooms) \ SeatedIn(lost)
         /\ LiveIn(rooms \ lost) = LiveIn(rooms) \ LiveIn(lost)
BY SeatedMeans DEF LiveIn

LEMMA PartsMakeUp ==
  ASSUME TypeInv, OneSeat, NEW s, NEW rooms, \A r : r \in rooms <=> \E p \in Parts(s) : r \in ReportRooms(p)
  PROVE  LET parts == {InventorySummary(p) : p \in Parts(s)} IN
         /\ UNION {p.users : p \in parts} = SeatedIn(rooms)
         /\ UNION {p.equipment : p \in parts} = RoomChecked \cap LiveIn(rooms)
<1> DEFINE parts == {InventorySummary(p) : p \in Parts(s)}
<1>1. \A v : v \in SeatedIn(rooms) <=> \E p \in Parts(s) : v \in SeatedIn(ReportRooms(p))
  BY SeatedMeans
<1>2. \A a : a \in LiveIn(rooms) <=> \E p \in Parts(s) : a \in LiveIn(ReportRooms(p))
  BY DEF LiveIn
<1>3. \A p \in Parts(s) : /\ InventorySummary(p).users = SeatedIn(ReportRooms(p))
                          /\ InventorySummary(p).equipment = RoomChecked \cap LiveIn(ReportRooms(p))
  BY DEF InventorySummary
<1>4. UNION {p.users : p \in parts} = SeatedIn(rooms)
  BY <1>1, <1>3
<1>5. UNION {p.equipment : p \in parts} = RoomChecked \cap LiveIn(rooms)
  BY <1>2, <1>3
<1> QED BY <1>4, <1>5

\* The rooms of the parts of a site are its rooms, but for those without a
\* department where the whole organisation is meant.
LEMMA PartRooms ==
  ASSUME SiteTypeOK, NEW r \in Room
  PROVE  /\ \A d \in Department :
              r \in ReportRooms(d) <=> \E l \in Parts(d) : r \in ReportRooms(l)
         /\ \A l \in Location :
              r \in ReportRooms(l) <=> \E q \in Parts(l) : r \in ReportRooms(q)
         /\ Stands(r) /\ DepartmentOf(LocationOf(r)) # NoSite <=>
              \E d \in Parts(AllSites) : r \in ReportRooms(d)
<1>1. \A s \in Site : s # AllSites
  BY SiteAssumption
<1>2. \A s \in Site : r \in ReportRooms(s) <=> Within(r, s)
  BY <1>1 DEF ReportRooms
<1>3. \A d \in Department : Parts(d) = {l \in Location : parent[l] = d}
  BY <1>1 DEF Parts, Site
<1>4. \A l \in Location : Parts(l) = {q \in Room : parent[q] = l}
  BY <1>1, SiteAssumption DEF Parts, Site
<1>5. ASSUME NEW d \in Department
      PROVE  Within(r, d) <=> \E l \in Location : parent[l] = d /\ Within(r, l)
  <2>1. \A l \in Location : Within(r, l) <=> l = LocationOf(r)
    BY RoomAncestors, SiteAssumption DEF Site
  <2>2. Within(r, d) <=> d = DepartmentOf(LocationOf(r))
    BY RoomAncestors, SiteAssumption DEF Site
  <2>3. d # NoSite
    BY SiteAssumption DEF Site, Marker
  <2> QED BY <2>1, <2>2, <2>3 DEF DepartmentOf
<1>6. ASSUME NEW l \in Location
      PROVE  Within(r, l) <=> \E q \in Room : parent[q] = l /\ Within(r, q)
  BY RoomAncestors, SiteAssumption DEF Site, LocationOf, Within
<1>7. Stands(r) /\ DepartmentOf(LocationOf(r)) # NoSite <=>
        \E d \in Department : Stands(d) /\ Within(r, d)
  <2>1. ASSUME NEW d \in Department, Within(r, d)
        PROVE  Stands(r) /\ DepartmentOf(LocationOf(r)) # NoSite
    <3>1. DepartmentOf(LocationOf(r)) = d /\ d # NoSite
      BY <2>1, RoomAncestors, SiteAssumption DEF Site, Marker
    <3>2. LocationOf(r) \in Location
      BY <3>1 DEF DepartmentOf
    <3> QED BY <3>1, <3>2, SiteAssumption DEF LocationOf, Stands, Site, Marker
  <2>2. ASSUME DepartmentOf(LocationOf(r)) # NoSite, Stands(r)
        PROVE  \E d \in Department : Stands(d) /\ Within(r, d)
    <3>1. parent[r] \in Location /\ DepartmentOf(LocationOf(r)) = parent[parent[r]]
      BY <2>2 DEF DepartmentOf, LocationOf
    <3>2. parent[parent[r]] \in Department \cup Marker
      BY <3>1, ParentLevels
    <3>3. Stands(parent[r])
      BY <3>1 DEF SiteTypeOK, Site
    <3>4. parent[parent[r]] \in Department
      BY <2>2, <3>1, <3>2, <3>3 DEF Stands, Marker
    <3>5. Stands(parent[parent[r]])
      BY <3>1, <3>4 DEF SiteTypeOK, Site
    <3> QED BY <3>1, <3>4, <3>5 DEF Within, Site
  <2> QED BY <2>1, <2>2
<1>8. Parts(AllSites) = {d \in Department : Stands(d)}
  BY DEF Parts
<1>9. ASSUME NEW d \in Department
      PROVE  r \in ReportRooms(d) <=> \E l \in Parts(d) : r \in ReportRooms(l)
  BY <1>2, <1>3, <1>5 DEF Site
<1>10. ASSUME NEW l \in Location
       PROVE  r \in ReportRooms(l) <=> \E q \in Parts(l) : r \in ReportRooms(q)
  BY <1>2, <1>4, <1>6 DEF Site
<1>11. Stands(r) /\ DepartmentOf(LocationOf(r)) # NoSite <=>
         \E d \in Parts(AllSites) : r \in ReportRooms(d)
  BY <1>2, <1>7, <1>8 DEF Site
<1> QED BY <1>9, <1>10, <1>11

\* The people of a site are those with a role below it.
LEMMA RolesBelow ==
  ASSUME TypeInv, NEW s \in Site
  PROVE  /\ RoleScope(s) = {i \in Row : Held(i) /\ ListedAt(s, [role |-> "SITE_ADMIN", scope |-> AllSites], assignment[i])}
         /\ ReportRoles(s) = RoleScope(s)
<1>1. SiteTypeOK /\ \A i \in Row : Held(i) => assignment[i] \in Assignment
  BY TypeInvParts DEF RowsOK, Held
<1>2. s # AllSites
  BY SiteAssumption
<1>3. ASSUME NEW i \in Row, Held(i), Within(assignment[i].scope, s)
      PROVE  /\ assignment[i].role \in AnyRole
             /\ s \in Department => assignment[i].role \notin SiteRole
             /\ s \in Location => assignment[i].role \notin SiteRole \cup DepartmentRole
             /\ s \in Room => assignment[i].role \in RoomRole
  <2>1. /\ assignment[i] \in Assignment /\ assignment[i].scope \in Site
        /\ assignment[i].role \in AnyRole /\ assignment[i].scope \in Assignable(assignment[i].role)
    BY <1>1, <1>3, RowFields DEF Within
  <2>2. assignment[i].role \notin SiteRole
    BY <2>1, SiteRows DEF SiteRole
  <2>3. s \in Location => assignment[i].scope \in Location \cup Room
    BY <1>1, <1>3, <2>1, ParentLevels, SiteAssumption DEF Within, Site
  <2>4. s \in Room => assignment[i].scope \in Room
    BY <1>1, <1>3, <2>1, ParentLevels, SiteAssumption DEF Within, Site
  <2>5. /\ assignment[i].role \in DepartmentRole <=> assignment[i].scope \in Department
        /\ assignment[i].role \in RoomRole <=> assignment[i].scope \in Room
    BY <2>1, ActorFacts DEF IsActor
  <2> QED BY <2>1, <2>2, <2>3, <2>4, <2>5, SiteAssumption
<1>4. \A i \in Row : Held(i) =>
        (ListedAt(s, [role |-> "SITE_ADMIN", scope |-> AllSites], assignment[i])
           <=> Within(assignment[i].scope, s))
  BY <1>3 DEF ListedAt, MayOpenRoom, MayOpenLocation, MayOpenDepartment, ShownRole
<1>5. RoleScope(s) = {i \in Row : Held(i) /\ ListedAt(s, [role |-> "SITE_ADMIN", scope |-> AllSites], assignment[i])}
  BY <1>4 DEF RoleScope
<1>6. ReportRoles(s) = RoleScope(s)
  BY <1>2, <1>3 DEF ReportRoles, RoleScope
<1> QED BY <1>5, <1>6

\* The parts of a site make up the whole.
LEMMA WholeOfParts ==
  ASSUME TypeInv, OneSeat, NEW s \in Site \cup {AllSites}, s \notin Room
  PROVE  LET whole == InventorySummary(s)
             parts == {InventorySummary(p) : p \in Parts(s)}
             lost == {r \in Room : DepartmentOf(LocationOf(r)) = NoSite}
         IN /\ UNION {p.users : p \in parts} = whole.users \ (IF s = AllSites THEN SeatedIn(lost) ELSE {})
            /\ UNION {p.equipment : p \in parts} = whole.equipment \ (IF s = AllSites THEN LiveIn(lost) ELSE {})
<1> DEFINE lost == {r \in Room : DepartmentOf(LocationOf(r)) = NoSite}
           missing == IF s = AllSites THEN lost ELSE {}
           rooms == ReportRooms(s) \ missing
<1>1. SiteTypeOK
  BY TypeInvParts DEF RowsOK
<1>2. \A p : ReportRooms(p) \subseteq Room
  BY DEF ReportRooms
<1>3. ASSUME NEW r \in Room PROVE r \in rooms <=> \E p \in Parts(s) : r \in ReportRooms(p)
  <2>1. CASE s = AllSites
    BY <1>1, <2>1, PartRooms DEF ReportRooms
  <2>2. CASE s # AllSites
    <3>1. s \in Department \/ s \in Location
      BY <2>2 DEF Site
    <3>2. r \in rooms <=> r \in ReportRooms(s)
      BY <2>2
    <3> QED BY <1>1, <3>1, <3>2, PartRooms
  <2> QED BY <2>1, <2>2
<1>4. \A r : r \in rooms <=> \E p \in Parts(s) : r \in ReportRooms(p)
  BY <1>2, <1>3
<1>5. /\ SeatedIn(rooms) = SeatedIn(ReportRooms(s)) \ SeatedIn(missing)
      /\ LiveIn(rooms) = LiveIn(ReportRooms(s)) \ LiveIn(missing)
  BY RoomsSplit
<1>6. SeatedIn({}) = {} /\ LiveIn({}) = {}
  BY DEF SeatedIn, LiveIn
<1>7. /\ SeatedIn(missing) = IF s = AllSites THEN SeatedIn(lost) ELSE {}
      /\ LiveIn(missing) = IF s = AllSites THEN LiveIn(lost) ELSE {}
  BY <1>6
<1>8. /\ InventorySummary(s).users = SeatedIn(ReportRooms(s))
      /\ InventorySummary(s).equipment = RoomChecked \cap LiveIn(ReportRooms(s))
  BY DEF InventorySummary
<1> HIDE DEF rooms, missing
<1>9. LET parts == {InventorySummary(p) : p \in Parts(s)} IN
      /\ UNION {p.users : p \in parts} = SeatedIn(rooms)
      /\ UNION {p.equipment : p \in parts} = RoomChecked \cap LiveIn(rooms)
  BY <1>4, PartsMakeUp
<1>10. RoomChecked \cap LiveIn(rooms) = (RoomChecked \cap LiveIn(ReportRooms(s))) \ LiveIn(missing)
  BY <1>5
<1> QED BY <1>5, <1>7, <1>8, <1>9, <1>10

LEMMA LevelsStep == TypeInv /\ OneSeat => LevelsAddUp
<1> SUFFICES ASSUME TypeInv, OneSeat PROVE LevelsAddUp
  OBVIOUS
<1>1. SiteTypeOK
  BY TypeInvParts DEF RowsOK
<1>2. /\ \A s \in Site : ReportRooms(s) = Below(s)
      /\ \A d \in Department : DepartmentRooms(d) = Below(d)
      /\ \A l \in Location : LocationRooms(l) = Below(l)
      /\ \A r \in Room : {r} = Below(r)
  BY <1>1, RoomsBelow, SiteAssumption DEF Below, ReportRooms
<1>3. \A rooms : /\ (RoomChecked \cap LiveIn(rooms)) \cup (Stock \cap LiveIn(rooms)) = LiveIn(rooms)
                 /\ LiveIn(rooms) \subseteq AnyIn(rooms)
  BY DEF LiveIn, AnyIn, IsLive, Stock
<1>4. ASSUME NEW s \in Site
      PROVE  /\ InventorySummary(s).users = SeatedIn(Below(s))
             /\ InventorySummary(s).equipment \cup InventorySummary(s).stock = LiveIn(Below(s))
             /\ AreaDashboard(s).equipment = Counts(RoomChecked \cap LiveIn(Below(s)))
             /\ AreaDashboard(s).stock = Cardinality(Stock \cap LiveIn(Below(s)))
  BY <1>2, <1>3 DEF InventorySummary, AreaDashboard, Below
<1>5. ASSUME NEW d \in Department
      PROVE  LET o == DepartmentOverview(d)  sum == InventorySummary(d)  area == AreaDashboard(d) IN
             /\ o = [users |-> DepartmentUsers(d), sites |-> DepartmentLocations(d),
                     assets |-> DepartmentEquipment(d) \cup DepartmentAccessories(d)]
             /\ area.equipment = DepartmentEquipmentDashboard(d)
             /\ area.stock = ConsumableDashboard(DepartmentRooms(d))
             /\ sum.users = o.users /\ sum.equipment \cup sum.stock = o.assets
  <2>1. d \in Site
    BY DEF Site
  <2>2. /\ DepartmentUsers(d) = SeatedIn(Below(d))
        /\ DepartmentEquipment(d) \cup DepartmentAccessories(d) = LiveIn(Below(d))
        /\ DepartmentEquipmentDashboard(d) = Counts(RoomChecked \cap LiveIn(Below(d)))
        /\ ConsumableDashboard(DepartmentRooms(d)) = Cardinality(Stock \cap LiveIn(Below(d)))
    BY <1>2, <1>3 DEF DepartmentUsers, DepartmentEquipment, DepartmentAccessories,
                      DepartmentEquipmentDashboard, ConsumableDashboard
  <2>3. DepartmentOverview(d) = [users |-> SeatedIn(Below(d)), sites |-> DepartmentLocations(d),
                                 assets |-> LiveIn(Below(d))]
    BY <2>1, InBelow DEF DepartmentOverview, DepartmentLocations
  <2> QED BY <1>4, <2>1, <2>2, <2>3
<1>6. ASSUME NEW l \in Location
      PROVE  LET o == LocationOverview(l)  sum == InventorySummary(l)  area == AreaDashboard(l) IN
             /\ o = [users |-> LocationUsers(l), sites |-> LocationRooms(l),
                     assets |-> LocationEquipment(l) \cup LocationConsumables(l)]
             /\ area.equipment = LocationEquipmentDashboard(l)
             /\ area.stock = AccessoryDashboard(LocationRooms(l)).total
             /\ sum.users = o.users /\ sum.equipment \cup sum.stock = o.assets
  <2>1. l \in Site
    BY DEF Site
  <2>2. /\ LocationUsers(l) = SeatedIn(Below(l))
        /\ LocationEquipment(l) \cup LocationConsumables(l) = LiveIn(Below(l))
        /\ LocationEquipmentDashboard(l) = Counts(RoomChecked \cap LiveIn(Below(l)))
        /\ AccessoryDashboard(LocationRooms(l)).total = Cardinality(Stock \cap LiveIn(Below(l)))
    BY <1>2, <1>3 DEF LocationUsers, LocationEquipment, LocationConsumables,
                      LocationEquipmentDashboard, AccessoryDashboard, Counts
  <2>3. LocationOverview(l) = [users |-> SeatedIn(Below(l)), sites |-> LocationRooms(l),
                               assets |-> LiveIn(Below(l))]
    BY <2>1, InBelow DEF LocationOverview, LocationRooms
  <2> QED BY <1>4, <2>1, <2>2, <2>3
<1>7. ASSUME NEW r \in Room
      PROVE  LET o == RoomOverview(r) IN
             /\ o.users = RoomUsers(r) /\ o.assets \subseteq RoomEquipment(r) \cup RoomAccessories(r)
             /\ RoomEquipmentDashboard(r).total = Cardinality(RoomChecked \cap SiteAssetReport(r))
  <2>1. RoomOverview(r).users = RoomUsers(r)
    BY SeatedMeans DEF RoomOverview, RoomUsers
  <2>2. RoomOverview(r).assets \subseteq RoomEquipment(r) \cup RoomAccessories(r)
    BY DEF RoomOverview, RoomEquipment, RoomAccessories, LiveIn, AnyIn, Stock, IsLive
  <2>3. AnyIn({r}) = SiteAssetReport(r)
    BY <1>2, InBelow DEF SiteAssetReport, Site
  <2>4. RoomEquipmentDashboard(r).total = Cardinality(RoomChecked \cap SiteAssetReport(r))
    BY <2>3 DEF RoomEquipmentDashboard, Counts
  <2> QED BY <2>1, <2>2, <2>4
<1> QED BY <1>5, <1>6, <1>7, WholeOfParts, RolesBelow DEF LevelsAddUp

LEMMA HoldingsStep == TypeInv /\ OneSeat /\ ActiveIsOwn => HoldingsAgree
<1> SUFFICES ASSUME TypeInv, OneSeat, ActiveIsOwn PROVE HoldingsAgree
  OBVIOUS
<1>1. SiteTypeOK
  BY TypeInvParts DEF RowsOK
<1>2. ASSUME NEW v \in User
      PROVE  /\ OwnAssets(v) = LiveAssetsOf(v)
             /\ OwnAssets(v) = OwnLists(v).equipment \cup OwnLists(v).stock
             /\ UserAssetStatus(v).has <=> OwnAssets(v) # {}
             /\ OwnOverview(v) = OwnProfile(v)
             /\ OwnOverview(v) = [equipment |-> UserAssetStatus(v).equipment, stock |-> UserAssetStatus(v).stock]
  <2>1. OwnAssets(v) = LiveAssetsOf(v)
    BY AssetAssumption DEF OwnAssets, EquipmentOf, StockOf, Equipment, Stock, LiveAssetsOf
  <2>2. EquipmentOf(v) = Equipment \cap LiveAssetsOf(v) /\ StockOf(v) = Stock \cap LiveAssetsOf(v)
    BY AssetAssumption DEF EquipmentOf, StockOf, Equipment, Stock, LiveAssetsOf
  <2>3. /\ {a \in Equipment : holder[a] = v /\ IsLive(a)} = EquipmentOf(v)
        /\ {a \in Stock : holder[a] = v /\ IsLive(a)} = StockOf(v)
    BY DEF EquipmentOf, StockOf
  <2>4. OwnOverview(v) = OwnProfile(v)
    BY <2>3 DEF OwnOverview, OwnProfile
  <2> QED BY <2>1, <2>2, <2>4 DEF OwnAssets, OwnLists, OwnOverview, UserAssetStatus
<1>3. ASSUME NEW v \in User, Actor(v).role # "none"
      PROVE  \E row \in RowsOf(v) : row.role = Actor(v).role
  <2>1. active[v] # NoRow
    BY <1>3 DEF Actor, Nobody
  <2>2. active[v] \in Row /\ Held(active[v]) /\ assignment[active[v]].user = v
    BY <2>1, TypeInvParts DEF RowsOK, ActiveHeld, ActiveIsOwn
  <2> QED BY <2>1, <2>2 DEF Actor, RowsOf
<1>4. ASSUME NEW v \in User, SeatsOf(v) # {}, LocationOf(RoomOf(v)) \in Location,
             NEW u \in User, Actor(u).scope = LocationOf(RoomOf(v))
      PROVE  CanAssignTo(Actor(u), v)
  <2>1. RoomOf(v) \in Room
    BY <1>4, SeatedRoom
  <2>2. Within(RoomOf(v), Actor(u).scope)
    BY <1>4, <2>1 DEF LocationOf, Within, Site
  <2> QED BY <1>4, <2>2 DEF CanAssignTo, Site
<1>5. ASSUME NEW u \in User, NEW v \in User
      PROVE  LET shown == UserAssets(u, v) IN
             /\ shown \subseteq OwnAssets(v)
             /\ \A a \in OwnAssets(v) :
                  /\ a \in shown => Finds(u, a)
                  /\ asset[a].room # NoSite => (a \in shown <=> CanAccessAsset(Actor(u), a))
             /\ UserProfile(u, v) = [equipment |-> Cardinality(UserEquipment(u, v)), stock |-> Cardinality(UserStock(u, v))]
             /\ \A s \in SeatsOf(v) : MayOpen(Actor(u), placement[s].room) => MayOpenUser(u, v)
  <2>1. OwnAssets(v) = LiveAssetsOf(v) /\ IsActor(Actor(u))
    BY <1>2, ActorIs
  <2>2. UserAssets(u, v) = AssetsShown(Actor(u), v)
    BY AssetAssumption DEF UserAssets, UserEquipment, UserStock, Equipment, Stock, AssetsShown, LiveAssetsOf
  <2>3. UserProfile(u, v) = [equipment |-> Cardinality(UserEquipment(u, v)), stock |-> Cardinality(UserStock(u, v))]
    BY <2>1, ShownIsCounted DEF UserProfile, UserEquipment, UserStock
  <2>4. ASSUME NEW a \in AssetsShown(Actor(u), v) PROVE a \in LiveAssetsOf(v) /\ Finds(u, a)
    BY DEF AssetsShown, Finds
  <2>5. ASSUME NEW a \in LiveAssetsOf(v), asset[a].room # NoSite
        PROVE  a \in AssetsShown(Actor(u), v) <=> CanAccessAsset(Actor(u), a)
    <3>1. a \in Asset /\ asset[a].room \in Room
      BY <2>5, TypeInvParts DEF OthersOK, AssetTypeOK, LiveAssetsOf, IsLive, IsAsset, AssetRow
    <3>2. a \in AssetsShown(Actor(u), v) <=> Reaches(Actor(u), asset[a].room)
      BY DEF AssetsShown, Reaches
    <3> QED BY <1>1, <2>1, <3>1, <3>2, ReachOfAssets
  <2>6. ASSUME NEW s \in SeatsOf(v), MayOpen(Actor(u), placement[s].room) PROVE MayOpenUser(u, v)
    <3>1. RoomOf(v) = placement[s].room /\ RoomOf(v) \in Room /\ RoomOf(v) # NoSite
      BY SeatedRoom, SiteAssumption DEF Site, Marker
    <3> QED BY <2>6, <3>1 DEF MayOpen, MayOpenRoom, MayOpenUser, CanAccessUser
  <2> QED BY <2>1, <2>2, <2>3, <2>4, <2>5, <2>6
<1>6. ASSUME NEW v \in User
      PROVE  LET sum == UserSummary(v) IN
             /\ sum.active # Nobody.role => \E row \in SummaryRoles(v) : row.role = sum.active
             /\ SummaryBuilds(v) /\ SeatsOf(v) # {} =>
                  \A u \in User : Actor(u).scope = sum.location => CanAssignTo(Actor(u), v)
  <2>1. UserSummary(v).active = Actor(v).role /\ UserSummary(v).location = LocationOf(RoomOf(v))
    BY DEF UserSummary
  <2>2. Nobody.role = "none"
    BY DEF Nobody
  <2> QED BY <1>3, <1>4, <2>1, <2>2 DEF SummaryRoles, SummaryBuilds
<1> QED BY <1>2, <1>5, <1>6 DEF HoldingsAgree

\* Whoever may open the page of a site may open everything on it, the levels of
\* the pages, dashboards and reports add up, and what users and others are told
\* of holdings is the same: in every state, with requests under way or without.
THEOREM PagesAgreeMeanwhile == Spec => [](PagesAdmitted /\ LevelsAddUp /\ HoldingsAgree)
<1>1. TypeInv /\ OneSeat /\ ActiveIsOwn => PagesAdmitted /\ LevelsAddUp /\ HoldingsAgree
  BY AdmittedStep, LevelsStep, HoldingsStep
<1> QED BY <1>1, TypeInvariant, SeatsInvariant, OwnersInvariant, PTL DEF SeatsInv, OwnersInv

\* The same between the requests: what the run checks.
THEOREM PagesAgreeAlways == Spec => []PagesAgree
<1>1. PagesAdmitted /\ LevelsAddUp /\ HoldingsAgree => PagesAgree
  BY DEF PagesAgree
<1> QED BY <1>1, PagesAgreeMeanwhile, PTL
=============================================================================
