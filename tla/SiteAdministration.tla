-------------------------- MODULE SiteAdministration --------------------------
(***************************************************************************)
(* The whole administration: roles, sites, assets, seats, agreements and   *)
(* the permission matrix on one tree.  A request of any kind decides on    *)
(* what it reads and saves later; what one part deletes cascades into the  *)
(* others.                                                                 *)
(***************************************************************************)
EXTENDS UserPages, PermissionMatrix

CONSTANT Scenario   \* bound: what behaviours start from, and what they are about

ASSUME ScenarioAssumption ==
  \A s \in Scenario :
    /\ s.limit \in Nat
    /\ DOMAIN s.tree = Site /\ \A t \in Site : s.tree[t] \in Parents(t) \cup Marker
    /\ s.rows \in [Row -> Assignment \cup {Unborn, Deleted}]
    /\ s.roles \in [User -> Row \cup {NoRow}]
    /\ s.assets \in [Asset -> AssetRow \cup {Unborn, Deleted}]
    /\ s.holders \in [Asset -> User \cup {NoUser}]
    /\ s.seats \in [Seat -> PlacementRow \cup {Unborn, Deleted}]
    /\ s.coverage \subseteq Site \cup {AllSites} /\ s.manager \in Department \cup {NoSite}
    /\ s.granted \subseteq AnyRole \X Code

vars == <<siteVars, roleVars, assetVars, placementVars, agreementVars, matrixVars>>

TypeOK ==
  /\ RoleTypeOK /\ AssetTypeOK /\ PlacementTypeOK /\ AgreementTypeOK /\ MatrixTypeOK
  /\ DOMAIN request = User
  /\ \A u \in User :
       \/ request[u] \in {Idle} \cup RoleRequest \cup AssetRequest \cup AgreementRequest
       \/ request[u] \in PlacementRequest \cup MatrixRequest

Init ==
  \E s \in Scenario :
    /\ topics = s.topics /\ left = s.limit
    /\ RoleInit(s.tree, s.rows, s.roles)
    /\ AssetInit(s.assets, s.holders)
    /\ PlacementInit(s.seats)
    /\ AgreementInit(s.coverage, s.manager)
    /\ MatrixInit(s.granted)

\* The deletion of a site reaches what hangs on it.
RemoveSite(u) ==
  /\ SaveRemove(u)
  /\ AssetsLose(request[u].site) /\ SeatsLose(request[u].site) /\ CoverageLoses(request[u].site)
  /\ UNCHANGED matrixVars

\* An asset leaves its agreement, and its holder, when it is deleted.
ChangeAsset(u) ==
  AssetStep(u) /\ RecordsChange /\ ItemsLose /\ UNCHANGED <<placement, matrixVars>>

Next ==
  \E u \in User :
    \/ RoleStep(u) /\ UNCHANGED <<assetVars, placementVars, agreementVars, matrixVars>>
    \/ RemoveSite(u)
    \/ ChangeAsset(u)
    \/ PlacementStep(u) /\ UNCHANGED <<agreementVars, matrixVars>>
    \/ AgreementStep(u) /\ UNCHANGED <<placementVars, matrixVars>>
    \/ MatrixStep(u) /\ UNCHANGED <<assetVars, placementVars, agreementVars>>

Spec == Init /\ [][Next]_vars

-----------------------------------------------------------------------------
(* What must hold *)

\* Authority only flows down: each assignment goes back to one that the system
\* started with, and what the matrix grants to a role may be granted to every
\* role that can assign it.
AuthorityFlowsDown == AuthorityIsFounded /\ GrantsStayBelow
=============================================================================
