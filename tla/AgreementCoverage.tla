-------------------------- MODULE AgreementCoverage --------------------------
(***************************************************************************)
(* The sites that an agreement covers and the assets attached to it.  Both *)
(* are checked when they are read and inserted in a later step.  That an   *)
(* agreement covers a room is decided in five places, each its own way, on *)
(* trees that lose their inner nodes.  One agreement is modelled.          *)
(***************************************************************************)
EXTENDS AssetRecords

VARIABLES
  coverage,   \* the scopes of the AgreementCoverage rows; AllSites for GLOBAL
  item,       \* the assets of the AssetAgreementItem rows
  managing    \* AssetAgreement.managing_department

agreementVars == <<coverage, item, managing>>

AgreementRequest ==
       [op: {"cover"}, scope: Site \cup {AllSites}]
  \cup [op: {"attach"}, asset: Asset, above: SUBSET Site]

AgreementTypeOK ==
  /\ coverage \subseteq Site \cup {AllSites}
  /\ item \subseteq Asset
  /\ managing \in Department \cup {NoSite}

AgreementInit(scopes, manager) ==
  /\ coverage = scopes /\ \A s \in scopes \cap Site : Stands(s)
  /\ item = {}
  /\ managing = manager

-----------------------------------------------------------------------------
(* Which rooms are covered *)

LocationOf(r) == IF r \in Room THEN parent[r] ELSE NoSite
DepartmentOf(l) == IF l \in Location THEN parent[l] ELSE NoSite

BugCoversRoom(r) ==
  \/ AllSites \in coverage
  \/ \E s \in coverage : (s \in Room /\ s = r) \/ (s \in Location /\ s = LocationOf(r))

\* agreement_covers_room, which looks the hierarchy up first.
CoversRoom(r) ==
  LET l == LocationOf(r)  d == DepartmentOf(l) IN
  \/ AllSites \in coverage
  \/ \E s \in coverage : (s \in Room /\ s = r) \/ (s \in Location /\ s = l) \/ (s \in Department /\ s = d)

CanAttachAsset(a) == asset[a].room # NoSite /\ CoversRoom(asset[a].room)

\* is_asset_eligible; "above" is what the item's room was found to lie in.
IsAssetEligible(above) == above # {} /\ (AllSites \in coverage \/ coverage \cap above # {})

\* The agreements a user finds: those its department manages, and, where a
\* location has none, those nobody manages.
AgreementListed(actor) ==
  \/ actor.role = "SITE_ADMIN"
  \/ actor.scope \in Department /\ managing = actor.scope
  \/ actor.scope \in Location /\ managing = parent[actor.scope]
  \/ actor.scope \in Room /\ parent[actor.scope] \in Site /\ managing = parent[parent[actor.scope]]

\* The agreements offered for an asset.
Applicable(actor, a) ==
  /\ AgreementListed(actor) /\ asset[a].room # NoSite /\ a \notin item
  /\ \/ AllSites \in coverage
     \/ \E s \in coverage \cap Site : Within(asset[a].room, s)

\* A department that is null matches the rows that have none.
Unowned(l) == l \in Location /\ parent[l] = NoSite

\* The coverages, and the items with them, that are listed to a user.
CoverageListed(actor, s) ==
  \/ actor.role = "SITE_ADMIN"
  \/ s = AllSites /\ actor.scope # NoSite /\ (actor.scope \in Room => parent[actor.scope] \in Site)
  \/ actor.scope \in Department /\ s = actor.scope
  \/ actor.scope \in Location /\ s \in Above(actor.scope)
  \/ actor.scope \in Room /\ parent[actor.scope] \in Site /\ s \in Above(actor.scope)
  \/ s \notin Department /\ (Unowned(actor.scope) \/ Unowned(LocationOf(actor.scope)))

ItemsListed(actor) ==
  \/ \E s \in coverage : CoverageListed(actor, s)
  \/ coverage = {} /\ (Unowned(actor.scope) \/ Unowned(LocationOf(actor.scope)))

-----------------------------------------------------------------------------
(* Coverages and items *)

\* clean: GLOBAL stands alone, and nothing is added below what is covered.
MayCover(s) ==
  /\ s = AllSites => coverage = {}
  /\ s # AllSites => AllSites \notin coverage /\ s \notin coverage
  /\ s \in Location => parent[s] \notin coverage
  /\ s \in Room =>
       parent[s] \in Site /\ parent[s] \notin coverage /\ parent[parent[s]] \notin coverage

AskCover(u, s) ==
  /\ Ready(u, "agreements") /\ (s \in Site => Stands(s))
  /\ Actor(u).role \in {"SITE_ADMIN", "DEPARTMENT_ADMIN"}
  /\ MayCover(s)
  /\ Ask(u, [op |-> "cover", scope |-> s])
  /\ UNCHANGED <<assetVars, agreementVars>>

SaveCover(u) ==
  LET r == request[u] IN
  /\ r # Idle /\ r.op = "cover" /\ (r.scope \in Site => Stands(r.scope))
  /\ coverage' = coverage \cup {r.scope}
  /\ Done(u) /\ UNCHANGED <<siteVars, assignment, active, assetVars, item, managing>>

\* has_asset_custody_scope
HasCustodyScope(actor, a) ==
  \/ actor.role = "SITE_ADMIN"
  \/ actor.role \in RoomRole /\ actor.scope = asset[a].room
  \/ actor.role \in LocationRole /\ actor.scope = LocationOf(asset[a].room)
  \/ actor.role \in DepartmentRole /\ actor.scope = DepartmentOf(LocationOf(asset[a].room))

AskAttach(u, a) ==
  /\ Ready(u, "agreements") /\ IsAsset(a)
  /\ Actor(u).role \in Editor /\ HasCustodyScope(Actor(u), a)
  /\ CanAttachAsset(a) /\ a \notin item
  /\ Ask(u, [op |-> "attach", asset |-> a, above |-> Above(asset[a].room)])
  /\ UNCHANGED <<assetVars, agreementVars>>

\* The item is validated once more, with the room it was loaded with.
SaveAttach(u) ==
  LET r == request[u] IN
  /\ r # Idle /\ r.op = "attach"
  /\ IsAsset(r.asset) /\ r.asset \notin item /\ IsAssetEligible(r.above)
  /\ item' = item \cup {r.asset}
  /\ Done(u) /\ UNCHANGED <<siteVars, assignment, active, assetVars, coverage, managing>>

\* The deletion of a site, and of an asset.
CoverageLoses(s) ==
  /\ coverage' = coverage \ {s}
  /\ managing' = IF managing = s THEN NoSite ELSE managing
  /\ UNCHANGED item

ItemsLose ==
  /\ item' = {a \in item : asset'[a] # Deleted}
  /\ UNCHANGED <<coverage, managing>>

AgreementStep(u) ==
  \/ \E s \in Site \cup {AllSites} : AskCover(u, s)
  \/ \E a \in Asset : AskAttach(u, a)
  \/ SaveCover(u) \/ SaveAttach(u)

-----------------------------------------------------------------------------
(* What must hold *)

\* The places that decide whether an agreement covers a room agree, on every
\* tree that moves and deletions of sites leave: what is offered for an asset
\* may be attached, and the item is then valid; what may be attached is offered
\* to whoever finds the agreement; a coverage is only refused as redundant where
\* each room of its site is covered; and a room's people are listed the items
\* and coverages that cover their room.
CoverageAgrees ==
  /\ \A a \in Asset : IsAsset(a) =>
       /\ CanAttachAsset(a) <=> (asset[a].room # NoSite /\ IsAssetEligible(Above(asset[a].room)))
       /\ \A u \in User :
            Applicable(Actor(u), a) <=> (AgreementListed(Actor(u)) /\ CanAttachAsset(a) /\ a \notin item)
  /\ \A s \in Site : Stands(s) /\ (s \in Room => parent[s] \in Site) /\ ~MayCover(s) =>
       \A r \in Room : Within(r, s) => CoversRoom(r)
  /\ \A u \in User : Actor(u).scope \in Room /\ parent[Actor(u).scope] \in Site =>
       (CoversRoom(Actor(u).scope) => ItemsListed(Actor(u)))
=============================================================================
