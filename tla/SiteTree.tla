------------------------------ MODULE SiteTree ------------------------------
(***************************************************************************)
(* Departments, their locations and the rooms of those: the tree that      *)
(* roles are scoped by.  Moves and deletions change it while roles hang    *)
(* on it; a deleted parent leaves its children orphaned (SET_NULL).        *)
(***************************************************************************)
EXTENDS Naturals, FiniteSets

CONSTANTS Department, Location, Room,
          AllSites,                   \* the scope of SITE_ADMIN: no site
          NoSite, Unborn, Deleted     \* no parent; not created yet; deleted

Site == Department \cup Location \cup Room
Marker == {NoSite, Unborn, Deleted}

\* The level a site's parent has; departments have none.
Parents(s) ==
  CASE s \in Room -> Location [] s \in Location -> Department [] OTHER -> {}

ASSUME SiteAssumption ==
  /\ Department \cap Location = {} /\ Department \cap Room = {} /\ Location \cap Room = {}
  /\ AllSites \notin Site \cup Marker /\ Marker \cap Site = {}
  /\ NoSite # Unborn /\ NoSite # Deleted /\ Unborn # Deleted

VARIABLES
  parent,   \* of each site, or a marker
  under     \* every pair <<site, parent>> there has been (history)

siteVars == <<parent, under>>

Stands(s) == parent[s] \notin {Unborn, Deleted}

SiteTypeOK ==
  /\ DOMAIN parent = Site
  /\ \A s \in Site : parent[s] \in Parents(s) \cup Marker
  /\ under \subseteq Room \X Location \cup Location \X Department
  /\ \A s \in Site : parent[s] \in Site => Stands(parent[s]) /\ <<s, parent[s]>> \in under

SiteInit(tree) ==
  /\ parent = tree
  /\ \A s \in Site : parent[s] \in Site => Stands(parent[s])
  /\ under = {<<s, parent[s]>> : s \in {t \in Site : parent[t] \in Site}}

\* The Q filters over the tree: the site is a, or lies below it.
Within(s, a) ==
  /\ s \in Site
  /\ \/ s = a
     \/ parent[s] = a
     \/ parent[s] \in Site /\ parent[parent[s]] = a

\* The deletion of a site.
Remove(s) ==
  /\ parent' = [t \in Site |->
                 IF t = s THEN Deleted ELSE IF parent[t] = s THEN NoSite ELSE parent[t]]
  /\ UNCHANGED under

\* The save of a created, moved or renamed site: it may bring a site back that
\* was deleted since it was loaded, but its parent must stand.
Place(s, p) ==
  /\ p \in Site => Stands(p)
  /\ parent' = [parent EXCEPT ![s] = p]
  /\ under' = IF p \in Site THEN under \cup {<<s, p>>} ELSE under
=============================================================================
