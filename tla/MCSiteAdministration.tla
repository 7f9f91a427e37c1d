------------------------ MODULE MCSiteAdministration ------------------------
(***************************************************************************)
(* Instances of SiteAdministration for TLC: who has which role on a small    *)
(* tree, what the requests of the behaviour are about and how many there are. *)
(***************************************************************************)
EXTENDS SiteAdministration, TLC

CONSTANTS u1, u2, d1, d2, l1, l2, r1, r2, i1, i2, i3, e1, c1, p1, p2, p3

Grant(u, role, scope) == [user |-> u, role |-> role, scope |-> scope]
Sits(u, room) == [user |-> u, room |-> room, current |-> TRUE]

MCCode == {<<"rooms", "create">>, <<"departments", "update">>, <<"assets", "view">>}
MCCreator == u1 :> NoUser @@ u2 :> u1

\* Two departments, each with a location; the second one may not exist yet.
Tree(below) ==
  d1 :> NoSite @@ d2 :> NoSite @@ l1 :> d1 @@ l2 :> below @@ r1 :> l1
    @@ r2 :> IF below = d2 THEN l2 ELSE Unborn

Rows(a, b) == i1 :> a @@ i2 :> b @@ i3 :> Unborn

\* A scenario in which nothing but roles and sites exists.
Bare(topic, limit, below, a, b) ==
  [topics |-> topic, limit |-> limit, tree |-> Tree(below), rows |-> Rows(a, b),
   roles |-> u1 :> i1 @@ u2 :> i2,
   assets |-> [x \in Asset |-> Unborn], holders |-> [x \in Asset |-> NoUser],
   seats |-> [p \in Seat |-> Unborn], coverage |-> {}, manager |-> NoSite, granted |-> {}]

Chief == Grant(u1, "SITE_ADMIN", AllSites)

Governance ==
  {Bare({"roles", "sites"}, 2, d2, a, b) :
     a \in {Chief, Grant(u1, "DEPARTMENT_ADMIN", d1), Grant(u1, "LOCATION_ADMIN", l1)},
     b \in {Grant(u2, "DEPARTMENT_ADMIN", d1), Grant(u2, "DEPARTMENT_ADMIN", d2),
            Grant(u2, "LOCATION_ADMIN", l1), Grant(u2, "ROOM_ADMIN", r1)}}
  \cup {Bare({"roles", "sites"}, 3, Unborn, a, b) :
     a \in {Grant(u1, "DEPARTMENT_ADMIN", d1), Grant(u1, "LOCATION_ADMIN", l1)},
     b \in {Grant(u2, "LOCATION_ADMIN", l1), Grant(u2, "ROOM_ADMIN", r1)}}

\* Equipment in one room, the second user seated there, and an accessory that
\* may still have to be made.
Furnished(topic, limit, a, b, holding) ==
  LET row == [room |-> r1, deleted |-> FALSE] IN
  [Bare(topic, limit, d2, a, b) EXCEPT
     !.assets = e1 :> row @@ c1 :> IF "assets" \in topic THEN Unborn ELSE row,
     !.holders = e1 :> holding @@ c1 :> NoUser,
     !.seats = p1 :> Sits(u2, r1) @@ p2 :> Unborn @@ p3 :> Unborn]

Manager == Grant(u1, "LOCATION_ADMIN", l1)
Head == Grant(u2, "DEPARTMENT_ADMIN", d1)
Clerk == Grant(u2, "ROOM_CLERK", r1)

Custody ==
  {Furnished(t[1], 3, a, b, t[2]) :
     t \in {<<{"custody", "places"}, NoUser>>, <<{"custody", "places"}, u2>>,
            <<{"custody", "assets"}, NoUser>>, <<{"places", "sites"}, u2>>},
     a \in {Chief, Manager}, b \in {Head, Clerk}}

Agreements ==
  {[Furnished({"agreements", t}, 3, Chief, b, NoUser) EXCEPT !.coverage = c, !.manager = d1] :
     t \in {"sites", "assets"}, b \in {Head, Clerk}, c \in {{}, {l1}}}

Matrix ==
  {[Bare({"matrix"}, 2, d2, Chief, b) EXCEPT !.granted = g] :
     b \in {Grant(u2, "SITE_ADMIN", AllSites), Grant(u2, "LOCATION_ADMIN", l1)},
     g \in {{}, {<<"LOCATION_ADMIN", <<"rooms", "create">>>>}}}
  \cup {Bare({"matrix", "roles"}, 2, d2, Chief, Grant(u2, "LOCATION_ADMIN", l1))}

MCScenario == Governance \cup Custody \cup Agreements \cup Matrix
=============================================================================
