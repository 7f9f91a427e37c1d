---------------------------- MODULE CacheProofs ----------------------------
(***************************************************************************)
(* Proofs about the two caches: ScopeCache and AnalyticsCache implement     *)
(* CachePromise.  What makes an entry good enough is the same in both: what *)
(* is kept under a key, now or later, is no older than the promise made to  *)
(* anybody who may look for that key, because a generation that has been    *)
(* drawn is never drawn again.                                              *)
(***************************************************************************)
EXTENDS ScopeCache, Sequences, FiniteSetTheorems, TLAPS

-----------------------------------------------------------------------------
(* The lists of sites: the inductive invariant.                            *)

Keys == [user: User, user_gen: Nat \ {0}, site_gen: Nat \ {0}, role: Roles]
Answers == UNION {[S -> Nat] : S \in SUBSET Source}
Requests ==
  [pc: {"idle", "get", "add", "again", "set", "lookup", "role", "rows", "store", "done"},
   user: User \cup {None}, role: Roles, of: Owners \cup {None},
   user_gen: Nat, site_gen: Nat, cached: BOOLEAN, role_read: Nat,
   answer: Answers \cup {None}]

Types ==
  /\ events \in 0 .. MaxEvents
  /\ db \in [Source -> 0 .. events]
  /\ floor \in [User -> [Source -> Nat]]
  /\ \A u \in User, s \in Source : floor[u][s] <= db[s]
  /\ gone \subseteq Role /\ active \in [User -> Roles \ gone]
  /\ pending \in [Owners -> 0 .. events] /\ gen \in [Owners -> Nat]
  /\ req \in [Request -> Requests] /\ asked = [q \in Request |-> asked[q]]

EntryTypes ==
  /\ IsFiniteSet(DOMAIN entries)
  /\ \A k \in DOMAIN entries :
       /\ k \in Keys
       /\ entries[k] \in [Needs(k.role) -> Nat]
       /\ \A s \in Needs(k.role) : entries[k][s] <= db[s]

\* A request that asks for a generation, of the user and then of the sites.
Asking(r) == r.pc \in {"get", "add", "again", "set"}

\* What a request is asked for lies between what it may be given at worst and
\* the versions of now, and an answer once made stays there.
Phase(q) ==
  LET r == req[q] IN
  /\ r.pc = "idle" => r = Idle /\ asked[q] = None
  /\ r.pc # "idle" =>
       /\ r.user \in User
       /\ asked[q] \in [Needs(r.role) -> Nat]
       /\ \A s \in Needs(r.role) : asked[q][s] <= floor[r.user][s]
  /\ Asking(r) =>
       /\ r.cached /\ r.of \in {r.user, "sites"}
       /\ r.of = "sites" => r.user_gen # 0
  /\ r.pc = "lookup" => r.cached
  /\ r.pc \in {"lookup", "role", "rows", "store"} /\ r.cached =>
       r.user_gen # 0 /\ r.site_gen # 0
  /\ r.pc = "rows" =>
       /\ r.role # None
       /\ asked[q][r.role] <= r.role_read /\ r.role_read <= db[r.role]
  /\ r.pc = "store" => r.cached
  /\ IF r.pc \in {"store", "done"}
     THEN /\ r.answer \in [Needs(r.role) -> Nat]
          /\ \A s \in Needs(r.role) : asked[q][s] <= r.answer[s] /\ r.answer[s] <= db[s]
     ELSE r.answer = None

\* The request may still look for the key.
Reaches(q, k) ==
  /\ req[q].user = k.user /\ req[q].role = k.role /\ req[q].user_gen = k.user_gen
  /\ \/ Asking(req[q]) /\ req[q].of = "sites" /\ k.site_gen = gen["sites"]
     \/ req[q].pc = "lookup" /\ k.site_gen = req[q].site_gen

Present(k) == k.user_gen = gen[k.user] /\ k.site_gen = gen["sites"]

\* What is found under the key, now or later, is good enough for everyone who
\* may look for it: for those to come as long as its generations are present.
Fresh(k, a) ==
  /\ Present(k) => \A s \in DOMAIN a : floor[k.user][s] <= a[s]
  /\ \A q \in Request : Reaches(q, k) => \A s \in DOMAIN a : asked[q][s] <= a[s]

\* What a request that is going to store something has read so far.
Builds(q) == req[q].cached /\ req[q].pc \in {"rows", "store"}
Part(q) == IF req[q].pc = "rows" THEN [s \in {req[q].role} |-> req[q].role_read]
           ELSE req[q].answer

EntriesFresh == \A k \in DOMAIN entries : Fresh(k, entries[k])
BuildsFresh == \A q \in Request : Builds(q) => Fresh(Key(q), Part(q))

ScopeInv ==
  /\ Types /\ EntryTypes
  /\ \A q \in Request : Phase(q)
  /\ EntriesFresh /\ BuildsFresh
-----------------------------------------------------------------------------
(* Generations.                                                            *)

\* Finitely many things hold a generation, so that another one is left.
LEMMA HeldFinite ==
  ASSUME ScopeInv, NEW g \in Owners
  PROVE  IsFiniteSet(Held(g)) /\ Held(g) \subseteq Nat
<1> USE DEF ScopeInv, Types, EntryTypes, Keys, Requests
<1> DEFINE ofKeys == IF g = "sites" THEN [k \in DOMAIN entries |-> k.site_gen]
                                    ELSE [k \in DOMAIN entries |-> k.user_gen]
           ofReqs == IF g = "sites" THEN [q \in Request |-> req[q].site_gen]
                                    ELSE [q \in Request |-> req[q].user_gen]
           K == {ofKeys[k] : k \in DOMAIN entries}
           Q == {ofReqs[q] : q \in Request}
<1>1. IsFiniteSet(K)
  <2>1. ofKeys \in Surjection(DOMAIN entries, K)  BY DEF Surjection
  <2>2. QED BY <2>1, FS_Surjection
<1>2. IsFiniteSet(Q)
  <2>1. ofReqs \in Surjection(Request, Q)  BY DEF Surjection
  <2>2. QED BY <2>1, FS_Surjection, CacheAssumption
<1>3. IsFiniteSet({gen[g]})  BY FS_Singleton
<1>4. Held(g) = {gen[g]} \cup K \cup Q
  <2>1. CASE g = "sites"
    <3>1. K = {k.site_gen : k \in DOMAIN entries} /\ Q = {req[q].site_gen : q \in Request}
      BY <2>1
    <3>2. QED BY <2>1, <3>1, Zenon DEF Held
  <2>2. CASE g # "sites"
    <3>1. K = {k.user_gen : k \in DOMAIN entries} /\ Q = {req[q].user_gen : q \in Request}
      BY <2>2
    <3>2. QED BY <2>2, <3>1, Zenon DEF Held
  <2>3. QED BY <2>1, <2>2
<1>5. IsFiniteSet(Held(g))
  <2> HIDE DEF K, Q
  <2>1. IsFiniteSet({gen[g]} \cup K)  BY <1>1, <1>3, FS_Union
  <2>2. IsFiniteSet(({gen[g]} \cup K) \cup Q)  BY <2>1, <1>2, FS_Union
  <2>3. QED BY <2>2, <1>4
<1>6. K \subseteq Nat
  <2> SUFFICES ASSUME NEW k \in DOMAIN entries PROVE ofKeys[k] \in Nat
    OBVIOUS
  <2>1. k.site_gen \in Nat /\ k.user_gen \in Nat
    <3> HIDE DEF ofKeys
    <3>1. QED OBVIOUS
  <2>2. ofKeys[k] = IF g = "sites" THEN k.site_gen ELSE k.user_gen
    OBVIOUS
  <2> HIDE DEF ofKeys
  <2>3. QED BY <2>1, <2>2
<1>7. Q \subseteq Nat
  OBVIOUS
<1>8. QED BY <1>4, <1>5, <1>6, <1>7

LEMMA UuidIsNew ==
  ASSUME ScopeInv, NEW g \in Owners
  PROVE  Uuid(g) \in Nat \ {0} /\ Uuid(g) \notin Held(g)
<1> DEFINE c == Cardinality(Held(g))
           I == 1 .. c + 1
<1>1. IsFiniteSet(Held(g)) /\ c \in Nat  BY HeldFinite, FS_CardinalityType
<1>2. IsFiniteSet(I) /\ Cardinality(I) = c + 1  BY <1>1, FS_Interval
<1>3. ~ (I \subseteq Held(g))
  BY <1>1, <1>2, FS_Subset
<1>4. \E n \in I : n \notin Held(g)  BY <1>3
<1>5. Uuid(g) \in I /\ Uuid(g) \notin Held(g)  BY <1>4 DEF Uuid
<1>6. QED BY <1>1, <1>5
-----------------------------------------------------------------------------
(* The steps.                                                              *)

\* What is stored, and what is about to be, has a key of generations in use.
Known(k) == k \in DOMAIN entries \/ \E q \in Request : Builds(q) /\ k = Key(q)

LEMMA KnownKeys ==
  ASSUME ScopeInv, NEW k, Known(k)
  PROVE  k \in Keys /\ k.user_gen \in Held(k.user) /\ k.site_gen \in Held("sites")
<1> USE DEF ScopeInv, Types, EntryTypes, Owners
<1>1. CASE k \in DOMAIN entries
  <2>1. k \in Keys  BY <1>1
  <2>2. QED BY <1>1, <2>1, CacheAssumption DEF Held, Keys
<1>2. ASSUME NEW q \in Request, Builds(q), k = Key(q) PROVE k \in Keys /\ k.user_gen \in Held(k.user) /\ k.site_gen \in Held("sites")
  <2>1. req[q] \in Requests /\ Phase(q) /\ req[q].user \in User
    BY <1>2 DEF Builds, Phase
  <2>2. k \in Keys
    BY <1>2, <2>1 DEF Builds, Phase, Key, Keys, Requests
  <2>3. k.user_gen = req[q].user_gen /\ k.site_gen = req[q].site_gen /\ k.user # "sites"
    BY <1>2, <2>2, CacheAssumption DEF Key, Keys
  <2>4. QED BY <2>2, <2>3 DEF Held
<1>3. QED BY <1>1, <1>2 DEF Known

\* A step keeps a key fresh if its generations are present after it only if they
\* were before, and if who may look for it now could before, or is content with
\* what its user may be given at worst.
LEMMA FreshStays ==
  ASSUME NEW k, NEW a, Fresh(k, a),
         Present(k)' => Present(k) /\ floor'[k.user] = floor[k.user],
         \A q \in Request : Reaches(q, k)' =>
           \/ Reaches(q, k) /\ asked'[q] = asked[q]
           \/ /\ Present(k)
              /\ \A s \in DOMAIN a : a[s] \in Nat /\ floor[k.user][s] \in Nat
              /\ \A s \in DOMAIN a : asked'[q][s] \in Nat /\ asked'[q][s] <= floor[k.user][s]
  PROVE  Fresh(k, a)'
<1>1. ASSUME Present(k)' PROVE \A s \in DOMAIN a : floor'[k.user][s] <= a[s]
  BY <1>1 DEF Fresh
<1>2. ASSUME NEW q \in Request, Reaches(q, k)' PROVE \A s \in DOMAIN a : asked'[q][s] <= a[s]
  <2>1. CASE Reaches(q, k) /\ asked'[q] = asked[q]
    BY <2>1 DEF Fresh
  <2>2. CASE ~ (Reaches(q, k) /\ asked'[q] = asked[q])
    <3>1. /\ \A s \in DOMAIN a : a[s] \in Nat /\ floor[k.user][s] \in Nat
          /\ \A s \in DOMAIN a : asked'[q][s] \in Nat /\ asked'[q][s] <= floor[k.user][s]
          /\ \A s \in DOMAIN a : floor[k.user][s] <= a[s]
      BY <1>2, <2>2 DEF Fresh
    <3>2. QED BY <3>1
  <2>3. QED BY <2>1, <2>2
<1>3. QED BY <1>1, <1>2 DEF Fresh

LEMMA NeedsAreSources ==
  ASSUME NEW e \in Roles
  PROVE  /\ Needs(e) \subseteq Source
         /\ \A a \in [Needs(e) -> Nat] : a \in Answers
<1>1. Needs(e) \subseteq Source  BY DEF Needs, Source, Roles
<1>2. ASSUME NEW a \in [Needs(e) -> Nat] PROVE a \in Answers
  <2>1. Needs(e) \in SUBSET Source  BY <1>1
  <2>2. QED BY <2>1, Zenon DEF Answers
<1>3. QED BY <1>1, <1>2

\* Keys and what is built for them, of the requests that a step leaves alone.
LEMMA OthersBuild ==
  ASSUME NEW q \in Request, req'[q] = req[q]
  PROVE  /\ Builds(q)' <=> Builds(q)
         /\ Key(q)' = Key(q) /\ Part(q)' = Part(q)
BY DEF Builds, Key, Part

\* What is stored anew is what the request has made.
Stores(q) ==
  /\ IsFiniteSet(DOMAIN entries')
  /\ \A k \in DOMAIN entries' :
       \/ k \in DOMAIN entries /\ entries'[k] = entries[k]
       \/ req[q].pc = "store" /\ k = Key(q) /\ entries'[k] = req[q].answer
-----------------------------------------------------------------------------
(* The steps of a request.                                                 *)

\* A request goes on, or starts, and may store its answer; nothing else changes.
LEMMA RequestStep ==
  ASSUME ScopeInv, NEW q \in Request, NEW x \in Requests,
         req' = [req EXCEPT ![q] = x],
         UNCHANGED <<db, active, gone, pending, gen, events, floor>>,
         UNCHANGED entries \/ Stores(q),
         asked' = [asked EXCEPT ![q] = asked'[q]],
         Phase(q)',
         \A k \in Keys : Reaches(q, k)' =>
            /\ Reaches(q, k) \/ Present(k)
            /\ x.pc # "idle" /\ x.user = k.user /\ x.role = k.role
            /\ req[q].pc # "idle" /\ asked'[q] = asked[q],
         Builds(q)' => Fresh(Key(q), Part(q))'
  PROVE  ScopeInv'
<1> USE DEF ScopeInv
<1>1. Types'
  <2>1. req' \in [Request -> Requests]  BY DEF Types
  <2>2. QED BY <2>1 DEF Types
<1> DEFINE New(k) == req[q].pc = "store" /\ k = Key(q) /\ entries'[k] = req[q].answer
<1>2. ASSUME NEW k \in DOMAIN entries'
      PROVE  \/ k \in DOMAIN entries /\ entries'[k] = entries[k]
             \/ New(k) /\ Builds(q) /\ Part(q) = entries'[k] /\ Known(k)
  <2>1. \/ k \in DOMAIN entries /\ entries'[k] = entries[k]
        \/ New(k)
    BY DEF Stores
  <2>2. req[q].pc = "store" => Builds(q) /\ Part(q) = req[q].answer
    BY DEF Phase, Builds, Part
  <2>3. QED BY <2>1, <2>2 DEF Known
<1>8. EntryTypes'
  <2>1. IsFiniteSet(DOMAIN entries')  BY DEF EntryTypes, Stores
  <2>2. ASSUME NEW k \in DOMAIN entries'
        PROVE  /\ k \in Keys
               /\ entries'[k] \in [Needs(k.role) -> Nat]
               /\ \A s \in Needs(k.role) : entries'[k][s] <= db[s]
    <3>1. CASE k \in DOMAIN entries /\ entries'[k] = entries[k]
      BY <3>1 DEF EntryTypes
    <3>2. CASE New(k) /\ Known(k)
      <4>1. k \in Keys /\ k.role = req[q].role  BY <3>2, KnownKeys DEF Key
      <4>2. QED BY <3>2, <4>1 DEF Phase
    <3>3. QED BY <1>2, <3>1, <3>2
  <2>3. QED BY <2>1, <2>2 DEF EntryTypes
<1>3. ASSUME NEW p \in Request PROVE Phase(p)'
  <2>1. CASE p # q
    <3>1. req'[p] = req[p] /\ asked'[p] = asked[p]  BY <2>1 DEF Types
    <3>2. QED BY <3>1 DEF Phase
  <2>2. QED BY <2>1
<1>4. ASSUME NEW k \in Keys, NEW a, a \in [DOMAIN a -> Nat], DOMAIN a \subseteq Needs(k.role), Fresh(k, a)
      PROVE  Fresh(k, a)'
  <2>1. Present(k)' => Present(k) /\ floor'[k.user] = floor[k.user]
    BY DEF Present
  <2>2. ASSUME NEW p \in Request, Reaches(p, k)'
        PROVE  \/ Reaches(p, k) /\ asked'[p] = asked[p]
               \/ /\ Present(k)
                  /\ \A s \in DOMAIN a : a[s] \in Nat /\ floor[k.user][s] \in Nat
                  /\ \A s \in DOMAIN a : asked'[p][s] \in Nat /\ asked'[p][s] <= floor[k.user][s]
    <3>1. CASE p # q
      <4>1. req'[p] = req[p] /\ asked'[p] = asked[p]  BY <3>1 DEF Types
      <4>2. QED BY <4>1, <2>2 DEF Reaches
    <3>2. CASE p = q /\ Reaches(q, k)
      BY <3>2, <2>2
    <3>3. CASE p = q /\ ~ Reaches(q, k)
      <4>1. /\ Present(k) /\ x.user = k.user /\ x.role = k.role /\ x.pc # "idle"
            /\ req'[q] = x
        BY <3>3, <2>2 DEF Types
      <4>2. /\ asked'[q] \in [Needs(k.role) -> Nat]
            /\ \A s \in Needs(k.role) : asked'[q][s] <= floor[k.user][s]
        BY <4>1 DEF Phase
      <4>3. \A s \in Needs(k.role) : s \in Source
        BY DEF Needs, Keys, Source, Roles
      <4>4. \A s \in Needs(k.role) : floor[k.user][s] \in Nat
        BY <4>3 DEF Types, Keys
      <4>5. QED BY <4>1, <4>2, <4>4, <3>3, <1>4
    <3>4. QED BY <3>1, <3>2, <3>3
  <2>3. QED BY <2>1, <2>2, <1>4, FreshStays
<1>5. EntriesFresh'
  <2>1. ASSUME NEW k \in DOMAIN entries' PROVE Fresh(k, entries[k])'
    <3>1. PICK a : a = entries'[k]  OBVIOUS
    <3>2. /\ k \in Keys /\ a \in [DOMAIN a -> Nat] /\ DOMAIN a = Needs(k.role)
      BY <1>8, <3>1 DEF EntryTypes
    <3>3. Fresh(k, a)
      <4>1. CASE k \in DOMAIN entries /\ entries'[k] = entries[k]
        BY <3>1, <4>1 DEF EntriesFresh
      <4>2. CASE New(k) /\ Builds(q) /\ Part(q) = entries'[k]
        BY <3>1, <4>2 DEF BuildsFresh
      <4>3. QED BY <1>2, <4>1, <4>2
    <3>4. Fresh(k, a)'  BY <3>2, <3>3, <1>4
    <3>5. QED BY <3>4, <3>1 DEF Fresh
  <2>2. QED BY <2>1 DEF EntriesFresh
<1>6. BuildsFresh'
  <2>1. ASSUME NEW p \in Request, Builds(p)', p # q PROVE Fresh(Key(p), Part(p))'
    <3>1. req'[p] = req[p]  BY <2>1 DEF Types
    <3>2. Builds(p) /\ Key(p)' = Key(p) /\ Part(p)' = Part(p)
      BY <3>1, <2>1, OthersBuild
    <3>3. PICK k, a : k = Key(p) /\ a = Part(p)  OBVIOUS
    <3>4. k \in Keys  BY <3>2, <3>3, KnownKeys DEF Known
    <3>5. Fresh(k, a)  BY <3>2, <3>3 DEF BuildsFresh
    <3>6. a \in [DOMAIN a -> Nat] /\ DOMAIN a \subseteq Needs(k.role)
      BY <3>2, <3>3 DEF Types, Phase, Builds, Part, Requests, Key, Needs
    <3>7. Fresh(k, a)'  BY <3>4, <3>5, <3>6, <1>4
    <3>8. QED BY <3>7, <3>3, <3>2 DEF Fresh
  <2>2. QED BY <2>1 DEF BuildsFresh
<1>7. QED BY <1>1, <1>8, <1>3, <1>5, <1>6

\* Taking generations.
LEMMA AuthenticateStep ==
  ASSUME ScopeInv, NEW q \in Request, NEW u \in User, Authenticate(q, u)
  PROVE  ScopeInv'
<1> USE DEF ScopeInv
<1> DEFINE x == [Idle EXCEPT !.pc = "get", !.of = u, !.user = u, !.role = active[u]]
<1>1. req[q].pc = "idle" /\ active[u] \in Roles
  BY DEF Authenticate, Types
<1>2. x \in Requests
  BY <1>1 DEF Idle, Requests, Owners
<1>3. req' = [req EXCEPT ![q] = x] /\ req'[q] = x
  BY DEF Authenticate, Put, Types
<1>4. /\ UNCHANGED <<db, active, gone, pending, gen, entries, events, floor>>
      /\ asked' = [asked EXCEPT ![q] = [s \in Needs(active[u]) |-> floor[u][s]]]
      /\ asked'[q] = [s \in Needs(active[u]) |-> floor[u][s]]
  BY DEF Authenticate, stored, Types
<1>5. /\ x.pc = "get" /\ x.user = u /\ x.role = active[u] /\ x.of = u
      /\ x.cached /\ x.answer = None /\ x.user_gen = 0
  BY DEF Idle
<1> HIDE DEF x
<1>6. Phase(q)'
  <2>1. \A s \in Needs(active[u]) : floor[u][s] \in Nat
    BY <1>1 DEF Needs, Types, Source, Roles
  <2>2. u # "sites"  BY CacheAssumption
  <2>3. asked'[q] \in [Needs(x.role) -> Nat] /\ \A s \in Needs(x.role) : asked'[q][s] <= floor[u][s]
    BY <1>4, <1>5, <2>1
  <2>4. QED BY <1>3, <1>4, <1>5, <2>2, <2>3 DEF Phase, Asking
<1>7. \A k \in Keys : ~ Reaches(q, k)'
  BY <1>3, <1>5 DEF Reaches, Keys
<1>8. ~ Builds(q)'
  BY <1>3, <1>5 DEF Builds
<1>9. QED BY <1>2, <1>3, <1>4, <1>6, <1>7, <1>8, RequestStep

LEMMA ReadGenerationStep ==
  ASSUME ScopeInv, NEW q \in Request, ReadGeneration(q)
  PROVE  ScopeInv'
<1> USE DEF ScopeInv
<1> DEFINE r == req[q]
           g == gen[r.of]
           x == IF g # 0
                THEN IF r.of = "sites" THEN [r EXCEPT !.site_gen = g, !.pc = "lookup"]
                     ELSE [r EXCEPT !.user_gen = g, !.pc = "get", !.of = "sites"]
                ELSE [r EXCEPT !.pc = IF r.pc = "get" THEN "add" ELSE "set"]
<1>1. /\ r \in Requests /\ r.pc \in {"get", "again"} /\ Phase(q) /\ asked[q] = asked'[q]
      /\ r.of \in {r.user, "sites"} /\ r.user \in User /\ r.user # "sites" /\ g \in Nat
      /\ r.cached
  BY CacheAssumption DEF ReadGeneration, Types, Phase, Asking, Owners
<1>2. x \in Requests
  BY <1>1 DEF Requests, Owners
<1>3. req' = [req EXCEPT ![q] = x] /\ req'[q] = x
  BY <1>1 DEF ReadGeneration, Put, Take, Go, Types
<1>4. UNCHANGED <<db, active, gone, pending, gen, entries, events, floor, asked>>
  BY DEF ReadGeneration, stored
<1>5. Phase(q)'
  BY <1>1, <1>3, <1>4 DEF Phase, Asking, Requests
<1>6. ASSUME NEW k \in Keys, Reaches(q, k)'
      PROVE  /\ Reaches(q, k) \/ Present(k)
             /\ x.pc # "idle" /\ x.user = k.user /\ x.role = k.role
             /\ r.pc # "idle" /\ asked'[q] = asked[q]
  BY <1>1, <1>3, <1>4, <1>6 DEF Reaches, Present, Asking, Requests, Keys
<1>7. ~ Builds(q)'
  BY <1>1, <1>3 DEF Builds, Requests
<1>8. asked' = [asked EXCEPT ![q] = asked'[q]]
  BY <1>4 DEF Types
<1>9. QED BY <1>1, <1>2, <1>3, <1>4, <1>5, <1>6, <1>7, <1>8, RequestStep

\* A generation is made anew, perhaps by a request that takes it.
NewGeneration(q, g, n) ==
  /\ g \in Owners /\ n \in Nat \ {0} /\ n \notin Held(g)
  /\ gen' = [gen EXCEPT ![g] = n]
  /\ UNCHANGED <<db, active, gone, entries, events, asked>>
  /\ pending' \in [Owners -> 0 .. events]
  /\ floor' \in [User -> [Source -> Nat]]
  /\ \A u \in User, s \in Source : floor[u][s] <= floor'[u][s] /\ floor'[u][s] <= db[s]
  /\ \A u \in User : u \notin Renewed(g) => floor'[u] = floor[u]
  /\ req' \in [Request -> Requests]
  /\ \A p \in Request : req'[p] # req[p] => p = q
  /\ q \in Request /\ req'[q] # req[q] =>
       /\ req'[q].pc \in {"get", "lookup"} /\ Phase(q)'
       /\ req'[q].pc = "lookup" => g = "sites" /\ req'[q].site_gen = n
       /\ req'[q].pc = "get" => req'[q].user = g /\ req'[q].user_gen = n

\* Nothing that is stored, or about to be, has the new generation; and whoever
\* takes it finds nothing old.
LEMMA RenewStep ==
  ASSUME ScopeInv, NEW q, NEW g, NEW n, NewGeneration(q, g, n)
  PROVE  ScopeInv'
<1> USE DEF NewGeneration, ScopeInv
<1> DEFINE Same(p) == req'[p] = req[p]
<1>1. Types'
  BY DEF Types, Owners
<1>2. EntryTypes'  BY DEF EntryTypes
<1>3. ASSUME NEW p \in Request PROVE Phase(p)'
  <2>1. CASE Same(p)
    <3>1. Needs(req[p].role) \subseteq Source
      BY DEF Types, Requests, Needs, Source, Roles
    <3>2. ASSUME req[p].pc # "idle", NEW s \in Needs(req[p].role)
          PROVE  asked[p][s] <= floor'[req[p].user][s]
      <4>1. /\ req[p].user \in User /\ s \in Source
            /\ asked[p][s] \in Nat /\ asked[p][s] <= floor[req[p].user][s]
        BY <3>1, <3>2 DEF Phase
      <4>2. QED BY <4>1 DEF Types
    <3>3. QED BY <2>1, <3>2 DEF Phase
  <2>2. QED BY <2>1
<1>4. ASSUME NEW k, Known(k), NEW a, Fresh(k, a) PROVE Fresh(k, a)'
  <2>1. /\ k \in Keys /\ k.user_gen \in Held(k.user) /\ k.site_gen \in Held("sites")
        /\ k.user \in User
    BY <1>4, KnownKeys DEF Keys
  <2>2. Present(k)' => Present(k) /\ floor'[k.user] = floor[k.user]
    <3>1. CASE g = "sites"
      <4>1. gen'["sites"] = n /\ k.site_gen # n  BY <3>1, <2>1 DEF Types
      <4>2. QED BY <4>1 DEF Present
    <3>2. CASE g # "sites" /\ k.user = g
      <4>1. gen'[k.user] = n /\ k.user_gen # n  BY <3>2, <2>1 DEF Types
      <4>2. QED BY <4>1 DEF Present
    <3>3. CASE g # "sites" /\ k.user # g
      <4>1. gen'[k.user] = gen[k.user] /\ gen'["sites"] = gen["sites"]
        BY <3>3, <2>1 DEF Types, Owners
      <4>2. k.user \notin Renewed(g)  BY <3>3 DEF Renewed
      <4>3. QED BY <4>1, <4>2, <2>1 DEF Present
    <3>4. QED BY <3>1, <3>2, <3>3
  <2>3. ASSUME NEW p \in Request, Reaches(p, k)' PROVE Reaches(p, k) /\ asked'[p] = asked[p]
    <3>1. CASE Same(p)
      <4>1. CASE g = "sites"
        <5>1. gen'["sites"] = n /\ k.site_gen # n  BY <4>1, <2>1 DEF Types
        <5>2. QED BY <5>1, <2>3, <3>1 DEF Reaches
      <4>2. CASE g # "sites"
        <5>1. gen'["sites"] = gen["sites"]  BY <4>2 DEF Types, Owners
        <5>2. QED BY <5>1, <2>3, <3>1 DEF Reaches
      <4>3. QED BY <4>1, <4>2
    <3>2. CASE ~ Same(p) /\ req'[p].pc = "lookup"
      BY <3>2, <2>1, <2>3 DEF Reaches, Asking
    <3>3. CASE ~ Same(p) /\ req'[p].pc = "get"
      BY <3>3, <2>1, <2>3 DEF Reaches, Asking
    <3>4. QED BY <3>1, <3>2, <3>3
  <2>4. QED BY <2>2, <2>3, <1>4, FreshStays
<1>5. EntriesFresh'
  <2>1. ASSUME NEW k \in DOMAIN entries PROVE Fresh(k, entries[k])'
    <3>1. PICK a : a = entries[k]  OBVIOUS
    <3>2. Fresh(k, a)'  BY <3>1, <1>4 DEF Known, EntriesFresh
    <3>3. QED BY <3>1, <3>2 DEF Fresh
  <2>2. QED BY <2>1 DEF EntriesFresh
<1>6. BuildsFresh'
  <2>1. ASSUME NEW p \in Request, Builds(p)' PROVE Fresh(Key(p), Part(p))'
    <3>1. Same(p)  BY <2>1 DEF Builds
    <3>2. Builds(p) /\ Key(p)' = Key(p) /\ Part(p)' = Part(p)
      BY <3>1, <2>1, OthersBuild
    <3>3. PICK k, a : k = Key(p) /\ a = Part(p)  OBVIOUS
    <3>4. Fresh(k, a)'  BY <3>2, <3>3, <1>4 DEF Known, BuildsFresh
    <3>5. QED BY <3>2, <3>3, <3>4 DEF Fresh
  <2>2. QED BY <2>1 DEF BuildsFresh
<1>7. QED BY <1>1, <1>2, <1>3, <1>5, <1>6

LEMMA TakeNewStep ==
  ASSUME ScopeInv, NEW q \in Request,
         AddGeneration(q) \/ SetGeneration(q)
  PROVE  ScopeInv'
<1> USE DEF ScopeInv
<1> DEFINE r == req[q]
           g == r.of
           n == Uuid(g)
           x == IF g = "sites" THEN [r EXCEPT !.site_gen = n, !.pc = "lookup"]
                ELSE [r EXCEPT !.user_gen = n, !.pc = "get", !.of = "sites"]
<1>1. /\ r \in Requests /\ r.pc \in {"add", "set"} /\ Phase(q)
      /\ g \in {r.user, "sites"} /\ r.user \in User /\ r.user # "sites" /\ g \in Owners
      /\ r.cached
  BY CacheAssumption DEF AddGeneration, SetGeneration, Types, Phase, Asking, Owners
<1>2. UNCHANGED <<db, active, gone, pending, entries, events, floor, asked>>
  BY DEF AddGeneration, SetGeneration
<1>3. CASE gen[g] = 0 \/ r.pc = "set"
  <2>1. n \in Nat \ {0} /\ n \notin Held(g)
    BY <1>1, UuidIsNew
  <2>2. x \in Requests
    BY <1>1, <2>1 DEF Requests, Owners
  <2>3. gen' = [gen EXCEPT ![g] = n] /\ gen'[g] = n
    BY <1>1, <1>3 DEF AddGeneration, SetGeneration, Renew, Types
  <2>4. req' = [req EXCEPT ![q] = x] /\ req'[q] = x
    BY <1>1, <1>3, <2>3 DEF AddGeneration, SetGeneration, Put, Take, Types
  <2>5. /\ Phase(q)' /\ x.pc \in {"get", "lookup"}
        /\ x.pc = "lookup" => g = "sites" /\ x.site_gen = n
        /\ x.pc = "get" => x.user = g /\ x.user_gen = n
    <3>1. CASE g = "sites"
      <4>1. x = [r EXCEPT !.site_gen = n, !.pc = "lookup"]  BY <3>1
      <4>2. QED BY <1>1, <1>2, <2>1, <2>4, <3>1, <4>1 DEF Phase, Asking, Requests
    <3>2. CASE g # "sites"
      <4>1. x = [r EXCEPT !.user_gen = n, !.pc = "get", !.of = "sites"]  BY <3>2
      <4>2. QED BY <1>1, <1>2, <2>1, <2>4, <3>2, <4>1 DEF Phase, Asking, Requests
    <3>3. QED BY <3>1, <3>2
  <2>6. req' \in [Request -> Requests] /\ \A p \in Request : req'[p] # req[p] => p = q
    BY <2>2, <2>4 DEF Types
  <2>7. /\ pending' \in [Owners -> 0 .. events]
        /\ floor' \in [User -> [Source -> Nat]]
        /\ \A u \in User, s \in Source : floor[u][s] <= floor'[u][s] /\ floor'[u][s] <= db[s]
        /\ \A u \in User : u \notin Renewed(g) => floor'[u] = floor[u]
    BY <1>2 DEF Types
  <2>8. UNCHANGED <<db, active, gone, entries, events, asked>>  BY <1>2
  <2>9. g \in Owners  BY <1>1
  <2>10. NewGeneration(q, g, n)
    <3> HIDE DEF x, n, g
    <3>1. QED BY <2>1, <2>3, <2>4, <2>5, <2>6, <2>7, <2>8, <2>9 DEF NewGeneration
  <2>11. QED BY <2>10, RenewStep
<1>4. CASE gen[g] # 0 /\ r.pc = "add"
  <2> DEFINE y == [r EXCEPT !.pc = "again"]
  <2>1. y \in Requests  BY <1>1 DEF Requests
  <2>2. req' = [req EXCEPT ![q] = y] /\ req'[q] = y /\ gen' = gen
    BY <1>1, <1>4 DEF AddGeneration, SetGeneration, Go, Put, Types
  <2>3. Phase(q)'
    BY <1>1, <1>2, <1>4, <2>2 DEF Phase, Asking, Requests
  <2>4. \A k \in Keys : Reaches(q, k)' =>
          /\ Reaches(q, k) \/ Present(k)
          /\ y.pc # "idle" /\ y.user = k.user /\ y.role = k.role
          /\ r.pc # "idle" /\ asked'[q] = asked[q]
    BY <1>1, <1>2, <1>4, <2>2 DEF Reaches, Asking, Requests
  <2>5. ~ Builds(q)'  BY <1>1, <2>2 DEF Builds, Requests
  <2>6. asked' = [asked EXCEPT ![q] = asked'[q]]  BY <1>2 DEF Types
  <2>7. QED BY <1>2, <2>1, <2>2, <2>3, <2>4, <2>5, <2>6, RequestStep
<1>5. QED BY <1>1, <1>3, <1>4

LEMMA InvalidateStep ==
  ASSUME ScopeInv, NEW g \in Owners, Invalidate(g)
  PROVE  ScopeInv'
<1> USE DEF ScopeInv
<1>1. /\ UNCHANGED <<db, active, gone, entries, req, events, asked>>
      /\ gen' = [gen EXCEPT ![g] = Uuid(g)]
      /\ floor' = [u \in User |-> IF u \in Renewed(g) THEN db ELSE floor[u]]
  BY DEF Invalidate, Renew
<1>2. Uuid(g) \in Nat \ {0} /\ Uuid(g) \notin Held(g)
  BY UuidIsNew
<1>3. pending' \in [Owners -> 0 .. events]
  BY DEF Invalidate, Types
<1>4. /\ floor' \in [User -> [Source -> Nat]]
      /\ \A u \in User, s \in Source : floor[u][s] <= floor'[u][s] /\ floor'[u][s] <= db[s]
      /\ \A u \in User : u \notin Renewed(g) => floor'[u] = floor[u]
  BY <1>1 DEF Types
<1>5. req' \in [Request -> Requests]  BY <1>1 DEF Types
<1>6. NewGeneration(g, g, Uuid(g))
  BY <1>1, <1>2, <1>3, <1>4, <1>5 DEF NewGeneration
<1>7. QED BY <1>6, RenewStep

\* Looking up, or doing without the cache.
LEMMA LookupStep ==
  ASSUME ScopeInv, NEW q \in Request, Lookup(q) \/ Bypass(q)
  PROVE  ScopeInv'
<1> USE DEF ScopeInv
<1> DEFINE r == req[q]
           x == IF Bypass(q)
                THEN [Idle EXCEPT !.pc = "role", !.user = r.user, !.role = r.role,
                                  !.cached = FALSE]
                ELSE IF Key(q) \in DOMAIN entries THEN Done(q, entries[Key(q)])
                ELSE [r EXCEPT !.pc = "role"]
<1>1. r \in Requests /\ r.pc \in {"get", "add", "again", "set", "lookup"} /\ Phase(q)
  BY DEF Lookup, Bypass, Types, Requests
<1>2. /\ req' = [req EXCEPT ![q] = x]
      /\ UNCHANGED <<db, active, gone, pending, gen, entries, events, floor, asked>>
  BY DEF Lookup, Bypass, Put, Go, stored
<1>3. req'[q] = x /\ asked' = [asked EXCEPT ![q] = asked'[q]]
  BY <1>2 DEF Types
<1>4. ASSUME ~ Bypass(q)
      PROVE  /\ r.pc = "lookup"
             /\ Key(q) \in DOMAIN entries =>
                  /\ entries[Key(q)] \in [Needs(r.role) -> Nat]
                  /\ \A s \in Needs(r.role) :
                       asked[q][s] <= entries[Key(q)][s] /\ entries[Key(q)][s] <= db[s]
  <2>1. r.pc = "lookup"  BY <1>4 DEF Lookup
  <2>2. ASSUME Key(q) \in DOMAIN entries
        PROVE  /\ entries[Key(q)] \in [Needs(r.role) -> Nat]
               /\ \A s \in Needs(r.role) :
                    asked[q][s] <= entries[Key(q)][s] /\ entries[Key(q)][s] <= db[s]
    <3>1. Fresh(Key(q), entries[Key(q)])  BY <2>2 DEF EntriesFresh
    <3>2. Key(q).role = r.role /\ Reaches(q, Key(q))
      BY <2>1 DEF Key, Reaches
    <3>3. entries[Key(q)] \in [Needs(r.role) -> Nat]
      BY <2>2, <3>2 DEF EntryTypes
    <3>4. QED BY <3>1, <3>2, <3>3, <2>2 DEF Fresh, EntryTypes
  <2>3. QED BY <2>1, <2>2
<1>5. /\ x \in Requests /\ x.user = r.user /\ x.role = r.role
      /\ x.pc \in {"role", "done"} /\ Phase(q)'
  <2>1. CASE Bypass(q)
    <3>1. x = [Idle EXCEPT !.pc = "role", !.user = r.user, !.role = r.role, !.cached = FALSE]
      BY <2>1
    <3>2. x \in Requests
      <4>1. x = [pc |-> "role", user |-> r.user, role |-> r.role, of |-> None,
                 user_gen |-> 0, site_gen |-> 0, cached |-> FALSE, role_read |-> 0,
                 answer |-> None]
        BY <3>1 DEF Idle
      <4> HIDE DEF x
      <4>2. QED BY <1>1, <4>1 DEF Requests
    <3>3. /\ x.user = r.user /\ x.role = r.role /\ x.pc = "role" /\ x.cached = FALSE
          /\ x.answer = None
      BY <3>1 DEF Idle
    <3>4. Phase(q)'
      <4> HIDE DEF x
      <4>1. QED BY <1>1, <1>2, <1>3, <3>3 DEF Phase, Asking
    <3>5. QED BY <3>2, <3>3, <3>4
  <2>2. CASE ~ Bypass(q) /\ Key(q) \in DOMAIN entries
    <3> DEFINE a == entries[Key(q)]
    <3>1. x = [Idle EXCEPT !.pc = "done", !.user = r.user, !.role = r.role, !.answer = a]
      BY <2>2 DEF Done
    <3>2. a \in Answers
      BY <1>1, <1>4, <2>2, NeedsAreSources DEF Requests
    <3>3. x \in Requests
      <4>1. x = [pc |-> "done", user |-> r.user, role |-> r.role, of |-> None,
                 user_gen |-> 0, site_gen |-> 0, cached |-> TRUE, role_read |-> 0,
                 answer |-> a]
        BY <3>1 DEF Idle
      <4> HIDE DEF x, a
      <4>2. QED BY <1>1, <3>2, <4>1 DEF Requests
    <3>4. /\ x.user = r.user /\ x.role = r.role /\ x.pc = "done" /\ x.answer = a
      BY <3>1 DEF Idle
    <3>5. Phase(q)'
      <4> HIDE DEF x, a
      <4>1. a \in [Needs(r.role) -> Nat] /\ \A s \in Needs(r.role) : asked[q][s] <= a[s] /\ a[s] <= db[s]
        BY <1>4, <2>2 DEF a
      <4>2. QED BY <1>1, <1>2, <1>3, <3>4, <4>1 DEF Phase, Asking
    <3>6. QED BY <3>3, <3>4, <3>5
  <2>3. CASE ~ Bypass(q) /\ Key(q) \notin DOMAIN entries
    <3>1. x = [r EXCEPT !.pc = "role"]  BY <2>3
    <3>2. QED BY <1>1, <1>2, <1>3, <1>4, <2>3, <3>1 DEF Phase, Asking, Requests
  <2>4. QED BY <2>1, <2>2, <2>3
<1> HIDE DEF x
<1>6. \A k \in Keys : ~ Reaches(q, k)'
  BY <1>3, <1>5 DEF Reaches, Asking
<1>7. ~ Builds(q)'
  BY <1>3, <1>5 DEF Builds
<1>8. QED BY <1>2, <1>3, <1>5, <1>6, <1>7, RequestStep

\* An answer is made, and is kept if the request is going to store it.
Makes(q, a) ==
  /\ Answered(q, a)
  /\ UNCHANGED <<db, active, gone, pending, gen, entries, events, floor, asked>>
  /\ req[q].pc \in {"role", "rows"}
  /\ a \in [Needs(req[q].role) -> Nat]
  /\ \A s \in Needs(req[q].role) : asked[q][s] <= a[s] /\ a[s] <= db[s]
  /\ req[q].cached => Fresh(Key(q), a)

LEMMA AnswerStep ==
  ASSUME ScopeInv, NEW q \in Request, NEW a, Makes(q, a)
  PROVE  ScopeInv'
<1> USE DEF ScopeInv, Makes
<1> DEFINE r == req[q]
           x == IF r.cached THEN [r EXCEPT !.pc = "store", !.answer = a]
                ELSE [Idle EXCEPT !.pc = "done", !.user = r.user, !.role = r.role, !.answer = a]
<1>1. /\ r \in Requests /\ Phase(q) /\ r.user \in User /\ a \in Answers
  <2>1. r \in Requests /\ Phase(q) /\ r.role \in Roles  BY DEF Types, Requests
  <2>2. QED BY <2>1, NeedsAreSources DEF Phase
<1>2. req' = [req EXCEPT ![q] = x] /\ req'[q] = x
  BY DEF Answered, Put, Done, Types
<1>3. asked' = [asked EXCEPT ![q] = asked'[q]]
  BY DEF Types
<1>4. /\ x \in Requests /\ x.user = r.user /\ x.role = r.role /\ x.answer = a
      /\ IF r.cached THEN /\ x.pc = "store" /\ x.cached
                          /\ x.user_gen = r.user_gen /\ x.site_gen = r.site_gen
         ELSE x.pc = "done"
  <2>1. CASE r.cached
    BY <1>1, <2>1 DEF Requests
  <2>2. CASE ~ r.cached
    BY <1>1, <2>2 DEF Requests, Idle
  <2>3. QED BY <2>1, <2>2
<1> HIDE DEF x
<1>5. Phase(q)'
  BY <1>1, <1>2, <1>4 DEF Phase, Asking
<1>6. \A k \in Keys : ~ Reaches(q, k)'
  BY <1>2, <1>4 DEF Reaches, Asking
<1>7. Builds(q)' => Fresh(Key(q), Part(q))'
  <2>1. SUFFICES ASSUME Builds(q)' PROVE Fresh(Key(q), Part(q))'
    OBVIOUS
  <2>2. r.cached /\ x.pc = "store"  BY <1>2, <1>4, <2>1 DEF Builds
  <2>3. Key(q)' = Key(q) /\ Part(q)' = a
    BY <1>2, <1>4, <2>2 DEF Key, Part
  <2>4. \A p \in Request : Reaches(p, Key(q))' => Reaches(p, Key(q))
    <3>1. ASSUME NEW p \in Request, Reaches(p, Key(q))' PROVE Reaches(p, Key(q))
      <4>1. p # q  BY <1>2, <2>2, <3>1 DEF Reaches, Asking
      <4>2. req'[p] = req[p]  BY <4>1, <1>2 DEF Types
      <4>3. QED BY <4>2, <2>3, <3>1 DEF Reaches
    <3>2. QED BY <3>1
  <2>5. Present(Key(q))' <=> Present(Key(q))  BY <2>3 DEF Present
  <2>6. QED BY <2>2, <2>3, <2>4, <2>5 DEF Fresh
<1>8. QED BY <1>2, <1>3, <1>4, <1>5, <1>6, <1>7, RequestStep

\* The role is read, and then the rows.
LEMMA ReadStep ==
  ASSUME ScopeInv, NEW q \in Request, LoadRole(q) \/ ListRows(q)
  PROVE  ScopeInv'
<1> USE DEF ScopeInv
<1> DEFINE r == req[q]
<1>1. /\ r \in Requests /\ r.pc \in {"role", "rows"} /\ Phase(q)
      /\ Needs(r.role) \subseteq Source /\ r.user \in User
  <2>1. r \in Requests /\ r.role \in Roles  BY DEF Types, Requests
  <2>2. r.pc \in {"role", "rows"} /\ Phase(q)  BY DEF LoadRole, ListRows
  <2>3. QED BY <2>1, <2>2, NeedsAreSources DEF Phase
<1>2. UNCHANGED <<db, active, gone, pending, gen, entries, events, floor, asked>>
  BY DEF LoadRole, ListRows, stored
<1>3. asked' = [asked EXCEPT ![q] = asked'[q]]
  BY <1>2 DEF Types
<1>4. CASE r.pc = "role" /\ r.role # None
  <2> DEFINE x == [r EXCEPT !.pc = "rows", !.role_read = db[r.role]]
  <2>1. r.role \in Role /\ db[r.role] \in Nat
    BY <1>1, <1>4 DEF Requests, Roles, Types, Source
  <2>2. x \in Requests
    BY <1>1, <2>1 DEF Requests
  <2>3. req' = [req EXCEPT ![q] = x] /\ req'[q] = x
    BY <1>4 DEF LoadRole, ListRows, Put, Types
  <2>4. /\ x.pc = "rows" /\ x.role = r.role /\ x.role_read = db[r.role] /\ x.user = r.user
        /\ x.user_gen = r.user_gen /\ x.site_gen = r.site_gen /\ x.cached = r.cached
        /\ x.answer = r.answer
    BY <1>1 DEF Requests
  <2>5. /\ asked[q][r.role] \in Nat /\ asked[q][r.role] <= db[r.role]
        /\ floor[r.user][r.role] \in Nat /\ floor[r.user][r.role] <= db[r.role]
    BY <1>1, <1>4, <2>1 DEF Phase, Types, Needs, Source
  <2> HIDE DEF x
  <2>6. Phase(q)'
    BY <1>1, <1>2, <1>4, <2>1, <2>3, <2>4, <2>5 DEF Phase, Asking
  <2>7. \A k \in Keys : ~ Reaches(q, k)'
    BY <2>3, <2>4 DEF Reaches, Asking
  <2>8. Fresh(Key(q), Part(q))'
    <3>1. Part(q)' = [s \in {r.role} |-> db[r.role]]
      BY <2>3, <2>4 DEF Part
    <3>2. ASSUME NEW p \in Request, Reaches(p, Key(q))'
          PROVE  asked'[p][r.role] <= db[r.role]
      <4>1. p # q /\ req'[p] = req[p] /\ req[p].role = r.role /\ req[p].pc # "idle" /\ Phase(p)
        BY <2>3, <2>4, <3>2 DEF Reaches, Asking, Key, Types
      <4>2. req[p].user \in User /\ asked[p][r.role] \in Nat
            /\ asked[p][r.role] <= floor[req[p].user][r.role]
        BY <4>1, <1>4 DEF Phase, Needs
      <4>3. floor[req[p].user][r.role] \in Nat /\ floor[req[p].user][r.role] <= db[r.role]
        BY <4>2, <2>1 DEF Types, Source
      <4>4. QED BY <4>2, <4>3, <2>1, <1>2
    <3>3. Key(q)'.user = r.user
      BY <2>3, <2>4 DEF Key
    <3>4. QED BY <1>2, <2>5, <3>1, <3>2, <3>3 DEF Fresh
  <2>9. QED BY <1>2, <1>3, <2>2, <2>3, <2>6, <2>7, <2>8, RequestStep
<1>5. CASE r.pc = "role" /\ r.role = None
  <2>1. Answered(q, << >>)  BY <1>5 DEF LoadRole, ListRows
  <2>2. Needs(r.role) = {} /\ << >> \in [{} -> Nat] /\ DOMAIN << >> = {}
    BY <1>5 DEF Needs
  <2>3. Makes(q, << >>)
    BY <1>2, <1>5, <2>1, <2>2 DEF Makes, Fresh
  <2>4. QED BY <2>3, AnswerStep
<1>6. CASE r.pc = "rows"
  <2> DEFINE a == [s \in Needs(r.role) |-> IF s = "sites" THEN db[s] ELSE r.role_read]
  <2>1. Answered(q, a)  BY <1>6 DEF LoadRole, ListRows
  <2>2. /\ r.role \in Role /\ Needs(r.role) = {r.role, "sites"} /\ r.role # "sites"
        /\ asked[q][r.role] <= r.role_read /\ r.role_read <= db[r.role] /\ r.role_read \in Nat
        /\ asked[q] \in [Needs(r.role) -> Nat]
        /\ \A s \in Needs(r.role) : asked[q][s] <= floor[r.user][s]
    BY <1>1, <1>6, CacheAssumption DEF Phase, Needs, Requests, Roles
  <2>3. /\ db["sites"] \in Nat
        /\ \A u \in User : floor[u]["sites"] \in Nat /\ floor[u]["sites"] <= db["sites"]
    BY DEF Types, Source
  <2>4. /\ a \in [Needs(r.role) -> Nat]
        /\ a[r.role] = r.role_read /\ a["sites"] = db["sites"] /\ DOMAIN a = {r.role, "sites"}
    BY <2>2, <2>3
  <2> HIDE DEF a
  <2>5. \A s \in Needs(r.role) : asked[q][s] <= a[s] /\ a[s] <= db[s]
    BY <1>1, <2>2, <2>3, <2>4
  <2>6. ASSUME r.cached PROVE Fresh(Key(q), a)
    <3>1. Fresh(Key(q), [s \in {r.role} |-> r.role_read])
      BY <1>6, <2>6 DEF BuildsFresh, Builds, Part
    <3>2. Key(q).user = r.user /\ Key(q).role = r.role  BY DEF Key
    <3>3. ASSUME NEW p \in Request, Reaches(p, Key(q))
          PROVE  asked[p]["sites"] <= db["sites"] /\ asked[p][r.role] <= a[r.role]
      <4>1. req[p].role = r.role /\ req[p].user = r.user /\ req[p].pc # "idle" /\ Phase(p)
        BY <3>2, <3>3 DEF Reaches, Asking
      <4>2. asked[p]["sites"] \in Nat /\ asked[p]["sites"] <= floor[r.user]["sites"]
        BY <4>1, <2>2 DEF Phase
      <4>3. asked[p][r.role] <= r.role_read
        BY <3>1, <3>3 DEF Fresh
      <4>4. QED BY <4>2, <4>3, <2>3, <2>4, <1>1
    <3>4. Present(Key(q)) => floor[r.user][r.role] <= a[r.role]
      BY <3>1, <3>2, <2>4 DEF Fresh
    <3>5. QED BY <3>2, <3>3, <3>4, <2>3, <2>4, <1>1 DEF Fresh
  <2>7. Makes(q, a)
    BY <1>2, <1>6, <2>1, <2>4, <2>5, <2>6 DEF Makes
  <2>8. QED BY <2>7, AnswerStep
<1>7. QED BY <1>1, <1>4, <1>5, <1>6

LEMMA StoreStep ==
  ASSUME ScopeInv, NEW q \in Request, Store(q)
  PROVE  ScopeInv'
<1> USE DEF ScopeInv
<1> DEFINE r == req[q]
           x == Done(q, r.answer)
<1>1. /\ r \in Requests /\ r.pc = "store" /\ Phase(q)
      /\ r.answer \in Answers
  <2>1. r \in Requests /\ r.role \in Roles  BY DEF Types, Requests
  <2>2. r.pc = "store" /\ Phase(q)  BY DEF Store
  <2>3. QED BY <2>1, <2>2, NeedsAreSources DEF Phase
<1>2. /\ req' = [req EXCEPT ![q] = x]
      /\ UNCHANGED <<db, active, gone, pending, gen, events, floor, asked>>
  BY DEF Store, Put
<1>3. req'[q] = x /\ asked' = [asked EXCEPT ![q] = asked'[q]]
  BY <1>2 DEF Types
<1>4. UNCHANGED entries \/ Stores(q)
  <2>1. CASE UNCHANGED entries
    BY <2>1
  <2>2. CASE entries' = [k \in DOMAIN entries \cup {Key(q)} |->
                           IF k = Key(q) THEN r.answer ELSE entries[k]]
    <3>1. DOMAIN entries' = DOMAIN entries \cup {Key(q)}  BY <2>2
    <3>2. IsFiniteSet(DOMAIN entries')
      BY <3>1, FS_AddElement DEF EntryTypes
    <3>3. QED BY <1>1, <2>2, <3>1, <3>2 DEF Stores
  <2>3. QED BY <2>1, <2>2 DEF Store
<1>5. x = [pc |-> "done", user |-> r.user, role |-> r.role, of |-> None,
           user_gen |-> 0, site_gen |-> 0, cached |-> TRUE, role_read |-> 0,
           answer |-> r.answer]
  <2>1. x = [Idle EXCEPT !.pc = "done", !.user = r.user, !.role = r.role, !.answer = r.answer]
    BY DEF Done
  <2> HIDE DEF x
  <2>2. QED BY <2>1 DEF Idle
<1> HIDE DEF x
<1>6. x \in Requests  BY <1>1, <1>5 DEF Requests
<1>7. x.user = r.user /\ x.role = r.role /\ x.pc = "done" /\ x.answer = r.answer
  BY <1>5
<1>8. Phase(q)'
  BY <1>1, <1>2, <1>3, <1>7 DEF Phase, Asking
<1>9. \A k \in Keys : ~ Reaches(q, k)'
  BY <1>3, <1>7 DEF Reaches, Asking
<1>10. ~ Builds(q)'
  BY <1>3, <1>7 DEF Builds
<1>11. QED BY <1>2, <1>3, <1>4, <1>6, <1>8, <1>9, <1>10, RequestStep

LEMMA FinishStep ==
  ASSUME ScopeInv, NEW q \in Request, Finish(q)
  PROVE  ScopeInv'
<1> USE DEF ScopeInv
<1>1. /\ req' = [req EXCEPT ![q] = Idle] /\ asked' = [asked EXCEPT ![q] = None]
      /\ UNCHANGED <<db, active, gone, pending, gen, entries, events, floor>>
  BY DEF Finish, Put, stored
<1>2. req'[q] = Idle /\ asked'[q] = None  BY <1>1 DEF Types
<1>3. /\ Idle \in Requests /\ Idle.pc = "idle" /\ Idle.answer = None
  BY DEF Idle, Requests, Roles
<1>4. Phase(q)'  BY <1>2, <1>3 DEF Phase, Asking
<1>5. \A k \in Keys : ~ Reaches(q, k)'
  BY <1>2, <1>3 DEF Reaches, Asking
<1>6. ~ Builds(q)'
  BY <1>2, <1>3 DEF Builds
<1>7. asked' = [asked EXCEPT ![q] = asked'[q]]  BY <1>1, <1>2
<1>8. QED BY <1>1, <1>3, <1>4, <1>5, <1>6, <1>7, RequestStep

\* What writers do: sources change, and what is read of them stays true.
Writes ==
  /\ events' \in 0 .. MaxEvents /\ events <= events'
  /\ db' \in [Source -> 0 .. events'] /\ \A s \in Source : db[s] <= db'[s]
  /\ gone' \subseteq Role /\ active' \in [User -> Roles \ gone']
  /\ pending' \in [Owners -> 0 .. events']
  /\ UNCHANGED <<gen, entries, req, floor, asked>>

LEMMA WriteStep ==
  ASSUME ScopeInv, Writes
  PROVE  ScopeInv'
<1> USE DEF ScopeInv, Writes
<1>1. Types'
  <2>1. ASSUME NEW u \in User, NEW s \in Source PROVE floor'[u][s] <= db'[s]
    <3>1. floor[u][s] \in Nat /\ db[s] \in Nat /\ db'[s] \in Nat /\ floor[u][s] <= db[s]
      BY DEF Types
    <3>2. QED BY <3>1
  <2>2. QED BY <2>1 DEF Types
<1>2. EntryTypes'
  <2>1. ASSUME NEW k \in DOMAIN entries, NEW s \in Needs(k.role) PROVE entries[k][s] <= db'[s]
    <3>1. /\ s \in Source /\ entries[k][s] \in Nat /\ entries[k][s] <= db[s]
      BY NeedsAreSources DEF EntryTypes, Keys
    <3>2. db[s] \in Nat /\ db'[s] \in Nat /\ db[s] <= db'[s]
      BY <3>1 DEF Types
    <3>3. QED BY <3>1, <3>2
  <2>2. QED BY <2>1 DEF EntryTypes
<1>3. ASSUME NEW q \in Request PROVE Phase(q)'
  <2> DEFINE r == req[q]
  <2>1. r.role \in Roles /\ r \in Requests  BY DEF Types, Requests
  <2>2. \A s \in Needs(r.role) : db[s] \in Nat /\ db'[s] \in Nat /\ db[s] <= db'[s]
    BY <2>1, NeedsAreSources DEF Types
  <2>3. ASSUME r.pc = "rows" PROVE r.role_read <= db'[r.role]
    <3>1. /\ r.role # None /\ r.role_read \in Nat /\ r.role_read <= db[r.role]
      BY <2>1, <2>3 DEF Phase, Requests
    <3>2. r.role \in Needs(r.role)  BY <3>1 DEF Needs
    <3>3. QED BY <2>2, <3>1, <3>2
  <2>4. r.pc \in {"store", "done"} => \A s \in Needs(r.role) : r.answer[s] <= db'[s]
    BY <2>2 DEF Phase
  <2>5. QED BY <2>3, <2>4 DEF Phase
<1>4. EntriesFresh' /\ BuildsFresh'
  <2>1. ASSUME NEW k \in DOMAIN entries PROVE Fresh(k, entries[k])'
    <3>1. Fresh(k, entries[k])  BY DEF EntriesFresh
    <3>2. QED BY <3>1 DEF Fresh, Present, Reaches
  <2>2. ASSUME NEW q \in Request, Builds(q)' PROVE Fresh(Key(q), Part(q))'
    <3>1. Builds(q) /\ Key(q)' = Key(q) /\ Part(q)' = Part(q)
      BY <2>2 DEF Builds, Key, Part
    <3>2. Fresh(Key(q), Part(q))  BY <3>1 DEF BuildsFresh
    <3>3. QED BY <3>1, <3>2 DEF Fresh, Present, Reaches
  <2>3. QED BY <2>1, <2>2 DEF EntriesFresh, BuildsFresh
<1>5. QED BY <1>1, <1>2, <1>3, <1>4

LEMMA CommitStep ==
  ASSUME ScopeInv, NEW g \in Owners, Commit(g),
         NEW S \in SUBSET Source, db' = [s \in Source |-> IF s \in S THEN db[s] + 1 ELSE db[s]],
         gone' \subseteq Role, active' \in [User -> Roles \ gone']
  PROVE  ScopeInv'
<1>1. /\ events \in 0 .. MaxEvents /\ events' = events + 1 /\ events < MaxEvents
      /\ db \in [Source -> 0 .. events] /\ pending \in [Owners -> 0 .. events]
      /\ MaxEvents \in Nat
  BY CacheAssumption DEF ScopeInv, Types, Commit
<1>2. events' \in 0 .. MaxEvents /\ events <= events'
  BY <1>1
<1>3. db' \in [Source -> 0 .. events'] /\ \A s \in Source : db[s] <= db'[s]
  BY <1>1
<1>4. pending' \in [Owners -> 0 .. events']
  BY <1>1 DEF Commit
<1>5. UNCHANGED <<gen, entries, req, floor, asked>>
  BY DEF Commit, stored
<1>6. QED BY <1>2, <1>3, <1>4, <1>5, WriteStep DEF Writes

LEMMA RoleWriterStep ==
  ASSUME ScopeInv, NEW e \in Role, UpdateRole(e) \/ DeleteRole(e) \/ SetActiveRole(e)
  PROVE  ScopeInv'
<1>1. /\ Owner[e] \in Owners /\ Owner[e] \in User /\ Commit(Owner[e])
      /\ db \in [Source -> Nat] /\ e \in Source
      /\ gone \subseteq Role /\ active \in [User -> Roles \ gone]
  BY CacheAssumption DEF Owners, Source, UpdateRole, DeleteRole, SetActiveRole, ScopeInv, Types
<1>2. CASE UpdateRole(e)
  <2>1. gone' \subseteq Role /\ active' \in [User -> Roles \ gone']
    BY <1>1, <1>2 DEF UpdateRole
  <2>2. db' = [s \in Source |-> IF s \in {e} THEN db[s] + 1 ELSE db[s]] /\ {e} \in SUBSET Source
    BY <1>1, <1>2 DEF UpdateRole, Bump
  <2>3. QED BY <1>1, <2>1, <2>2, CommitStep
<1>3. CASE DeleteRole(e)
  <2>1. gone' \subseteq Role /\ active' \in [User -> Roles \ gone']
    BY <1>1, <1>3, CacheAssumption DEF DeleteRole, Erase, Roles
  <2>2. db' = [s \in Source |-> IF s \in {} THEN db[s] + 1 ELSE db[s]] /\ {} \in SUBSET Source
    BY <1>1, <1>3 DEF DeleteRole
  <2>3. QED BY <1>1, <2>1, <2>2, CommitStep
<1>4. CASE SetActiveRole(e)
  <2>1. gone' \subseteq Role /\ active' \in [User -> Roles \ gone']
    BY <1>1, <1>4 DEF SetActiveRole, Roles
  <2>2. db' = [s \in Source |-> IF s \in {} THEN db[s] + 1 ELSE db[s]] /\ {} \in SUBSET Source
    BY <1>1, <1>4 DEF SetActiveRole
  <2>3. QED BY <1>1, <2>1, <2>2, CommitStep
<1>5. QED BY <1>2, <1>3, <1>4

LEMMA ChangeSitesStep ==
  ASSUME ScopeInv, NEW R \in SUBSET (Role \ gone), ChangeSites(R)
  PROVE  ScopeInv'
<1>1. /\ gone \subseteq Role /\ active \in [User -> Roles \ gone] /\ "sites" \in Owners
      /\ {"sites"} \in SUBSET Source
  BY DEF Owners, Source, ScopeInv, Types
<1>2. gone' \subseteq Role /\ active' \in [User -> Roles \ gone']
  BY <1>1, CacheAssumption DEF ChangeSites, Erase, Roles
<1>3. db' = [s \in Source |-> IF s \in {"sites"} THEN db[s] + 1 ELSE db[s]] /\ Commit("sites")
  BY DEF ChangeSites, Bump
<1>4. QED BY <1>1, <1>2, <1>3, CommitStep

LEMMA LoseInvalidationStep ==
  ASSUME ScopeInv, NEW g \in Owners, LoseInvalidation(g)
  PROVE  ScopeInv'
<1>1. UNCHANGED <<db, active, gone, gen, entries, req, events, floor, asked>>
  BY DEF LoseInvalidation, stored
<1>2. pending' \in [Owners -> 0 .. events]
  BY DEF LoseInvalidation, ScopeInv, Types
<1>3. Writes
  BY <1>1, <1>2 DEF Writes, ScopeInv, Types
<1>4. QED BY <1>3, WriteStep

\* Redis forgets an entry, or everything.
LEMMA ForgetStep ==
  ASSUME ScopeInv, (\E k \in DOMAIN entries : Expire(k)) \/ Flush
  PROVE  ScopeInv'
<1> USE DEF ScopeInv
<1>1. /\ UNCHANGED <<db, active, gone, pending, req, floor, asked>>
      /\ events' \in 0 .. MaxEvents /\ events <= events'
      /\ gen' \in [Owners -> Nat]
      /\ gen' = gen \/ \A g \in Owners : gen'[g] = 0
  <2>1. events \in 0 .. MaxEvents /\ gen \in [Owners -> Nat] /\ MaxEvents \in Nat
    BY CacheAssumption DEF Types
  <2>2. CASE \E k \in DOMAIN entries : Expire(k)
    BY <2>1, <2>2 DEF Expire
  <2>3. CASE Flush
    BY <2>1, <2>3 DEF Flush
  <2>4. QED BY <2>2, <2>3
<1>2. /\ gen' \in [Owners -> Nat]
      /\ gen' = gen \/ \A g \in Owners : gen'[g] = 0
  BY <1>1
<1>3. /\ DOMAIN entries' \subseteq DOMAIN entries
      /\ \A k \in DOMAIN entries' : entries'[k] = entries[k]
  <2>1. ASSUME NEW k \in DOMAIN entries, Expire(k)
        PROVE  /\ DOMAIN entries' \subseteq DOMAIN entries
               /\ \A j \in DOMAIN entries' : entries'[j] = entries[j]
    BY <2>1 DEF Expire, Restrict
  <2>2. ASSUME Flush PROVE DOMAIN entries' = {}
    BY <2>2 DEF Flush
  <2>3. QED BY <2>1, <2>2
<1>4. Types'
  BY <1>1, <1>2 DEF Types
<1>5. EntryTypes'
  BY <1>1, <1>3, FS_Subset DEF EntryTypes
<1>6. \A q \in Request : Phase(q)'
  BY <1>1 DEF Phase
<1>7. ASSUME NEW k, Known(k), NEW a, Fresh(k, a) PROVE Fresh(k, a)'
  <2>1. k \in Keys /\ k.user \in Owners /\ "sites" \in Owners
    BY <1>7, KnownKeys DEF Keys, Owners
  <2>2. Present(k)' => Present(k)
    BY <1>2, <2>1 DEF Present, Keys
  <2>3. \A q \in Request : Reaches(q, k)' => Reaches(q, k)
    BY <1>1, <1>2, <2>1 DEF Reaches, Keys
  <2>4. QED BY <1>1, <2>2, <2>3, <1>7 DEF Fresh
<1>8. EntriesFresh'
  <2>1. ASSUME NEW k \in DOMAIN entries' PROVE Fresh(k, entries[k])'
    <3>1. PICK a : a = entries[k]  OBVIOUS
    <3>2. Fresh(k, a)'  BY <1>3, <1>7, <3>1 DEF Known, EntriesFresh
    <3>3. QED BY <1>3, <3>1, <3>2 DEF Fresh
  <2>2. QED BY <2>1 DEF EntriesFresh
<1>9. BuildsFresh'
  <2>1. ASSUME NEW q \in Request, Builds(q)' PROVE Fresh(Key(q), Part(q))'
    <3>1. Builds(q) /\ Key(q)' = Key(q) /\ Part(q)' = Part(q)
      BY <1>1, <2>1 DEF Builds, Key, Part
    <3>2. PICK k, a : k = Key(q) /\ a = Part(q)  OBVIOUS
    <3>3. Fresh(k, a)'  BY <3>1, <3>2, <1>7 DEF Known, BuildsFresh
    <3>4. QED BY <3>1, <3>2, <3>3 DEF Fresh
  <2>2. QED BY <2>1 DEF BuildsFresh
<1>10. QED BY <1>4, <1>5, <1>6, <1>8, <1>9

LEMMA ScopeInit == Init => ScopeInv
<1> SUFFICES ASSUME Init PROVE ScopeInv
  OBVIOUS
<1> USE DEF Init
<1>1. Idle \in Requests /\ Idle.pc = "idle" /\ Idle.answer = None
  BY DEF Idle, Requests, Roles
<1>2. \A q \in Request : req[q] = Idle /\ asked[q] = None
  OBVIOUS
<1>3. Types
  <2>1. active \in [User -> Roles \ gone]  BY DEF Roles
  <2>2. QED BY <1>1, <2>1, CacheAssumption DEF Types
<1>4. EntryTypes /\ EntriesFresh
  <2>1. DOMAIN entries = {}  OBVIOUS
  <2>2. QED BY <2>1, FS_EmptySet DEF EntryTypes, EntriesFresh
<1>5. \A q \in Request : Phase(q)
  BY <1>1, <1>2 DEF Phase, Asking
<1>6. BuildsFresh
  BY <1>1, <1>2 DEF BuildsFresh, Builds
<1>7. QED BY <1>3, <1>4, <1>5, <1>6 DEF ScopeInv

LEMMA ScopeNext == ScopeInv /\ [Next]_vars => ScopeInv'
<1> SUFFICES ASSUME ScopeInv, [Next]_vars PROVE ScopeInv'
  OBVIOUS
<1>1. CASE UNCHANGED vars
  <2>1. Writes
    BY <1>1 DEF vars, stored, Writes, ScopeInv, Types
  <2>2. QED BY <2>1, WriteStep
<1>2. ASSUME NEW q \in Request, Serve(q) PROVE ScopeInv'
  BY <1>2, ReadGenerationStep, TakeNewStep, LookupStep, ReadStep, StoreStep, FinishStep
  DEF Serve
<1>3. ASSUME NEW q \in Request, Bypass(q) PROVE ScopeInv'
  BY <1>3, LookupStep
<1>4. ASSUME NEW q \in Request, NEW u \in User, Authenticate(q, u) PROVE ScopeInv'
  BY <1>4, AuthenticateStep
<1>5. ASSUME NEW e \in Role, UpdateRole(e) \/ DeleteRole(e) \/ SetActiveRole(e) PROVE ScopeInv'
  BY <1>5, RoleWriterStep
<1>6. ASSUME NEW R \in SUBSET (Role \ gone), ChangeSites(R) PROVE ScopeInv'
  BY <1>6, ChangeSitesStep
<1>7. ASSUME NEW g \in Owners, Settle(g) PROVE ScopeInv'
  BY <1>7, InvalidateStep, LoseInvalidationStep DEF Settle
<1>8. CASE (\E k \in DOMAIN entries : Expire(k)) \/ Flush
  BY <1>8, ForgetStep
<1>9. QED BY <1>1, <1>2, <1>3, <1>4, <1>5, <1>6, <1>7, <1>8 DEF Next

\* Every state the scope caches reach, whatever they lose or evict, keeps what
\* an entry, a generation and a reading request know of the database.
THEOREM ScopeInvariant == Spec => []ScopeInv
<1>1. QED BY ScopeInit, ScopeNext, PTL DEF Spec
-----------------------------------------------------------------------------
(* ScopeCache implements CachePromise.                                     *)

LEMMA NoneIsNoAnswer ==
  ASSUME NEW e \in Roles, NEW a \in [Needs(e) -> Nat]
  PROVE  a # None
BY NeedsAreSources, CacheAssumption

LEMMA ScopeStart == ASSUME Init PROVE Promise!Init
<1>1. \A q \in Request : req[q].pc = "idle"  BY DEF Init, Idle
<1>2. given = [q \in Request |-> None]  BY <1>1 DEF given
<1>3. QED BY <1>2 DEF Init, Promise!Init

\* A request that is under way goes on.
GoesOn(q) ==
  /\ q \in Request /\ req[q].pc \notin {"idle", "done"}
  /\ \A p \in Request \ {q} : req'[p] = req[p]
  /\ UNCHANGED <<db, floor, asked>>

LEMMA ServeGoesOn ==
  ASSUME ScopeInv, NEW q \in Request, Serve(q) \/ Bypass(q), ~ Finish(q)
  PROVE  GoesOn(q)
<1>1. req \in [Request -> Requests]  BY DEF ScopeInv, Types
<1>2. CASE ReadGeneration(q)
  BY <1>1, <1>2 DEF ReadGeneration, Take, Put, Go, GoesOn
<1>3. CASE AddGeneration(q) \/ SetGeneration(q)
  BY <1>1, <1>3 DEF AddGeneration, SetGeneration, Take, Put, Go, GoesOn
<1>4. CASE Lookup(q) \/ Bypass(q)
  BY <1>1, <1>4 DEF Lookup, Bypass, Put, Go, GoesOn
<1>5. CASE LoadRole(q) \/ ListRows(q)
  BY <1>1, <1>5 DEF LoadRole, ListRows, Answered, Put, GoesOn
<1>6. CASE Store(q)
  BY <1>1, <1>6 DEF Store, Put, GoesOn
<1>7. QED BY <1>2, <1>3, <1>4, <1>5, <1>6 DEF Serve

LEMMA GoesOnKeeps ==
  ASSUME ScopeInv, ScopeInv', NEW q, GoesOn(q)
  PROVE  [Promise!Next]_(Promise!vars)
<1> USE DEF GoesOn
<1>1. req'[q] \in Requests /\ Phase(q)'  BY DEF ScopeInv, Types
<1>2. CASE req'[q].pc # "done"
  <2>1. given' = given  BY <1>2 DEF given
  <2>2. QED BY <2>1 DEF Promise!vars
<1>3. CASE req'[q].pc = "done"
  <2> DEFINE a == req'[q].answer
             e == req'[q].role
  <2>1. /\ e \in Roles /\ a \in [Needs(e) -> Nat] /\ asked[q] \in [Needs(e) -> Nat]
        /\ \A s \in Needs(e) : asked[q][s] <= a[s] /\ a[s] <= db[s]
    BY <1>1, <1>3 DEF Phase, Requests
  <2>2. a # None /\ asked[q] # None  BY <2>1, NoneIsNoAnswer
  <2>3. given[q] = None /\ given'[q] = a  BY <1>3 DEF given
  <2>4. given' = [given EXCEPT ![q] = given'[q]]  BY <1>3 DEF given
  <2>5. \A s \in Needs(e) : db[s] \in Nat
    BY <2>1, NeedsAreSources DEF ScopeInv, Types
  <2>6. Promise!Answer(q)
    BY <2>1, <2>2, <2>3, <2>4, <2>5 DEF Promise!Answer
  <2>7. QED BY <2>6 DEF Promise!Next
<1>4. QED BY <1>2, <1>3

LEMMA AuthenticateKeeps ==
  ASSUME ScopeInv, NEW q \in Request, NEW u \in User, Authenticate(q, u)
  PROVE  Promise!Next
<1>1. /\ req[q] = Idle /\ asked[q] = None /\ req \in [Request -> Requests]
      /\ active[u] \in Roles
  BY DEF ScopeInv, Phase, Authenticate, Types
<1>2. given' = given
  BY <1>1 DEF Authenticate, Put, given, Idle
<1>3. Needs(active[u]) \in SUBSET Source  BY <1>1, NeedsAreSources
<1>4. asked' = [asked EXCEPT ![q] = [s \in Needs(active[u]) |-> floor[u][s]]]
      /\ UNCHANGED <<db, floor>>
  BY DEF Authenticate
<1>5. Promise!Ask(q)
  BY <1>1, <1>2, <1>3, <1>4 DEF Promise!Ask
<1>6. QED BY <1>5 DEF Promise!Next

LEMMA FinishKeeps ==
  ASSUME ScopeInv, NEW q \in Request, Finish(q)
  PROVE  Promise!Next
<1>1. req \in [Request -> Requests] /\ Phase(q) /\ req[q].pc # "idle" /\ req[q].role \in Roles
  BY DEF ScopeInv, Types, Finish, Requests
<1>2. asked[q] # None  BY <1>1, NoneIsNoAnswer DEF Phase
<1>3. given' = [given EXCEPT ![q] = None]
  BY <1>1 DEF Finish, Put, given, Idle
<1>4. asked' = [asked EXCEPT ![q] = None] /\ UNCHANGED <<db, floor>>
  BY DEF Finish
<1>5. Promise!Close(q)
  BY <1>2, <1>3, <1>4 DEF Promise!Close
<1>6. QED BY <1>5 DEF Promise!Next

\* Changes of a source, and of the generation of a user or of the sites.
LEMMA BumpKeeps ==
  ASSUME ScopeInv, NEW e \in Source, db' = [s \in Source |-> IF s \in {e} THEN db[s] + 1 ELSE db[s]],
         UNCHANGED <<req, floor, asked>>
  PROVE  Promise!Next
<1>1. db' = [db EXCEPT ![e] = @ + 1]  BY DEF ScopeInv, Types
<1>2. given' = given  BY DEF given
<1>3. Promise!Write  BY <1>1, <1>2 DEF Promise!Write
<1>4. QED BY <1>3 DEF Promise!Next

LEMMA InvalidateKeeps ==
  ASSUME NEW g \in Owners, Invalidate(g)
  PROVE  Promise!Next
<1>1. given' = given  BY DEF Invalidate, given
<1>2. Renewed(g) \in SUBSET User  BY DEF Renewed, Owners
<1>3. Promise!Renew  BY <1>1, <1>2 DEF Invalidate, Promise!Renew
<1>4. QED BY <1>3 DEF Promise!Next

LEMMA QuietKeeps ==
  ASSUME UNCHANGED <<db, floor, asked, req>>
  PROVE  UNCHANGED Promise!vars
BY DEF Promise!vars, given

LEMMA ScopeStepKeeps ==
  ASSUME ScopeInv, ScopeInv', [Next]_vars
  PROVE  [Promise!Next]_(Promise!vars)
<1>1. CASE UNCHANGED vars
  BY <1>1, QuietKeeps DEF vars
<1>2. ASSUME NEW q \in Request, Serve(q) \/ Bypass(q) PROVE [Promise!Next]_(Promise!vars)
  BY <1>2, ServeGoesOn, GoesOnKeeps, FinishKeeps
<1>3. ASSUME NEW q \in Request, NEW u \in User, Authenticate(q, u)
      PROVE  [Promise!Next]_(Promise!vars)
  BY <1>3, AuthenticateKeeps
<1>4. ASSUME NEW e \in Role, UpdateRole(e) \/ DeleteRole(e) \/ SetActiveRole(e)
      PROVE  [Promise!Next]_(Promise!vars)
  <2>1. CASE UpdateRole(e)
    BY <2>1, BumpKeeps DEF UpdateRole, Bump, Commit, Source
  <2>2. CASE DeleteRole(e) \/ SetActiveRole(e)
    BY <2>2, QuietKeeps DEF DeleteRole, SetActiveRole, Commit
  <2>3. QED BY <1>4, <2>1, <2>2
<1>5. ASSUME NEW R \in SUBSET (Role \ gone), ChangeSites(R)
      PROVE  [Promise!Next]_(Promise!vars)
  BY <1>5, BumpKeeps DEF ChangeSites, Bump, Commit, Source
<1>6. ASSUME NEW g \in Owners, Settle(g) PROVE [Promise!Next]_(Promise!vars)
  <2>1. CASE Invalidate(g)
    BY <2>1, InvalidateKeeps
  <2>2. CASE LoseInvalidation(g)
    BY <2>2, QuietKeeps DEF LoseInvalidation
  <2>3. QED BY <1>6, <2>1, <2>2 DEF Settle
<1>7. CASE (\E k \in DOMAIN entries : Expire(k)) \/ Flush
  BY <1>7, QuietKeeps DEF Expire, Flush
<1>8. QED BY <1>1, <1>2, <1>3, <1>4, <1>5, <1>6, <1>7 DEF Next

\* Whoever asks for a list is given one of the role that was active when he was
\* authenticated, and no older than the last renewal of his generation or of the
\* sites' before that: for any number of users, roles and requests, and whatever
\* renewals, commands and keys are lost.
THEOREM ListsKeepPromise == Spec => KeepsPromise
<1>1. Init => Promise!Init  BY ScopeStart
<1>2. ScopeInv /\ ScopeInv' /\ [Next]_vars => [Promise!Next]_(Promise!vars)
  BY ScopeStepKeeps
<1>3. Spec => Promise!Spec
  BY <1>1, <1>2, ScopeInvariant, PTL DEF Spec, Promise!Spec
<1>4. QED BY <1>3 DEF KeepsPromise

\* Every variable has its type: in particular what is stored or given is made of
\* all the sources of one role, and keys are made of generations once drawn.
THEOREM ScopeTypes == Spec => []TypeOK
<1>1. ASSUME ScopeInv PROVE TypeOK
  <2> USE <1>1 DEF ScopeInv
  <2>1. db \in [Source -> 0 .. MaxEvents] /\ pending \in [Owners -> 0 .. MaxEvents]
    BY CacheAssumption DEF Types
  <2>2. floor \in [User -> [Source -> 0 .. MaxEvents]]
    <3>1. ASSUME NEW u \in User PROVE floor[u] \in [Source -> 0 .. MaxEvents]
      BY <2>1, CacheAssumption DEF Types
    <3>2. QED BY <3>1 DEF Types
  <2>3. ASSUME NEW e \in Roles, NEW a \in [Needs(e) -> Nat], \A s \in Needs(e) : a[s] <= db[s]
        PROVE  a \in AnswerFor(e)
    <3>1. \A s \in Needs(e) : db[s] \in 0 .. MaxEvents
      BY <2>1, NeedsAreSources
    <3>2. QED BY <2>3, <3>1, CacheAssumption DEF AnswerFor
  <2>4. \A k \in DOMAIN entries :
          /\ k \in [user: User, user_gen: Nat \ {0}, site_gen: Nat \ {0}, role: Roles]
          /\ entries[k] \in AnswerFor(k.role)
    BY <2>3 DEF EntryTypes, Keys
  <2>5. ASSUME NEW q \in Request
        PROVE  /\ req[q].pc \in {"idle", "get", "add", "again", "set", "lookup", "role",
                                 "rows", "store", "done"}
               /\ req[q].answer # None => req[q].answer \in AnswerFor(req[q].role)
    BY <2>3 DEF Phase, Types, Requests
  <2>6. QED BY <2>1, <2>2, <2>4, <2>5 DEF Types, TypeOK
<1>2. QED BY <1>1, ScopeInvariant, PTL
-----------------------------------------------------------------------------
(* AnalyticsCache, with constants and variables of its own: the inductive   *)
(* invariant.                                                               *)

CONSTANTS Kind, Section, Depends, Query, Task, MaxDay, MaxRows, TaskFaults
VARIABLES day, rows, task, counts, kept, query, bumped, posed

Dash == INSTANCE AnalyticsCache WITH
  Request <- Query, Faults <- TaskFaults,
  gen <- counts, entries <- kept, req <- query, floor <- bumped, asked <- posed

\* What AnalyticsCache assumes of its constants.
DashAssumption ==
  /\ Depends \in [Section -> Seq(Kind) \ {<< >>}]
  /\ None \notin Kind \cup Section
  /\ \A S \in SUBSET Kind : None \notin [S -> Nat]
  /\ MaxDay \in Nat \ {0} /\ MaxRows \in Nat

DashRequests ==
  [pc: {"idle", "get", "add", "again", "lookup", "build", "store", "done"},
   section: Section \cup {None}, at: Nat \ {0}, gens: Seq(Nat), cached: BOOLEAN,
   answer: UNION {[S -> Nat] : S \in SUBSET Kind}]

DashTasks ==
  \A t \in Task :
    task[t] = Dash!Resting \/ task[t] \in [pc: {"get", "create", "add", "incr"},
                                           kind: Kind, date: 1 .. day]

DashTypes ==
  /\ day \in 1 .. MaxDay /\ rows \subseteq [kind: Kind, date: 1 .. day] /\ IsFiniteSet(rows)
  /\ Dash!db \in [Kind -> Nat] /\ counts \in [Kind -> Nat]
  /\ bumped \in [Section -> [Kind -> Nat]]
  /\ \A s \in Section, k \in Kind : bumped[s][k] <= Dash!db[k]
  /\ DOMAIN task = Task /\ DashTasks
  /\ query \in [Query -> DashRequests] /\ posed = [q \in Query |-> posed[q]]

\* Generations that were drawn: they are only counted up.
Drawn(s, gens) ==
  /\ gens \in Seq(Nat) /\ Len(gens) <= Len(Depends[s])
  /\ \A i \in 1 .. Len(gens) : 0 < gens[i] /\ gens[i] <= counts[Depends[s][i]]

DashKey(k) ==
  /\ k.section \in Section /\ Drawn(k.section, k.gens)
  /\ Len(k.gens) = Len(Depends[k.section])

DashEntries ==
  \A k \in DOMAIN kept :
    /\ DashKey(k) /\ kept[k] \in [Dash!Needs(k.section) -> Nat]
    /\ \A d \in Dash!Needs(k.section) : kept[k][d] <= Dash!db[d]

Counting(r) == r.pc \in {"get", "add", "again"}

\* The kinds whose rows a builder has read.
ReadSoFar(r) == {Depends[r.section][i] : i \in 1 .. r.at - 1}

\* As with the lists of sites; an answer is made piece by piece.
DashPhase(q) ==
  LET r == query[q]
      n == Len(Depends[r.section])
  IN
  /\ r.pc = "idle" => r = Dash!Idle /\ posed[q] = None
  /\ r.pc # "idle" =>
       /\ r.section \in Section
       /\ posed[q] \in [Dash!Needs(r.section) -> Nat]
       /\ \A d \in Dash!Needs(r.section) : posed[q][d] <= bumped[r.section][d]
       /\ Drawn(r.section, r.gens)
  /\ Counting(r) =>
       /\ r.cached /\ r.at <= n /\ Len(r.gens) = r.at - 1
       /\ r.pc = "again" => counts[Depends[r.section][r.at]] # 0
  /\ r.pc = "lookup" => r.cached
  /\ r.pc \in {"lookup", "build", "store"} /\ r.cached => Len(r.gens) = n
  /\ Counting(r) \/ r.pc = "lookup" => r.answer = << >>
  /\ r.pc = "lookup" => r.at = 1
  /\ r.pc = "build" => r.at <= n /\ DOMAIN r.answer = ReadSoFar(r)
  /\ r.pc = "store" => r.cached
  /\ r.pc \in {"store", "done"} => DOMAIN r.answer = Dash!Needs(r.section)
  /\ r.pc \in {"build", "store", "done"} =>
       \A d \in DOMAIN r.answer : posed[q][d] <= r.answer[d] /\ r.answer[d] <= Dash!db[d]

\* The request may still look for the key.
Seeks(q, k) ==
  LET r == query[q] IN
  /\ r.section = k.section
  /\ \/ /\ Counting(r)
        /\ \A i \in 1 .. Len(k.gens) :
             k.gens[i] = IF i < r.at THEN r.gens[i] ELSE counts[Depends[k.section][i]]
     \/ r.pc = "lookup" /\ k.gens = r.gens

Current(k) == \A i \in 1 .. Len(k.gens) : k.gens[i] = counts[Depends[k.section][i]]

\* What is found under the key, now or later, is good enough for whoever may look
\* for it.
Recent(k, a) ==
  /\ Current(k) => \A d \in DOMAIN a : bumped[k.section][d] <= a[d]
  /\ \A q \in Query : Seeks(q, k) => \A d \in DOMAIN a : posed[q][d] <= a[d]

Fills(q) == query[q].cached /\ query[q].pc \in {"build", "store"}

EntriesRecent == \A k \in DOMAIN kept : Recent(k, kept[k])
FillsRecent == \A q \in Query : Fills(q) => Recent(Dash!Key(q), query[q].answer)

DashInv ==
  /\ DashAssumption /\ DashTypes /\ DashEntries
  /\ \A q \in Query : DashPhase(q)
  /\ EntriesRecent /\ FillsRecent

\* What a section needs, and what its keys are made of.
LEMMA DashNeeds ==
  ASSUME DashAssumption, NEW s \in Section
  PROVE  /\ Depends[s] \in Seq(Kind) /\ Len(Depends[s]) \in Nat \ {0}
         /\ \A i \in 1 .. Len(Depends[s]) : Depends[s][i] \in Dash!Needs(s)
         /\ Dash!Needs(s) = {Depends[s][i] : i \in 1 .. Len(Depends[s])}
         /\ Dash!Needs(s) \subseteq Kind
<1>1. Depends[s] \in Seq(Kind) /\ Depends[s] # << >>
  BY DEF DashAssumption
<1>2. Len(Depends[s]) \in Nat \ {0} /\ DOMAIN Depends[s] = 1 .. Len(Depends[s])
  BY <1>1
<1>3. Dash!Needs(s) = {Depends[s][i] : i \in 1 .. Len(Depends[s])}
  BY <1>2 DEF Dash!Needs, Dash!Range
<1>4. \A i \in 1 .. Len(Depends[s]) : Depends[s][i] \in Kind
  BY <1>1
<1>5. QED BY <1>1, <1>2, <1>3, <1>4

LEMMA KeptKeys ==
  ASSUME DashInv, NEW q \in Query, Fills(q)
  PROVE  DashKey(Dash!Key(q)) /\ Dash!Key(q).section = query[q].section
         /\ Dash!Key(q).gens = query[q].gens
BY DEF DashInv, DashPhase, Fills, DashKey, Dash!Key

LEMMA RecentStays ==
  ASSUME NEW k, NEW a, Recent(k, a),
         Current(k)' => Current(k) /\ bumped'[k.section] = bumped[k.section],
         \A q \in Query : Seeks(q, k)' =>
           \/ Seeks(q, k) /\ posed'[q] = posed[q]
           \/ /\ Current(k)
              /\ \A d \in DOMAIN a : a[d] \in Nat /\ bumped[k.section][d] \in Nat
              /\ \A d \in DOMAIN a : posed'[q][d] \in Nat /\ posed'[q][d] <= bumped[k.section][d]
  PROVE  Recent(k, a)'
<1>1. ASSUME Current(k)' PROVE \A d \in DOMAIN a : bumped'[k.section][d] <= a[d]
  BY <1>1 DEF Recent
<1>2. ASSUME NEW q \in Query, Seeks(q, k)' PROVE \A d \in DOMAIN a : posed'[q][d] <= a[d]
  <2>1. CASE Seeks(q, k) /\ posed'[q] = posed[q]
    BY <2>1 DEF Recent
  <2>2. CASE ~ (Seeks(q, k) /\ posed'[q] = posed[q])
    <3>1. /\ \A d \in DOMAIN a : a[d] \in Nat /\ bumped[k.section][d] \in Nat
          /\ \A d \in DOMAIN a : posed'[q][d] \in Nat /\ posed'[q][d] <= bumped[k.section][d]
          /\ \A d \in DOMAIN a : bumped[k.section][d] <= a[d]
      BY <1>2, <2>2 DEF Recent
    <3>2. QED BY <3>1
  <2>3. QED BY <2>1, <2>2
<1>3. QED BY <1>1, <1>2 DEF Recent
-----------------------------------------------------------------------------
(* The steps of a request.                                                 *)

\* A request goes on, or starts, and may store its answer; nothing else changes.
DashGoes(q) ==
  /\ query' \in [Query -> DashRequests]
  /\ \A p \in Query \ {q} : query'[p] = query[p] /\ posed'[p] = posed[p]
  /\ UNCHANGED <<day, rows, task, counts, bumped>>
  /\ posed' = [p \in Query |-> posed'[p]]
  /\ \A k \in DOMAIN kept' :
       \/ k \in DOMAIN kept /\ kept'[k] = kept[k]
       \/ query[q].pc = "store" /\ k = Dash!Key(q) /\ kept'[k] = query[q].answer
  /\ DashPhase(q)'
  /\ \A k : DashKey(k) /\ Seeks(q, k)' =>
       (Seeks(q, k) /\ posed'[q] = posed[q]) \/ Current(k)
  /\ Fills(q)' => Recent(Dash!Key(q), query[q].answer)'

LEMMA DashGoesStep ==
  ASSUME DashInv, NEW q \in Query, DashGoes(q)
  PROVE  DashInv'
<1> USE DEF DashInv, DashGoes
<1>1. DashTypes' /\ DashAssumption
  <2>1. Dash!db' = Dash!db  BY DEF Dash!db, Dash!Version
  <2>2. DashTasks'  BY DEF DashTypes, DashTasks
  <2>3. QED BY <2>1, <2>2 DEF DashTypes
<1> DEFINE New(k) == query[q].pc = "store" /\ k = Dash!Key(q) /\ kept'[k] = query[q].answer
<1>2. ASSUME NEW k \in DOMAIN kept'
      PROVE  \/ k \in DOMAIN kept /\ kept'[k] = kept[k]
             \/ New(k) /\ Fills(q) /\ DashKey(k) /\ k.section = query[q].section
  BY KeptKeys DEF DashPhase, Fills
<1>3. DashEntries'
  <2>1. ASSUME NEW k \in DOMAIN kept'
        PROVE  /\ DashKey(k)' /\ kept'[k] \in [Dash!Needs(k.section) -> Nat]
               /\ \A d \in Dash!Needs(k.section) : kept'[k][d] <= Dash!db'[d]
    <3>1. Dash!db' = Dash!db  BY DEF Dash!db, Dash!Version
    <3>2. CASE k \in DOMAIN kept /\ kept'[k] = kept[k]
      BY <3>1, <3>2 DEF DashEntries, DashKey, Drawn
    <3>3. CASE New(k) /\ DashKey(k) /\ k.section = query[q].section
      <4>1. query[q] \in DashRequests /\ DashPhase(q)  BY DEF DashTypes
      <4>2. query[q].answer \in [DOMAIN query[q].answer -> Nat]  BY <4>1 DEF DashRequests
      <4>3. QED BY <3>1, <3>3, <4>1, <4>2 DEF DashPhase, DashKey, Drawn
    <3>4. QED BY <1>2, <3>2, <3>3
  <2>2. QED BY <2>1 DEF DashEntries
<1>4. ASSUME NEW p \in Query PROVE DashPhase(p)'
  <2>1. CASE p # q
    <3>1. query'[p] = query[p] /\ posed'[p] = posed[p]  BY <2>1
    <3>2. Dash!db' = Dash!db  BY DEF Dash!db, Dash!Version
    <3>3. QED BY <3>1, <3>2 DEF DashPhase, Drawn, Counting, ReadSoFar
  <2>2. QED BY <2>1
<1>5. ASSUME NEW k, DashKey(k), NEW a, a \in [DOMAIN a -> Nat], DOMAIN a \subseteq Dash!Needs(k.section),
             Recent(k, a)
      PROVE  Recent(k, a)'
  <2>1. Current(k)' => Current(k) /\ bumped'[k.section] = bumped[k.section]
    BY DEF Current
  <2>2. ASSUME NEW p \in Query, Seeks(p, k)'
        PROVE  \/ Seeks(p, k) /\ posed'[p] = posed[p]
               \/ /\ Current(k)
                  /\ \A d \in DOMAIN a : a[d] \in Nat /\ bumped[k.section][d] \in Nat
                  /\ \A d \in DOMAIN a : posed'[p][d] \in Nat /\ posed'[p][d] <= bumped[k.section][d]
    <3>1. CASE p # q
      <4>1. query'[p] = query[p] /\ posed'[p] = posed[p]  BY <3>1
      <4>2. QED BY <4>1, <2>2 DEF Seeks, Counting
    <3>2. CASE p = q /\ Seeks(q, k) /\ posed'[q] = posed[q]
      BY <3>2
    <3>3. CASE p = q /\ ~ (Seeks(q, k) /\ posed'[q] = posed[q])
      <4>1. /\ Current(k) /\ query'[q].section = k.section /\ query'[q].pc # "idle"
            /\ k.section \in Section
        BY <3>3, <2>2, <1>5 DEF Seeks, Counting, DashKey
      <4>2. /\ posed'[q] \in [Dash!Needs(k.section) -> Nat]
            /\ \A d \in Dash!Needs(k.section) : posed'[q][d] <= bumped[k.section][d]
        BY <4>1 DEF DashPhase
      <4>3. \A d \in Dash!Needs(k.section) : bumped[k.section][d] \in Nat
        BY <4>1, DashNeeds DEF DashTypes
      <4>4. QED BY <4>1, <4>2, <4>3, <3>3, <1>5
    <3>4. QED BY <3>1, <3>2, <3>3
  <2>3. QED BY <2>1, <2>2, <1>5, RecentStays
<1>6. EntriesRecent'
  <2>1. ASSUME NEW k \in DOMAIN kept' PROVE Recent(k, kept[k])'
    <3>1. PICK a : a = kept'[k]  OBVIOUS
    <3>2. /\ DashKey(k) /\ a \in [DOMAIN a -> Nat] /\ DOMAIN a = Dash!Needs(k.section)
      BY <1>3, <3>1 DEF DashEntries, DashKey, Drawn
    <3>3. Recent(k, a)
      <4>1. CASE k \in DOMAIN kept /\ kept'[k] = kept[k]
        BY <3>1, <4>1 DEF EntriesRecent
      <4>2. CASE New(k) /\ Fills(q)
        BY <3>1, <4>2 DEF FillsRecent
      <4>3. QED BY <1>2, <4>1, <4>2
    <3>4. Recent(k, a)'  BY <3>2, <3>3, <1>5
    <3>5. QED BY <3>4, <3>1 DEF Recent
  <2>2. QED BY <2>1 DEF EntriesRecent
<1>7. FillsRecent'
  <2>1. ASSUME NEW p \in Query, Fills(p)', p # q PROVE Recent(Dash!Key(p), query[p].answer)'
    <3>1. query'[p] = query[p]  BY <2>1
    <3>2. Fills(p) /\ Dash!Key(p)' = Dash!Key(p)
      BY <3>1, <2>1 DEF Fills, Dash!Key
    <3>3. PICK k, a : k = Dash!Key(p) /\ a = query[p].answer  OBVIOUS
    <3>4. DashKey(k) /\ k.section = query[p].section  BY <3>2, <3>3, KeptKeys
    <3>5. Recent(k, a)  BY <3>2, <3>3 DEF FillsRecent
    <3>6. a \in [DOMAIN a -> Nat] /\ DOMAIN a \subseteq Dash!Needs(k.section)
      <4>1. query[p] \in DashRequests /\ DashPhase(p) /\ k.section \in Section
        BY <3>4 DEF DashTypes, DashKey
      <4>2. a \in [DOMAIN a -> Nat]  BY <4>1, <3>3 DEF DashRequests
      <4>3. DOMAIN a \subseteq Dash!Needs(k.section)
        <5>1. CASE query[p].pc = "build"
          <6>1. DOMAIN a = {Depends[k.section][i] : i \in 1 .. query[p].at - 1}
            BY <5>1, <4>1, <3>3, <3>4 DEF DashPhase, ReadSoFar
          <6>2. query[p].at <= Len(Depends[k.section]) /\ query[p].at \in Nat \ {0}
            BY <5>1, <4>1, <3>4 DEF DashPhase, DashRequests
          <6>3. 1 .. query[p].at - 1 \subseteq 1 .. Len(Depends[k.section])
            BY <6>2, <4>1, DashNeeds
          <6>4. QED BY <6>1, <6>3, <4>1, DashNeeds
        <5>2. CASE query[p].pc = "store"
          BY <5>2, <4>1, <3>3, <3>4 DEF DashPhase
        <5>3. QED BY <5>1, <5>2, <3>2 DEF Fills
      <4>4. QED BY <4>2, <4>3
    <3>7. Recent(k, a)'  BY <3>4, <3>5, <3>6, <1>5
    <3>8. QED BY <3>7, <3>3, <3>2, <3>1 DEF Recent
  <2>2. QED BY <2>1 DEF FillsRecent
<1>8. QED BY <1>1, <1>3, <1>4, <1>6, <1>7

LEMMA Asked ==
  ASSUME DashInv, NEW q \in Query, query[q].pc # "idle"
  PROVE  /\ query[q] \in DashRequests /\ query[q].section \in Section
         /\ posed[q] \in [Dash!Needs(query[q].section) -> Nat]
         /\ \A d \in Dash!Needs(query[q].section) :
              posed[q][d] <= bumped[query[q].section][d]
         /\ Drawn(query[q].section, query[q].gens)
BY DEF DashInv, DashTypes, DashPhase

LEMMA DashAsk ==
  ASSUME DashInv, NEW q \in Query, NEW s \in Section, Dash!Ask(q, s)
  PROVE  DashInv'
<1>0. PICK r : r = [Dash!Idle EXCEPT !.pc = "get", !.section = s]  OBVIOUS
<1> DEFINE b == [k \in Dash!Needs(s) |-> bumped[s][k]]
<1>1. query' = [query EXCEPT ![q] = r] /\ posed' = [posed EXCEPT ![q] = b]
  BY <1>0 DEF Dash!Ask, Dash!Put
<1>10. /\ r.pc = "get" /\ r.section = s /\ r.at = 1 /\ r.gens = << >> /\ r.cached = TRUE
       /\ r.answer = << >>
  BY <1>0 DEF Dash!Idle
<1>12. r.cached \in BOOLEAN  BY <1>0 DEF Dash!Idle
<1>11. r = [pc |-> r.pc, section |-> r.section, at |-> r.at, gens |-> r.gens,
            cached |-> r.cached, answer |-> r.answer]
  BY <1>0 DEF Dash!Idle
<1>2. /\ query \in [Query -> DashRequests] /\ posed = [p \in Query |-> posed[p]]
      /\ bumped[s] \in [Kind -> Nat] /\ Dash!Needs(s) \subseteq Kind
      /\ Depends[s] \in Seq(Kind) /\ Len(Depends[s]) \in Nat \ {0}
  BY DashNeeds DEF DashInv, DashTypes
<1>3. r \in DashRequests
  <2>1. << >> \in UNION {[S -> Nat] : S \in SUBSET Kind}
    <3>1. << >> \in [{} -> Nat] /\ {} \in SUBSET Kind  OBVIOUS
    <3>2. QED BY <3>1
  <2>2. << >> \in Seq(Nat)  OBVIOUS
  <2>3. r.gens \in Seq(Nat)  BY <2>2, <1>10
  <2>4. r.answer \in UNION {[S -> Nat] : S \in SUBSET Kind}  BY <2>1, <1>10
  <2>5. r.at \in Nat \ {0} /\ r.section \in Section  BY <1>10
  <2>6. r.pc \in {"get"}  BY <1>10
  <2>7. QED BY <2>3, <2>4, <2>5, <2>6, <1>11, <1>12 DEF DashRequests
<1>4. query'[q] = r /\ posed'[q] = b  BY <1>1, <1>2
<1>5. DashPhase(q)'
  <2>1. b \in [Dash!Needs(s) -> Nat] /\ \A d \in Dash!Needs(s) : b[d] <= bumped[s][d]
    BY <1>2
  <2>2. Drawn(s, << >>)'  BY <1>2 DEF Drawn, Dash!Ask
  <2>3. bumped' = bumped  BY DEF Dash!Ask
  <2> HIDE DEF b
  <2>4. QED BY <1>4, <1>10, <2>1, <2>2, <2>3, <1>2 DEF DashPhase, Counting
<1>6. ASSUME NEW k, DashKey(k), Seeks(q, k)' PROVE Current(k)
  <2>1. counts' = counts  BY DEF Dash!Ask
  <2>2. Len(k.gens) \in Nat  BY <1>6 DEF DashKey, Drawn
  <2>3. QED BY <1>4, <1>6, <1>10, <2>1, <2>2 DEF Seeks, Current, Counting
<1>7. ~ Fills(q)'  BY <1>4, <1>10 DEF Fills
<1>8. DashGoes(q)
  <2>1. query' \in [Query -> DashRequests]  BY <1>1, <1>2, <1>3
  <2>2. /\ \A p \in Query \ {q} : query'[p] = query[p] /\ posed'[p] = posed[p]
        /\ posed' = [p \in Query |-> posed'[p]]
    BY <1>1, <1>2
  <2>3. UNCHANGED <<day, rows, task, counts, bumped>> /\ kept' = kept  BY DEF Dash!Ask
  <2>4. QED BY <2>1, <2>2, <2>3, <1>5, <1>6, <1>7 DEF DashGoes
<1>9. QED BY <1>8, DashGoesStep

\* A step of a request that is open: what is left to show about its new state.
LEMMA DashPutStep ==
  ASSUME DashInv, NEW q \in Query, query[q].pc # "idle",
         NEW r \in DashRequests, query' = [query EXCEPT ![q] = r],
         UNCHANGED <<day, rows, task, counts, bumped, kept, posed>>,
         r.section = query[q].section, r.pc # "idle", Drawn(r.section, r.gens),
         DashPhase(q)',
         \A k : DashKey(k) /\ Seeks(q, k)' => Seeks(q, k),
         r.pc \in {"build", "store"} /\ r.cached => Recent(Dash!Key(q), r.answer)'
  PROVE  DashInv'
<1>1. query \in [Query -> DashRequests] /\ posed = [p \in Query |-> posed[p]]
  BY DEF DashInv, DashTypes
<1>2. query'[q] = r  BY <1>1
<1>3. Fills(q)' => Recent(Dash!Key(q), query[q].answer)'
  BY <1>2 DEF Fills, Recent
<1>4. DashGoes(q)
  BY <1>1, <1>2, <1>3 DEF DashGoes
<1>5. QED BY <1>4, DashGoesStep

LEMMA DashTake ==
  ASSUME DashInv, NEW q \in Query, Counting(query[q]), NEW g \in Nat \ {0},
         g = counts[Dash!Dep(q)], Dash!Take(q, g),
         UNCHANGED <<day, rows, task, counts, bumped, kept, posed>>
  PROVE  DashInv'
<1>0. PICK x : x = query[q]  OBVIOUS
<1>1. /\ x \in DashRequests /\ x.section \in Section /\ DashPhase(q) /\ x.pc # "idle"
      /\ Counting(x)
  BY <1>0, Asked DEF DashInv, Counting
<1> DEFINE n == Len(Depends[x.section])
           pc == IF x.at = n THEN "lookup" ELSE "get"
           at == IF x.at = n THEN 1 ELSE x.at + 1
<1>2. n \in Nat \ {0} /\ Depends[x.section] \in Seq(Kind)
  BY <1>1, DashNeeds DEF DashInv
<1>3. /\ x.cached = TRUE /\ x.at \in Nat \ {0} /\ x.at <= n /\ x.gens \in Seq(Nat)
      /\ Len(x.gens) = x.at - 1 /\ x.answer = << >>
      /\ x.answer \in UNION {[S -> Nat] : S \in SUBSET Kind}
  BY <1>0, <1>1 DEF DashRequests, DashPhase, Counting
<1>4. /\ Append(x.gens, g) \in Seq(Nat) /\ Len(Append(x.gens, g)) = x.at
      /\ \A i \in 1 .. x.at - 1 : Append(x.gens, g)[i] = x.gens[i]
      /\ Append(x.gens, g)[x.at] = g
  BY <1>3
<1>5. g = counts[Depends[x.section][x.at]] /\ g \in Nat \ {0}  BY <1>0 DEF Dash!Dep
<1>6. Drawn(x.section, Append(x.gens, g))
  <2>1. \A i \in 1 .. x.at - 1 : 0 < x.gens[i] /\ x.gens[i] <= counts[Depends[x.section][i]]
    BY <1>0, <1>1, <1>3, Asked DEF Drawn
  <2>2. ASSUME NEW i \in 1 .. x.at
        PROVE  0 < Append(x.gens, g)[i] /\ Append(x.gens, g)[i] <= counts[Depends[x.section][i]]
    <3>1. CASE i = x.at  BY <3>1, <1>4, <1>5
    <3>2. CASE i # x.at
      <4>1. i \in 1 .. x.at - 1  BY <3>2, <1>3
      <4>2. QED BY <4>1, <2>1, <1>4
    <3>3. QED BY <3>1, <3>2
  <2>3. QED BY <2>2, <1>2, <1>3, <1>4 DEF Drawn
<1>7. PICK r : r = [x EXCEPT !.gens = Append(x.gens, g), !.pc = pc, !.at = at]  OBVIOUS
<1>8. query' = [query EXCEPT ![q] = r]
  BY <1>0, <1>7 DEF Dash!Take, Dash!Put, Dash!Last
<1>17. x = [pc |-> x.pc, section |-> x.section, at |-> x.at, gens |-> x.gens,
            cached |-> x.cached, answer |-> x.answer]
  BY <1>1 DEF DashRequests
<1>9. /\ r.pc = pc /\ r.section = x.section
      /\ r.at = at /\ r.gens = Append(x.gens, g)
      /\ r.cached = x.cached /\ r.answer = x.answer
      /\ r = [pc |-> r.pc, section |-> r.section, at |-> r.at, gens |-> r.gens,
              cached |-> r.cached, answer |-> r.answer]
  <2> HIDE DEF pc, at
  <2>1. QED BY <1>7, <1>17
<1>14. r \in DashRequests
  <2>1. pc \in {"lookup", "get"} /\ at \in Nat \ {0}  BY <1>2, <1>3
  <2>2. x.cached \in BOOLEAN  BY <1>3
  <2> HIDE DEF pc, at
  <2>3. QED BY <2>1, <2>2, <1>1, <1>3, <1>4, <1>9 DEF DashRequests
<1>10. query'[q] = r  BY <1>8 DEF DashInv, DashTypes
<1>15. /\ posed[q] \in [Dash!Needs(x.section) -> Nat]
       /\ \A d \in Dash!Needs(x.section) : posed[q][d] <= bumped[x.section][d]
  BY <1>0, <1>1, Asked
<1>16. Len(r.gens) = x.at /\ (x.at = n => at = 1) /\ (x.at # n => at = x.at + 1 /\ at <= n)
  BY <1>2, <1>3, <1>4, <1>9
<1>11. DashPhase(q)'
  <2>1. Drawn(r.section, r.gens)'  BY <1>6, <1>9 DEF Drawn
  <2>2. x.at = n => pc = "lookup"  OBVIOUS
  <2>3. x.at # n => pc = "get"  OBVIOUS
  <2>4. posed' = posed /\ bumped' = bumped  OBVIOUS
  <2> HIDE DEF pc, at
  <2>5. CASE x.at = n
    <3>1. r.pc = "lookup"  BY <2>2, <2>5, <1>9
    <3>2. QED BY <1>1, <1>3, <1>9, <1>10, <1>15, <1>16, <2>1, <2>4, <2>5, <3>1
             DEF DashPhase, Counting
  <2>6. CASE x.at # n
    <3>1. /\ r.pc = "get" /\ r.at = x.at + 1 /\ r.at <= Len(Depends[r.section])
          /\ Len(r.gens) = r.at - 1
      BY <2>3, <2>6, <1>3, <1>9, <1>16
    <3>2. QED BY <1>1, <1>3, <1>9, <1>10, <1>15, <1>16, <2>1, <2>4, <2>6, <3>1
             DEF DashPhase, Counting
  <2>7. QED BY <2>5, <2>6
<1>12. ASSUME NEW k, DashKey(k), Seeks(q, k)' PROVE Seeks(q, k)
  <2>1. Len(k.gens) \in Nat /\ k.gens \in Seq(Nat) /\ k.section = x.section /\ Len(k.gens) = n
    BY <1>12, <1>9, <1>10 DEF DashKey, Drawn, Seeks
  <2>2. CASE x.at = n
    <3>1. k.gens = Append(x.gens, g)  BY <1>12, <1>9, <1>10, <2>2 DEF Seeks, Counting
    <3>2. ASSUME NEW i \in 1 .. Len(k.gens)
          PROVE  k.gens[i] = IF i < x.at THEN x.gens[i] ELSE counts[Depends[k.section][i]]
      <4>1. CASE i < x.at
        <5>1. i \in 1 .. x.at - 1  BY <4>1, <1>3
        <5>2. QED BY <5>1, <4>1, <3>1, <1>4
      <4>2. CASE i >= x.at
        <5>1. i = x.at  BY <4>2, <2>1, <2>2, <1>2
        <5>2. QED BY <5>1, <4>2, <3>1, <2>1, <1>4, <1>5
      <4>3. QED BY <4>1, <4>2, <1>3, <2>1
    <3>3. QED BY <3>2, <2>1, <1>0, <1>1 DEF Seeks
  <2>3. CASE x.at # n
    <3>1. \A i \in 1 .. n : k.gens[i] = IF i < x.at + 1 THEN Append(x.gens, g)[i]
                                        ELSE counts[Depends[k.section][i]]
      BY <1>12, <1>9, <1>10, <2>3, <2>1 DEF Seeks, Counting
    <3>2. \A i \in 1 .. n : k.gens[i] = IF i < x.at THEN x.gens[i]
                                        ELSE counts[Depends[k.section][i]]
      <4>1. ASSUME NEW i \in 1 .. n
            PROVE  k.gens[i] = IF i < x.at THEN x.gens[i] ELSE counts[Depends[k.section][i]]
        <5>1. CASE i < x.at
          <6>1. i \in 1 .. x.at - 1 /\ i < x.at + 1  BY <5>1, <1>3
          <6>2. QED BY <6>1, <5>1, <3>1, <1>4
        <5>2. CASE i = x.at
          <6>1. i < x.at + 1 /\ ~ i < x.at  BY <5>2, <1>3
          <6>2. k.gens[i] = g  BY <6>1, <5>2, <3>1, <1>4
          <6>3. QED BY <6>1, <6>2, <5>2, <1>5, <2>1
        <5>3. CASE i > x.at
          BY <5>3, <3>1, <1>3
        <5>4. QED BY <5>1, <5>2, <5>3, <1>3
      <4>2. QED BY <4>1
    <3>3. QED BY <3>2, <2>1, <1>0, <1>1 DEF Seeks
  <2>4. QED BY <2>2, <2>3
<1>13. QED BY <1>0, <1>1, <1>6, <1>8, <1>9, <1>11, <1>12, <1>14, DashPutStep

\* Steps that change the pc alone, among those that leave the answer empty.
LEMMA DashGo ==
  ASSUME DashInv, NEW q \in Query, query[q].pc # "idle",
         NEW pc \in {"add", "again", "build"}, Dash!Go(q, pc),
         UNCHANGED <<day, rows, task, counts, bumped, kept, posed>>,
         pc \in {"add", "again"} => Counting(query[q]),
         pc = "again" => counts[Dash!Dep(q)] # 0,
         pc = "build" => query[q].pc = "lookup"
  PROVE  DashInv'
<1>0. PICK x, r : /\ x = query[q]
                   /\ r = [pc |-> pc, section |-> x.section, at |-> x.at, gens |-> x.gens,
                           cached |-> x.cached, answer |-> x.answer]
  OBVIOUS
<1>1. /\ x \in DashRequests /\ x.section \in Section /\ DashPhase(q)
      /\ posed[q] \in [Dash!Needs(x.section) -> Nat]
      /\ \A d \in Dash!Needs(x.section) : posed[q][d] <= bumped[x.section][d]
  BY <1>0, Asked DEF DashInv
<1>2. x = [pc |-> x.pc, section |-> x.section, at |-> x.at, gens |-> x.gens,
           cached |-> x.cached, answer |-> x.answer]
  BY <1>1 DEF DashRequests
<1>3. query' = [query EXCEPT ![q] = r]
  <2>1. [x EXCEPT !.pc = pc] = r  BY <1>0, <1>2
  <2>2. QED BY <2>1, <1>0 DEF Dash!Go, Dash!Put
<1>4. r \in DashRequests  BY <1>0, <1>1 DEF DashRequests
<1>5. /\ r.pc = pc /\ r.section = x.section /\ r.at = x.at /\ r.gens = x.gens
      /\ r.cached = x.cached /\ r.answer = x.answer
  BY <1>0
<1>6. query'[q] = r  BY <1>3 DEF DashInv, DashTypes
<1>7. Len(Depends[x.section]) \in Nat \ {0}  BY <1>1, DashNeeds DEF DashInv
<1>8. Drawn(x.section, x.gens)  BY <1>0, Asked
<1>9. DashPhase(q)'
  <2>1. Drawn(r.section, r.gens)'  BY <1>5, <1>8 DEF Drawn
  <2>2. CASE pc = "build"
    <3>1. x.answer = << >> /\ x.at = 1 /\ x.cached /\ Len(x.gens) = Len(Depends[x.section])
      BY <1>0, <1>1, <2>2 DEF DashPhase
    <3>2. DOMAIN r.answer = {} /\ ReadSoFar(r) = {}
      BY <3>1, <1>5 DEF ReadSoFar
    <3>3. QED BY <1>1, <1>5, <1>6, <1>7, <2>1, <2>2, <3>1, <3>2
             DEF DashPhase, Counting, ReadSoFar
  <2>3. CASE pc # "build"
    <3>1. Counting(x) /\ (pc = "again" => counts[Depends[x.section][x.at]] # 0)
      BY <1>0, <2>3 DEF Dash!Dep
    <3>2. /\ x.cached /\ x.at <= Len(Depends[x.section]) /\ Len(x.gens) = x.at - 1
          /\ x.answer = << >>
      BY <1>0, <1>1, <3>1 DEF DashPhase
    <3>3. QED BY <1>1, <1>5, <1>6, <2>1, <2>3, <3>1, <3>2 DEF DashPhase, Counting
  <2>4. QED BY <2>2, <2>3
<1>10. ASSUME NEW k, DashKey(k), Seeks(q, k)' PROVE Seeks(q, k)
  <2>1. CASE pc = "build"
    BY <1>0, <1>5, <1>6, <1>10, <2>1 DEF Seeks, Counting
  <2>2. CASE pc # "build"
    <3>1. counts' = counts  OBVIOUS
    <3>2. Counting(x) /\ k.section = x.section
      BY <1>0, <1>5, <1>6, <1>10, <2>2 DEF Seeks
    <3>3. \A i \in 1 .. Len(k.gens) :
            k.gens[i] = IF i < x.at THEN x.gens[i] ELSE counts[Depends[k.section][i]]
      BY <1>5, <1>6, <1>10, <2>2, <3>1 DEF Seeks, Counting
    <3>4. QED BY <1>0, <3>2, <3>3 DEF Seeks
  <2>3. QED BY <2>1, <2>2
<1>11. ASSUME r.pc = "build" PROVE Recent(Dash!Key(q), r.answer)'
  <2>1. r.answer = << >>  BY <1>0, <1>1, <1>5, <1>11 DEF DashPhase
  <2>2. DOMAIN r.answer = {}  BY <2>1
  <2>3. QED BY <2>2 DEF Recent
<1>12. QED BY <1>0, <1>1, <1>3, <1>4, <1>5, <1>8, <1>9, <1>10, <1>11, DashPutStep

LEMMA DashReadGeneration ==
  ASSUME DashInv, NEW q \in Query, Dash!ReadGeneration(q)
  PROVE  DashInv'
<1>1. /\ query[q].pc \in {"get", "again"} /\ query[q].pc # "idle"
      /\ UNCHANGED <<day, rows, task, counts, bumped, kept, posed>>
  BY DEF Dash!ReadGeneration
<1>2. Counting(query[q])  BY <1>1 DEF Counting
<1>3. /\ query[q] \in DashRequests /\ query[q].section \in Section /\ DashPhase(q)
      /\ query[q].at \in Nat \ {0} /\ query[q].at <= Len(Depends[query[q].section])
  BY <1>1, <1>2, Asked DEF DashInv, DashPhase, DashRequests
<1>4. Dash!Dep(q) \in Kind /\ counts[Dash!Dep(q)] \in Nat
  <2>1. /\ Len(Depends[query[q].section]) \in Nat /\ counts \in [Kind -> Nat]
        /\ Depends[query[q].section] \in Seq(Kind)
    BY <1>3, DashNeeds DEF DashInv, DashTypes
  <2>2. QED BY <2>1, <1>3 DEF Dash!Dep
<1>5. CASE counts[Dash!Dep(q)] # 0
  BY <1>1, <1>2, <1>4, <1>5, DashTake DEF Dash!ReadGeneration
<1>6. CASE counts[Dash!Dep(q)] = 0
  <2>1. query[q].pc = "get" /\ Dash!Go(q, "add")
    <3>1. counts[Depends[query[q].section][query[q].at]] = 0  BY <1>6 DEF Dash!Dep
    <3>2. query[q].pc # "again"  BY <3>1, <1>2, <1>3 DEF DashPhase
    <3>3. query[q].pc = "get"  BY <3>2, <1>1
    <3>4. QED BY <3>3, <1>6 DEF Dash!ReadGeneration
  <2>2. QED BY <2>1, <1>1, <1>2, DashGo
<1>7. QED BY <1>5, <1>6

LEMMA DashBypass ==
  ASSUME DashInv, NEW q \in Query, Dash!Bypass(q)
  PROVE  DashInv'
<1>0. PICK x, r : /\ x = query[q]
                  /\ r = [Dash!Idle EXCEPT !.pc = "build", !.section = x.section, !.cached = FALSE]
  OBVIOUS
<1>1. /\ x \in DashRequests /\ x.section \in Section /\ DashPhase(q) /\ x.pc # "idle"
      /\ posed[q] \in [Dash!Needs(x.section) -> Nat]
      /\ \A d \in Dash!Needs(x.section) : posed[q][d] <= bumped[x.section][d]
  BY <1>0, Asked DEF DashInv, Dash!Bypass
<1>2. /\ query' = [query EXCEPT ![q] = r]
      /\ UNCHANGED <<day, rows, task, counts, bumped, kept, posed>>
  BY <1>0 DEF Dash!Bypass, Dash!Put
<1>3. /\ r.pc = "build" /\ r.section = x.section /\ r.at = 1 /\ r.gens = << >>
      /\ r.cached = FALSE /\ r.answer = << >>
  BY <1>0 DEF Dash!Idle
<1>12. r.cached \in BOOLEAN  BY <1>0 DEF Dash!Idle
<1>11. r = [pc |-> r.pc, section |-> r.section, at |-> r.at, gens |-> r.gens,
            cached |-> r.cached, answer |-> r.answer]
  BY <1>0 DEF Dash!Idle
<1>4. r \in DashRequests
  <2>1. << >> \in UNION {[S -> Nat] : S \in SUBSET Kind}
    <3>1. << >> \in [{} -> Nat] /\ {} \in SUBSET Kind  OBVIOUS
    <3>2. QED BY <3>1
  <2>2. r.gens \in Seq(Nat)  BY <1>3
  <2>3. r.answer \in UNION {[S -> Nat] : S \in SUBSET Kind}  BY <2>1, <1>3
  <2>4. r.at \in Nat \ {0} /\ r.section \in Section
    BY <1>1, <1>3
  <2>5. r.pc \in {"build"}  BY <1>3
  <2>6. QED BY <2>2, <2>3, <2>4, <2>5, <1>11, <1>12 DEF DashRequests
<1>5. query'[q] = r  BY <1>2 DEF DashInv, DashTypes
<1>6. Drawn(r.section, r.gens) /\ Len(Depends[x.section]) \in Nat \ {0}
  <2>1. Len(Depends[x.section]) \in Nat \ {0}  BY <1>1, DashNeeds DEF DashInv
  <2>2. QED BY <2>1, <1>3 DEF Drawn
<1>7. DashPhase(q)'
  <2>1. Drawn(r.section, r.gens)'  BY <1>2, <1>6 DEF Drawn
  <2>2. DOMAIN r.answer = {} /\ ReadSoFar(r) = {}  BY <1>3 DEF ReadSoFar
  <2>4. r.pc = "build" /\ r.section = x.section /\ r.at = 1 /\ ~ r.cached  BY <1>3
  <2>5. posed' = posed /\ bumped' = bumped  BY <1>2
  <2>3. QED BY <2>4, <2>5, <1>1, <1>5, <1>6, <2>1, <2>2 DEF DashPhase, Counting
<1>8. \A k : ~ Seeks(q, k)'  BY <1>3, <1>5 DEF Seeks, Counting
<1>9. QED BY <1>0, <1>1, <1>2, <1>3, <1>4, <1>6, <1>7, <1>8, DashPutStep

\* A request is done, with an answer that is good enough.
LEMMA DashDone ==
  ASSUME DashInv, NEW q \in Query, query[q].pc # "idle",
         NEW a \in [Dash!Needs(query[q].section) -> Nat],
         \A d \in Dash!Needs(query[q].section) : posed[q][d] <= a[d] /\ a[d] <= Dash!db[d],
         Dash!Put(q, Dash!Done(q, a)),
         UNCHANGED <<day, rows, task, counts, bumped, posed>>,
         \A k \in DOMAIN kept' :
           \/ k \in DOMAIN kept /\ kept'[k] = kept[k]
           \/ query[q].pc = "store" /\ k = Dash!Key(q) /\ kept'[k] = query[q].answer
  PROVE  DashInv'
<1>0. PICK x, r : /\ x = query[q]
                  /\ r = [Dash!Idle EXCEPT !.pc = "done", !.section = x.section, !.answer = a]
  OBVIOUS
<1>1. /\ x \in DashRequests /\ x.section \in Section /\ x.pc # "idle"
      /\ posed[q] \in [Dash!Needs(x.section) -> Nat]
      /\ \A d \in Dash!Needs(x.section) : posed[q][d] <= bumped[x.section][d]
  BY <1>0, Asked
<1>2. query' = [query EXCEPT ![q] = r]
  BY <1>0 DEF Dash!Put, Dash!Done
<1>3. /\ r.pc = "done" /\ r.section = x.section /\ r.at = 1 /\ r.gens = << >>
      /\ r.cached = TRUE /\ r.answer = a
  BY <1>0 DEF Dash!Idle
<1>12. r.cached \in BOOLEAN  BY <1>0 DEF Dash!Idle
<1>11. r = [pc |-> r.pc, section |-> r.section, at |-> r.at, gens |-> r.gens,
            cached |-> r.cached, answer |-> r.answer]
  BY <1>0 DEF Dash!Idle
<1>4. r \in DashRequests
  <2>1. Dash!Needs(x.section) \in SUBSET Kind  BY <1>1, DashNeeds DEF DashInv
  <2>2. a \in UNION {[S -> Nat] : S \in SUBSET Kind}  BY <2>1, <1>0
  <2>3. r.gens \in Seq(Nat)  BY <1>3
  <2>4. r.answer \in UNION {[S -> Nat] : S \in SUBSET Kind}  BY <2>2, <1>3
  <2>5. r.at \in Nat \ {0} /\ r.section \in Section
    BY <1>1, <1>3
  <2>6. r.pc \in {"done"}  BY <1>3
  <2>7. QED BY <2>3, <2>4, <2>5, <2>6, <1>11, <1>12 DEF DashRequests
<1>5. /\ query \in [Query -> DashRequests] /\ posed = [p \in Query |-> posed[p]]
      /\ query'[q] = r
  BY <1>2 DEF DashInv, DashTypes
<1>6. Drawn(r.section, r.gens)
  <2>1. Len(Depends[x.section]) \in Nat \ {0}  BY <1>1, DashNeeds DEF DashInv
  <2>2. QED BY <2>1, <1>3 DEF Drawn
<1>7. DashPhase(q)'
  <2>1. Drawn(r.section, r.gens)'  BY <1>6 DEF Drawn
  <2>2. DOMAIN r.answer = Dash!Needs(x.section)  BY <1>0, <1>3
  <2>3. Dash!db' = Dash!db  BY DEF Dash!db, Dash!Version
  <2>4. \A d \in Dash!Needs(x.section) : posed[q][d] <= a[d] /\ a[d] <= Dash!db[d]
    BY <1>0
  <2>5. QED BY <1>1, <1>3, <1>5, <2>1, <2>2, <2>3, <2>4 DEF DashPhase, Counting
<1>8. ~ Fills(q)' /\ \A k : ~ Seeks(q, k)'  BY <1>3, <1>5 DEF Seeks, Counting, Fills
<1>9. DashGoes(q)
  <2>1. query' \in [Query -> DashRequests]  BY <1>2, <1>4, <1>5
  <2>2. \A p \in Query \ {q} : query'[p] = query[p] /\ posed'[p] = posed[p]  BY <1>2, <1>5
  <2>3. QED BY <1>5, <1>7, <1>8, <2>1, <2>2 DEF DashGoes
<1>10. QED BY <1>9, DashGoesStep

LEMMA DashLookup ==
  ASSUME DashInv, NEW q \in Query, Dash!Lookup(q)
  PROVE  DashInv'
<1>1. /\ query[q].pc = "lookup" /\ query[q].pc # "idle"
      /\ UNCHANGED <<day, rows, task, counts, bumped, kept, posed>>
  BY DEF Dash!Lookup
<1>2. CASE Dash!Key(q) \in DOMAIN kept
  <2>1. PICK k : k = Dash!Key(q)  OBVIOUS
  <2>2. k.section = query[q].section /\ k.gens = query[q].gens  BY <2>1 DEF Dash!Key
  <2>3. Seeks(q, k)  BY <1>1, <2>2 DEF Seeks
  <2>4. /\ kept[k] \in [Dash!Needs(k.section) -> Nat]
        /\ \A d \in Dash!Needs(k.section) : kept[k][d] <= Dash!db[d]
        /\ Recent(k, kept[k])
    BY <1>2, <2>1 DEF DashInv, DashEntries, EntriesRecent
  <2>5. \A d \in DOMAIN kept[k] : posed[q][d] <= kept[k][d]  BY <2>3, <2>4 DEF Recent
  <2>6. DOMAIN kept[k] = Dash!Needs(query[q].section)  BY <2>2, <2>4
  <2>7. Dash!Put(q, Dash!Done(q, kept[k]))  BY <1>2, <2>1 DEF Dash!Lookup
  <2>8. QED BY <1>1, <2>2, <2>4, <2>5, <2>6, <2>7, DashDone
<1>3. CASE Dash!Key(q) \notin DOMAIN kept
  <2>1. Dash!Go(q, "build")  BY <1>3 DEF Dash!Lookup
  <2>2. QED BY <2>1, <1>1, DashGo
<1>4. QED BY <1>2, <1>3

LEMMA DashStore ==
  ASSUME DashInv, NEW q \in Query, Dash!Store(q)
  PROVE  DashInv'
<1>1. /\ query[q].pc = "store" /\ query[q].pc # "idle"
      /\ UNCHANGED <<day, rows, task, counts, bumped, posed>>
      /\ Dash!Put(q, Dash!Done(q, query[q].answer))
      /\ kept' = Dash!With(kept, Dash!Key(q), query[q].answer) \/ kept' = kept
  BY DEF Dash!Store
<1>2. query[q] \in DashRequests /\ DashPhase(q)  BY <1>1, Asked DEF DashInv
<1>3. query[q].answer \in [Dash!Needs(query[q].section) -> Nat]
  BY <1>1, <1>2 DEF DashPhase, DashRequests
<1>4. \A d \in Dash!Needs(query[q].section) :
        posed[q][d] <= query[q].answer[d] /\ query[q].answer[d] <= Dash!db[d]
  BY <1>1, <1>2 DEF DashPhase
<1>5. \A k \in DOMAIN kept' :
        \/ k \in DOMAIN kept /\ kept'[k] = kept[k]
        \/ query[q].pc = "store" /\ k = Dash!Key(q) /\ kept'[k] = query[q].answer
  BY <1>1 DEF Dash!With
<1>6. QED BY <1>1, <1>3, <1>4, <1>5, DashDone

Reads(q, x, e, a) ==
  /\ x = query[q] /\ x.pc = "build" /\ e = Dash!Dep(q)
  /\ a = Dash!With(x.answer, e, Dash!db[e])

ReadUpTo(s, n) == {Depends[s][i] : i \in 1 .. n}

LEMMA ReadNext ==
  ASSUME DashInv, NEW q \in Query, NEW x, NEW e, NEW a, Reads(q, x, e, a)
  PROVE  /\ a \in [DOMAIN a -> Nat]
         /\ DOMAIN a = ReadUpTo(x.section, x.at)
         /\ \A d \in DOMAIN a : posed[q][d] <= a[d] /\ a[d] <= Dash!db[d]
         /\ \A d \in DOMAIN a : d # e =>
              d \in DOMAIN x.answer /\ a[d] = x.answer[d]
         /\ a[e] = Dash!db[e]
         /\ e \in Dash!Needs(x.section)
         /\ DOMAIN a \subseteq Dash!Needs(x.section)
<1> USE DEF Reads
<1>0. PICK m : m = Dash!Needs(x.section)  OBVIOUS
<1>1. /\ x \in DashRequests /\ x.section \in Section /\ DashPhase(q) /\ x.pc = "build"
      /\ posed[q] \in [m -> Nat]
      /\ \A d \in m : posed[q][d] <= bumped[x.section][d]
  BY <1>0, Asked DEF DashInv
<1>2. /\ Len(Depends[x.section]) \in Nat \ {0} /\ m \subseteq Kind
      /\ \A i \in 1 .. Len(Depends[x.section]) : Depends[x.section][i] \in m
  BY <1>0, <1>1, DashNeeds DEF DashInv
<1>3. /\ x.at \in Nat \ {0} /\ x.at <= Len(Depends[x.section])
      /\ DOMAIN x.answer = {Depends[x.section][i] : i \in 1 .. x.at - 1}
      /\ x.answer \in [DOMAIN x.answer -> Nat]
      /\ \A d \in DOMAIN x.answer : posed[q][d] <= x.answer[d] /\ x.answer[d] <= Dash!db[d]
  <2>1. x.at \in Nat \ {0} /\ x.answer \in [DOMAIN x.answer -> Nat]  BY <1>1 DEF DashRequests
  <2>2. QED BY <1>0, <1>1, <2>1 DEF DashPhase, ReadSoFar
<1>4. e = Depends[x.section][x.at] /\ e \in m  BY <1>0, <1>2, <1>3 DEF Dash!Dep
<1>5. Dash!db[e] \in Nat /\ posed[q][e] \in Nat /\ posed[q][e] <= Dash!db[e]
  <2>1. /\ e \in Kind /\ Dash!db \in [Kind -> Nat] /\ bumped \in [Section -> [Kind -> Nat]]
        /\ bumped[x.section][e] <= Dash!db[e]
    BY <1>1, <1>2, <1>4 DEF DashInv, DashTypes
  <2>2. Dash!db[e] \in Nat /\ bumped[x.section][e] \in Nat  BY <1>1, <2>1
  <2>3. posed[q][e] \in Nat /\ posed[q][e] <= bumped[x.section][e]  BY <1>1, <1>4
  <2>4. QED BY <2>1, <2>2, <2>3
<1>6. a = [d \in DOMAIN x.answer \cup {e} |-> IF d = e THEN Dash!db[e] ELSE x.answer[d]]
  BY <1>0 DEF Dash!With
<1>7. DOMAIN a = DOMAIN x.answer \cup {e}  BY <1>6
<1>8. DOMAIN a = {Depends[x.section][i] : i \in 1 .. x.at}
  <2>1. 1 .. x.at = (1 .. x.at - 1) \cup {x.at}  BY <1>3
  <2>2. QED BY <2>1, <1>3, <1>4, <1>7
<1>9. DOMAIN a \subseteq m
  <2>1. 1 .. x.at \subseteq 1 .. Len(Depends[x.section])  BY <1>2, <1>3
  <2>2. QED BY <2>1, <1>2, <1>8
<1>10. a[e] = Dash!db[e] /\ \A d \in DOMAIN a : d # e => d \in DOMAIN x.answer /\ a[d] = x.answer[d]
  BY <1>6, <1>7
<1>11. a \in [DOMAIN a -> Nat]
  <2>1. a \in [DOMAIN x.answer \cup {e} -> Nat]  BY <1>3, <1>5, <1>6
  <2>2. QED BY <2>1
<1>12. \A d \in DOMAIN a : posed[q][d] <= a[d] /\ a[d] <= Dash!db[d]
  <2>1. ASSUME NEW d \in DOMAIN a, d # e PROVE posed[q][d] <= a[d] /\ a[d] <= Dash!db[d]
    BY <2>1, <1>3, <1>10
  <2>2. posed[q][e] <= a[e] /\ a[e] <= Dash!db[e]  BY <1>5, <1>10
  <2>3. QED BY <2>1, <2>2
<1>14. DOMAIN a = ReadUpTo(x.section, x.at)  BY <1>8 DEF ReadUpTo
<1>13. QED BY <1>0, <1>4, <1>9, <1>10, <1>11, <1>12, <1>14

LEMMA DashBuild ==
  ASSUME DashInv, NEW q \in Query, Dash!Build(q)
  PROVE  DashInv'
<1>0. PICK x, a, e : /\ x = query[q] /\ e = Dash!Dep(q)
                     /\ a = Dash!With(x.answer, e, Dash!db[e])
  OBVIOUS
<1>1. /\ x.pc = "build" /\ x.pc # "idle" /\ query[q].pc = "build"
      /\ UNCHANGED <<day, rows, task, counts, bumped, kept, posed>>
  BY <1>0 DEF Dash!Build
<1>2. /\ x \in DashRequests /\ x.section \in Section /\ DashPhase(q)
      /\ posed[q] \in [Dash!Needs(x.section) -> Nat]
      /\ \A d \in Dash!Needs(x.section) : posed[q][d] <= bumped[x.section][d]
      /\ Drawn(x.section, x.gens)
  BY <1>0, <1>1, Asked DEF DashInv
<1>3. /\ a \in [DOMAIN a -> Nat] /\ DOMAIN a = ReadUpTo(x.section, x.at)
      /\ \A d \in DOMAIN a : posed[q][d] <= a[d] /\ a[d] <= Dash!db[d]
      /\ \A d \in DOMAIN a : d # e => d \in DOMAIN x.answer /\ a[d] = x.answer[d]
      /\ a[e] = Dash!db[e] /\ e \in Dash!Needs(x.section)
      /\ DOMAIN a \subseteq Dash!Needs(x.section)
  <2>1. Reads(q, x, e, a)  BY <1>0, <1>1 DEF Reads
  <2>2. QED BY <2>1, ReadNext
<1>4. /\ Len(Depends[x.section]) \in Nat \ {0} /\ Dash!Needs(x.section) \subseteq Kind
      /\ Dash!Needs(x.section) = {Depends[x.section][i] : i \in 1 .. Len(Depends[x.section])}
  BY <1>2, DashNeeds DEF DashInv
<1>5. /\ x.at \in Nat \ {0} /\ x.at <= Len(Depends[x.section])
      /\ x = [pc |-> x.pc, section |-> x.section, at |-> x.at, gens |-> x.gens,
              cached |-> x.cached, answer |-> x.answer]
      /\ x.cached => Len(x.gens) = Len(Depends[x.section])
      /\ x.cached \in BOOLEAN
  BY <1>0, <1>1, <1>2 DEF DashRequests, DashPhase
<1>6. a \in UNION {[S -> Nat] : S \in SUBSET Kind}
  <2>1. DOMAIN a \in SUBSET Kind  BY <1>3, <1>4
  <2>2. QED BY <1>3, <2>1
<1>7. ASSUME x.cached, query'[q].pc \in {"build", "store"}, query'[q].section = x.section,
             query'[q].gens = x.gens, \A p \in Query \ {q} : query'[p] = query[p]
      PROVE  Recent(Dash!Key(q), a)'
  <2>1. PICK k : k = Dash!Key(q)  OBVIOUS
  <2>2. k.section = x.section /\ k.gens = x.gens  BY <1>0, <2>1 DEF Dash!Key
  <2>4. Dash!Key(q)' = k  BY <1>0, <2>1, <1>7 DEF Dash!Key
  <2>5. Recent(k, x.answer)
    BY <1>0, <1>1, <1>7, <2>1 DEF DashInv, FillsRecent, Fills
  <2>6. /\ bumped[x.section] \in [Kind -> Nat] /\ Dash!db \in [Kind -> Nat] /\ e \in Kind
        /\ bumped[x.section][e] <= Dash!db[e]
    BY <1>2, <1>3, <1>4 DEF DashInv, DashTypes
  <2>7. ASSUME Current(k) PROVE \A d \in DOMAIN a : bumped[k.section][d] <= a[d]
    <3>1. \A d \in DOMAIN x.answer : bumped[k.section][d] <= x.answer[d]
      BY <2>5, <2>7 DEF Recent
    <3>2. QED BY <3>1, <2>2, <2>6, <1>3
  <2>8. ASSUME NEW p \in Query, Seeks(p, k) PROVE \A d \in DOMAIN a : posed[p][d] <= a[d]
    <3>1. \A d \in DOMAIN x.answer : posed[p][d] <= x.answer[d]  BY <2>5, <2>8 DEF Recent
    <3>2. query[p].pc # "idle" /\ query[p].section = x.section
      BY <2>2, <2>8 DEF Seeks, Counting
    <3>3. posed[p][e] \in Nat /\ posed[p][e] <= bumped[x.section][e]
      BY <3>2, <1>3, Asked
    <3>4. posed[p][e] <= a[e]  BY <3>3, <2>6, <1>3
    <3>5. QED BY <3>1, <3>4, <1>3
  <2>9. Current(k)' => Current(k)  BY <1>1 DEF Current
  <2>10. ASSUME NEW p \in Query, Seeks(p, k)' PROVE Seeks(p, k)
    <3>1. CASE p = q  BY <3>1, <2>10, <1>7 DEF Seeks, Counting
    <3>2. CASE p # q
      <4>1. query'[p] = query[p] /\ counts' = counts  BY <3>2, <1>1, <1>7
      <4>2. QED BY <4>1, <2>10 DEF Seeks, Counting
    <3>3. QED BY <3>1, <3>2
  <2>11. bumped' = bumped /\ posed' = posed  BY <1>1
  <2>12. QED BY <2>4, <2>7, <2>8, <2>9, <2>10, <2>11 DEF Recent
<1>8. CASE ~ Dash!Last(q)
  <2>1. PICK r : r = [x EXCEPT !.answer = a, !.at = x.at + 1]  OBVIOUS
  <2>2. query' = [query EXCEPT ![q] = r]
    BY <1>0, <1>8, <2>1 DEF Dash!Build, Dash!Put
  <2>3. /\ r.pc = x.pc /\ r.section = x.section /\ r.at = x.at + 1 /\ r.gens = x.gens
        /\ r.cached = x.cached /\ r.answer = a
        /\ r = [pc |-> r.pc, section |-> r.section, at |-> r.at, gens |-> r.gens,
                cached |-> r.cached, answer |-> r.answer]
    BY <1>5, <2>1
  <2>4. r.at <= Len(Depends[x.section]) /\ r.at \in Nat \ {0} /\ r.at - 1 = x.at
    BY <1>0, <1>4, <1>5, <1>8, <2>3 DEF Dash!Last
  <2>5. r \in DashRequests  BY <1>1, <1>2, <1>6, <2>3, <2>4 DEF DashRequests
  <2>6. query'[q] = r /\ \A p \in Query \ {q} : query'[p] = query[p]
    BY <2>2 DEF DashInv, DashTypes
  <2>7. DashPhase(q)'
    <3>1. Drawn(r.section, r.gens)'  BY <1>1, <1>2, <2>3 DEF Drawn
    <3>2. DOMAIN r.answer = ReadSoFar(r)  BY <1>3, <2>3, <2>4 DEF ReadSoFar, ReadUpTo
    <3>3. Dash!db' = Dash!db /\ posed' = posed /\ bumped' = bumped
      BY <1>1 DEF Dash!db, Dash!Version
    <3>4. QED BY <1>1, <1>2, <1>3, <1>5, <2>3, <2>4, <2>6, <3>1, <3>2, <3>3 DEF DashPhase, Counting
  <2>8. \A k : ~ Seeks(q, k)'  BY <1>1, <2>3, <2>6 DEF Seeks, Counting
  <2>9. r.cached => Recent(Dash!Key(q), r.answer)'
    <3>1. r.cached => Recent(Dash!Key(q), a)'  BY <1>1, <1>7, <2>3, <2>6
    <3>2. QED BY <3>1, <2>3 DEF Recent
  <2>10. QED BY <1>0, <1>1, <1>2, <2>2, <2>3, <2>5, <2>7, <2>8, <2>9, DashPutStep
<1>9. CASE Dash!Last(q) /\ x.cached
  <2>1. PICK r : r = [x EXCEPT !.answer = a, !.pc = "store"]  OBVIOUS
  <2>2. query' = [query EXCEPT ![q] = r]
    BY <1>0, <1>9, <2>1 DEF Dash!Build, Dash!Put
  <2>3. /\ r.pc = "store" /\ r.section = x.section /\ r.at = x.at /\ r.gens = x.gens
        /\ r.cached = x.cached /\ r.answer = a
        /\ r = [pc |-> r.pc, section |-> r.section, at |-> r.at, gens |-> r.gens,
                cached |-> r.cached, answer |-> r.answer]
    BY <1>5, <2>1
  <2>4. x.at = Len(Depends[x.section])  BY <1>0, <1>9 DEF Dash!Last
  <2>5. r \in DashRequests  BY <1>2, <1>5, <1>6, <2>3 DEF DashRequests
  <2>6. query'[q] = r /\ \A p \in Query \ {q} : query'[p] = query[p]
    BY <2>2 DEF DashInv, DashTypes
  <2>7. DashPhase(q)'
    <3>1. Drawn(r.section, r.gens)'  BY <1>1, <1>2, <2>3 DEF Drawn
    <3>2. DOMAIN r.answer = Dash!Needs(r.section)  BY <1>3, <1>4, <2>3, <2>4 DEF ReadUpTo
    <3>3. Dash!db' = Dash!db /\ posed' = posed /\ bumped' = bumped
      BY <1>1 DEF Dash!db, Dash!Version
    <3>4. QED BY <1>2, <1>3, <1>5, <1>9, <2>3, <2>6, <3>1, <3>2, <3>3 DEF DashPhase, Counting
  <2>8. \A k : ~ Seeks(q, k)'  BY <2>3, <2>6 DEF Seeks, Counting
  <2>9. Recent(Dash!Key(q), r.answer)'
    <3>1. Recent(Dash!Key(q), a)'  BY <1>7, <1>9, <2>3, <2>6
    <3>2. QED BY <3>1, <2>3 DEF Recent
  <2>10. QED BY <1>0, <1>1, <1>2, <2>2, <2>3, <2>5, <2>7, <2>8, <2>9, DashPutStep
<1>10. CASE Dash!Last(q) /\ ~ x.cached
  <2>1. x.at = Len(Depends[x.section])  BY <1>0, <1>10 DEF Dash!Last
  <2>2. DOMAIN a = Dash!Needs(x.section)  BY <1>3, <1>4, <2>1 DEF ReadUpTo
  <2>3. Dash!Put(q, Dash!Done(q, a))  BY <1>0, <1>10 DEF Dash!Build
  <2>4. a \in [Dash!Needs(x.section) -> Nat]  BY <1>3, <2>2
  <2>5. QED BY <1>0, <1>1, <1>3, <2>2, <2>3, <2>4, DashDone
<1>11. QED BY <1>8, <1>9, <1>10

LEMMA DashFinish ==
  ASSUME DashInv, NEW q \in Query, Dash!Finish(q)
  PROVE  DashInv'
<1>1. PICK r : r = Dash!Idle  OBVIOUS
<1>2. /\ query' = [query EXCEPT ![q] = r] /\ posed' = [posed EXCEPT ![q] = None]
      /\ UNCHANGED <<day, rows, task, counts, bumped, kept>>
  BY <1>1 DEF Dash!Finish, Dash!Put
<1>3. r.pc = "idle" /\ r.section = None /\ r.at = 1 /\ r.gens = << >> /\ r.answer = << >>
  BY <1>1 DEF Dash!Idle
<1>4. r.cached \in BOOLEAN  BY <1>1 DEF Dash!Idle
<1>5. r = [pc |-> r.pc, section |-> r.section, at |-> r.at, gens |-> r.gens,
           cached |-> r.cached, answer |-> r.answer]
  BY <1>1 DEF Dash!Idle
<1>6. r \in DashRequests
  <2>1. << >> \in UNION {[S -> Nat] : S \in SUBSET Kind}
    <3>1. << >> \in [{} -> Nat] /\ {} \in SUBSET Kind  OBVIOUS
    <3>2. QED BY <3>1
  <2>2. r.gens \in Seq(Nat)  BY <1>3
  <2>3. r.answer \in UNION {[S -> Nat] : S \in SUBSET Kind}  BY <2>1, <1>3
  <2>4. r.at \in Nat \ {0} /\ r.section = None /\ r.pc = "idle"  BY <1>3
  <2>5. QED BY <2>2, <2>3, <2>4, <1>4, <1>5 DEF DashRequests
<1>7. /\ query \in [Query -> DashRequests] /\ posed = [p \in Query |-> posed[p]]
  BY DEF DashInv, DashTypes
<1>8. query'[q] = r /\ posed'[q] = None  BY <1>2, <1>7
<1>9. DashPhase(q)'  BY <1>1, <1>3, <1>8 DEF DashPhase, Counting
<1>10. ~ Fills(q)' /\ \A k : ~ Seeks(q, k)'  BY <1>3, <1>8 DEF Seeks, Counting, Fills
<1>11. DashGoes(q)
  <2>1. query' \in [Query -> DashRequests]  BY <1>2, <1>6, <1>7
  <2>2. /\ \A p \in Query \ {q} : query'[p] = query[p] /\ posed'[p] = posed[p]
        /\ posed' = [p \in Query |-> posed'[p]]
    BY <1>2, <1>7
  <2>3. QED BY <1>2, <1>9, <1>10, <2>1, <2>2 DEF DashGoes
<1>12. QED BY <1>11, DashGoesStep
-----------------------------------------------------------------------------
(* The steps of the tasks and of Redis.                                    *)

\* A generation is counted up, and perhaps a bump is completed; a request may see
\* that the generation is there.
DashGrows(d) ==
  /\ d \in Kind /\ counts' \in [Kind -> Nat] /\ counts[d] < counts'[d]
  /\ \A k \in Kind \ {d} : counts'[k] = counts[k]
  /\ bumped' \in [Section -> [Kind -> Nat]]
  /\ \A s \in Section :
       bumped'[s] = bumped[s] \/ (d \in Dash!Needs(s) /\ bumped'[s] = Dash!db)
  /\ UNCHANGED <<day, rows, kept, posed>>
  /\ DOMAIN task' = Task /\ DashTasks'
  /\ query' \in [Query -> DashRequests]
  /\ \A p \in Query :
       \/ query'[p] = query[p]
       \/ /\ query[p].pc = "add" /\ query'[p].pc = "again"
          /\ query'[p].section = query[p].section /\ query'[p].at = query[p].at
          /\ query'[p].gens = query[p].gens /\ query'[p].cached = query[p].cached
          /\ query'[p].answer = query[p].answer
          /\ counts'[Depends[query[p].section][query[p].at]] # 0

LEMMA SeenAgain ==
  ASSUME NEW d, DashGrows(d), NEW p \in Query
  PROVE  /\ query'[p].section = query[p].section /\ query'[p].at = query[p].at
         /\ query'[p].gens = query[p].gens
         /\ \/ query'[p].pc = query[p].pc
            \/ query[p].pc = "add" /\ query'[p].pc = "again"
<1>1. CASE query'[p] = query[p]  BY <1>1
<1>2. CASE query'[p] # query[p]  BY <1>2 DEF DashGrows
<1>3. QED BY <1>1, <1>2

LEMMA DashGrowsStep ==
  ASSUME DashInv, NEW d, DashGrows(d)
  PROVE  DashInv'
<1> USE DEF DashInv, DashGrows
<1>1. Dash!db' = Dash!db  BY DEF Dash!db, Dash!Version
<1>2. /\ counts \in [Kind -> Nat] /\ \A k \in Kind : counts[k] <= counts'[k]
      /\ Dash!db \in [Kind -> Nat]
  BY DEF DashTypes
<1>3. \A s \in Section, k \in Kind :
        /\ bumped[s][k] \in Nat /\ bumped'[s][k] \in Nat
        /\ bumped[s][k] <= bumped'[s][k] /\ bumped'[s][k] <= Dash!db[k]
  BY <1>2 DEF DashTypes
<1>4. DashTypes' /\ DashAssumption
  BY <1>1, <1>2, <1>3 DEF DashTypes
<1>5. ASSUME NEW s \in Section, NEW g, Drawn(s, g)
      PROVE  Drawn(s, g)'
  <2>1. Depends[s] \in Seq(Kind) /\ Len(Depends[s]) \in Nat  BY DashNeeds
  <2>2. g \in Seq(Nat) /\ Len(g) \in Nat /\ Len(g) <= Len(Depends[s])  BY <1>5 DEF Drawn
  <2>3. ASSUME NEW i \in 1 .. Len(g)
        PROVE  0 < g[i] /\ g[i] <= counts'[Depends[s][i]]
    <3>1. Depends[s][i] \in Kind  BY <2>1, <2>2
    <3>2. g[i] \in Nat /\ 0 < g[i] /\ g[i] <= counts[Depends[s][i]]
      BY <1>5, <2>2 DEF Drawn
    <3>3. QED BY <1>2, <3>1, <3>2
  <2>4. QED BY <2>2, <2>3 DEF Drawn
<1>6. DashEntries'
  BY <1>1, <1>5 DEF DashEntries, DashKey
<1>7. ASSUME NEW p \in Query PROVE DashPhase(p)'
  <2>1. DashPhase(p)  OBVIOUS
  <2>2. CASE query[p].pc = "idle"
    BY <2>1, <2>2 DEF DashPhase, Counting
  <2>3. CASE query[p].pc # "idle"
    <3>1. PICK x, y : x = query[p] /\ y = query'[p]  OBVIOUS
    <3>2. /\ y.section = x.section /\ y.at = x.at /\ y.gens = x.gens /\ y.cached = x.cached
          /\ y.answer = x.answer
          /\ \/ y.pc = x.pc
             \/ x.pc = "add" /\ y.pc = "again" /\ counts'[Depends[x.section][x.at]] # 0
      BY <3>1
    <3>3. /\ x \in DashRequests /\ x.section \in Section
          /\ posed[p] \in [Dash!Needs(x.section) -> Nat]
          /\ \A k \in Dash!Needs(x.section) : posed[p][k] <= bumped[x.section][k]
          /\ Drawn(x.section, x.gens)
      BY <2>3, <3>1, Asked
    <3>4. Drawn(x.section, x.gens)'  BY <3>3, <1>5
    <3>5. Dash!Needs(x.section) \subseteq Kind  BY <3>3, DashNeeds
    <3>6. \A k \in Dash!Needs(x.section) : posed[p][k] <= bumped'[x.section][k]
      BY <3>3, <3>5, <1>3
    <3>7. Counting(x) /\ y.pc = "again" => counts'[Depends[x.section][x.at]] # 0
      <4>1. ASSUME x.pc = "again" PROVE counts'[Depends[x.section][x.at]] # 0
        <5>1. counts[Depends[x.section][x.at]] # 0 /\ x.at \in Nat \ {0}
              /\ x.at <= Len(Depends[x.section])
          BY <2>1, <3>1, <3>3, <4>1 DEF DashPhase, Counting, DashRequests
        <5>2. Depends[x.section][x.at] \in Kind  BY <5>1, <3>3, DashNeeds
        <5>3. QED BY <5>1, <5>2, <1>2
      <4>2. QED BY <4>1, <3>2
    <3>8. CASE y.pc = x.pc
      <4>1. y = x /\ x.pc # "idle"  BY <2>3, <3>1, <3>8
      <4>2. posed' = posed  OBVIOUS
      <4>3. QED BY <2>1, <3>1, <3>3, <3>4, <3>6, <3>7, <4>1, <4>2, <1>1 DEF DashPhase, Counting
    <3>9. CASE x.pc = "add" /\ y.pc = "again"
      BY <2>1, <3>1, <3>2, <3>3, <3>4, <3>6, <3>7, <3>9 DEF DashPhase, Drawn, Counting
    <3>10. QED BY <3>2, <3>8, <3>9
  <2>4. QED BY <2>2, <2>3
<1>8. ASSUME NEW k, DashKey(k), NEW a, Recent(k, a)
      PROVE  Recent(k, a)'
  <2>1. /\ Depends[k.section] \in Seq(Kind) /\ Len(k.gens) = Len(Depends[k.section])
        /\ Len(k.gens) \in Nat /\ k.section \in Section
        /\ Dash!Needs(k.section) = {Depends[k.section][i] : i \in 1 .. Len(Depends[k.section])}
        /\ \A i \in 1 .. Len(k.gens) : Depends[k.section][i] \in Kind
    BY <1>8, DashNeeds DEF DashKey, Drawn
  <2>2. \A i \in 1 .. Len(k.gens) : k.gens[i] \in Nat /\ k.gens[i] <= counts[Depends[k.section][i]]
    BY <1>8 DEF DashKey, Drawn
  <2>3. Current(k)' => Current(k) /\ bumped'[k.section] = bumped[k.section]
    <3>1. CASE d \in Dash!Needs(k.section)
      <4>1. PICK i \in 1 .. Len(k.gens) : Depends[k.section][i] = d  BY <2>1, <3>1
      <4>2. k.gens[i] # counts'[d]  BY <4>1, <2>2, <1>2
      <4>3. QED BY <4>1, <4>2 DEF Current
    <3>2. CASE d \notin Dash!Needs(k.section)
      <4>1. ASSUME NEW i \in 1 .. Len(k.gens)
            PROVE  counts'[Depends[k.section][i]] = counts[Depends[k.section][i]]
        <5>1. Depends[k.section][i] \in Dash!Needs(k.section)  BY <2>1
        <5>2. Depends[k.section][i] \in Kind \ {d}  BY <2>1, <3>2, <5>1
        <5>3. QED BY <5>2
      <4>2. QED BY <4>1, <2>1, <3>2 DEF Current
    <3>3. QED BY <3>1, <3>2
  <2>4. ASSUME NEW p \in Query, Seeks(p, k)' PROVE Seeks(p, k)
    <3>1. PICK x, y : x = query[p] /\ y = query'[p]  OBVIOUS
    <3>2. /\ y.section = x.section /\ y.at = x.at /\ y.gens = x.gens
          /\ y.pc = x.pc \/ (x.pc = "add" /\ y.pc = "again")
      BY <3>1, SeenAgain
    <3>3. CASE Counting(y)
      <4>1. Counting(x) /\ x.section = k.section
        BY <2>4, <3>1, <3>2, <3>3 DEF Seeks, Counting
      <4>2. \A i \in 1 .. Len(k.gens) :
              k.gens[i] = IF i < x.at THEN x.gens[i] ELSE counts'[Depends[k.section][i]]
        BY <2>4, <3>1, <3>2, <3>3 DEF Seeks, Counting
      <4>3. ASSUME NEW i \in 1 .. Len(k.gens)
            PROVE  k.gens[i] = IF i < x.at THEN x.gens[i] ELSE counts[Depends[k.section][i]]
        <5>1. CASE i < x.at  BY <5>1, <4>2
        <5>2. CASE ~ i < x.at
          <6>1. k.gens[i] = counts'[Depends[k.section][i]]  BY <5>2, <4>2
          <6>2. Depends[k.section][i] # d  BY <6>1, <2>2, <1>2
          <6>3. QED BY <6>1, <6>2, <5>2, <2>1
        <5>3. QED BY <5>1, <5>2
      <4>4. QED BY <3>1, <4>1, <4>3 DEF Seeks
    <3>4. CASE ~ Counting(y)
      BY <2>4, <3>1, <3>2, <3>4 DEF Seeks, Counting
    <3>5. QED BY <3>3, <3>4
  <2>5. \A p \in Query : Seeks(p, k)' => Seeks(p, k) /\ posed'[p] = posed[p]
    BY <2>4
  <2>6. QED BY <2>3, <2>5, <1>8, RecentStays
<1>9. EntriesRecent'
  <2>1. ASSUME NEW k \in DOMAIN kept PROVE Recent(k, kept[k])'
    <3>1. PICK a : a = kept[k]  OBVIOUS
    <3>2. DashKey(k) /\ Recent(k, a)  BY <3>1 DEF DashEntries, EntriesRecent
    <3>3. Recent(k, a)'  BY <3>2, <1>8
    <3>4. QED BY <3>1, <3>3 DEF Recent
  <2>2. QED BY <2>1 DEF EntriesRecent
<1>10. FillsRecent'
  <2>1. ASSUME NEW p \in Query, Fills(p)' PROVE Recent(Dash!Key(p), query[p].answer)'
    <3>1. query'[p] = query[p]  BY <2>1 DEF Fills
    <3>2. Fills(p) /\ Dash!Key(p)' = Dash!Key(p)  BY <3>1, <2>1 DEF Fills, Dash!Key
    <3>3. PICK k, a : k = Dash!Key(p) /\ a = query[p].answer  OBVIOUS
    <3>4. DashKey(k) /\ Recent(k, a)  BY <3>2, <3>3, KeptKeys DEF FillsRecent
    <3>5. Recent(k, a)'  BY <3>4, <1>8
    <3>6. QED BY <3>1, <3>2, <3>3, <3>5 DEF Recent
  <2>2. QED BY <2>1 DEF FillsRecent
<1>11. QED BY <1>4, <1>6, <1>7, <1>9, <1>10

\* Rows are made, entries go, and nothing else that answers depend on changes.
DashQuiet ==
  /\ UNCHANGED <<counts, query, bumped, posed>>
  /\ day' \in day .. MaxDay /\ rows' \subseteq [kind: Kind, date: 1 .. day'] /\ IsFiniteSet(rows')
  /\ DOMAIN task' = Task /\ DashTasks'
  /\ Dash!db' \in [Kind -> Nat] /\ \A k \in Kind : Dash!db[k] <= Dash!db'[k]
  /\ \A k \in DOMAIN kept' : k \in DOMAIN kept /\ kept'[k] = kept[k]

LEMMA DashQuietStep ==
  ASSUME DashInv, DashQuiet
  PROVE  DashInv'
<1> USE DEF DashInv, DashQuiet
<1>1. Dash!db \in [Kind -> Nat] /\ day \in 1 .. MaxDay /\ MaxDay \in Nat
  BY DEF DashTypes, DashAssumption
<1>2. DashTypes' /\ DashAssumption
  <2>1. \A s \in Section, k \in Kind : bumped[s][k] \in Nat /\ bumped[s][k] <= Dash!db'[k]
    BY <1>1 DEF DashTypes
  <2>2. QED BY <1>1, <2>1 DEF DashTypes
<1>3. DashEntries'
  <2>1. ASSUME NEW k \in DOMAIN kept'
        PROVE  /\ DashKey(k)' /\ kept'[k] \in [Dash!Needs(k.section) -> Nat]
               /\ \A d \in Dash!Needs(k.section) : kept'[k][d] <= Dash!db'[d]
    <3>1. /\ DashKey(k) /\ kept'[k] \in [Dash!Needs(k.section) -> Nat]
          /\ \A d \in Dash!Needs(k.section) : kept'[k][d] <= Dash!db[d]
      BY DEF DashEntries
    <3>2. Dash!Needs(k.section) \subseteq Kind /\ DashKey(k)'
      BY <3>1, DashNeeds DEF DashKey, Drawn
    <3>3. QED BY <1>1, <3>1, <3>2
  <2>2. QED BY <2>1 DEF DashEntries
<1>4. ASSUME NEW q \in Query PROVE DashPhase(q)'
  <2>1. ASSUME NEW d \in DOMAIN query[q].answer, query[q].pc \in {"build", "store", "done"}
        PROVE  query[q].answer[d] <= Dash!db'[d]
    <3>1. /\ query[q] \in DashRequests /\ query[q].section \in Section /\ DashPhase(q)
      BY <2>1, Asked
    <3>2. query[q].answer[d] <= Dash!db[d]  BY <2>1, <3>1 DEF DashPhase
    <3>3. query[q].answer[d] \in Nat /\ d \in Kind  BY <3>1 DEF DashRequests
    <3>4. QED BY <3>2, <3>3, <1>1
  <2>2. DashPhase(q)  OBVIOUS
  <2>3. QED BY <2>1, <2>2 DEF DashPhase, Drawn, Counting, ReadSoFar
<1>5. \A k, a : Recent(k, a)' <=> Recent(k, a)
  BY DEF Recent, Current, Seeks, Counting
<1>6. EntriesRecent'
  <2>1. ASSUME NEW k \in DOMAIN kept' PROVE Recent(k, kept[k])'
    <3>1. Recent(k, kept[k])  BY DEF EntriesRecent
    <3>2. kept'[k] = kept[k]  OBVIOUS
    <3>3. QED BY <3>1, <3>2 DEF Recent, Current, Seeks, Counting
  <2>2. QED BY <2>1 DEF EntriesRecent
<1>7. FillsRecent'
  BY DEF FillsRecent, Fills, Dash!Key, Recent, Current, Seeks, Counting
<1>8. QED BY <1>2, <1>3, <1>4, <1>6, <1>7

LEMMA DashFirstGeneration ==
  ASSUME DashInv, NEW q \in Query, Dash!FirstGeneration(q)
  PROVE  DashInv'
<1>0. PICK x, d : x = query[q] /\ d = Dash!Dep(q)  OBVIOUS
<1>1. /\ x.pc = "add" /\ x.pc # "idle" /\ Counting(x)
      /\ counts' = [counts EXCEPT ![d] = IF @ = 0 THEN 1 ELSE @]
      /\ Dash!Go(q, "again")
      /\ UNCHANGED <<day, rows, task, bumped, kept, posed>>
  BY <1>0 DEF Dash!FirstGeneration, Counting
<1>2. /\ x \in DashRequests /\ x.section \in Section /\ DashPhase(q)
      /\ x.at \in Nat \ {0} /\ x.at <= Len(Depends[x.section])
  BY <1>0, <1>1, Asked DEF DashInv, DashPhase, DashRequests
<1>3. d = Depends[x.section][x.at] /\ d \in Kind
  <2>1. Depends[x.section] \in Seq(Kind) /\ Len(Depends[x.section]) \in Nat
    BY <1>2, DashNeeds DEF DashInv
  <2>2. QED BY <2>1, <1>0, <1>2 DEF Dash!Dep
<1>4. counts \in [Kind -> Nat]  BY DEF DashInv, DashTypes
<1>5. CASE counts[d] # 0
  <2>1. counts' = counts  BY <1>1, <1>3, <1>4, <1>5
  <2>2. QED BY <2>1, <1>0, <1>1, <1>5, DashGo
<1>6. CASE counts[d] = 0
  <2>1. /\ counts' \in [Kind -> Nat] /\ counts'[d] = 1 /\ \A k \in Kind \ {d} : counts'[k] = counts[k]
    BY <1>1, <1>3, <1>4, <1>6
  <2>2. PICK r : r = [x EXCEPT !.pc = "again"]  OBVIOUS
  <2>3. query' = [query EXCEPT ![q] = r]  BY <1>0, <1>1, <2>2 DEF Dash!Go, Dash!Put
  <2>4. /\ r.pc = "again" /\ r.section = x.section /\ r.at = x.at /\ r.gens = x.gens
        /\ r.cached = x.cached /\ r.answer = x.answer
    BY <1>2, <2>2 DEF DashRequests
  <2>5. r \in DashRequests  BY <1>2, <2>2 DEF DashRequests
  <2>6. query \in [Query -> DashRequests]  BY DEF DashInv, DashTypes
  <2>7. query'[q] = r /\ query' \in [Query -> DashRequests]
        /\ \A p \in Query : p # q => query'[p] = query[p]
    BY <2>3, <2>5, <2>6
  <2>8. DashTasks' /\ DOMAIN task' = Task /\ bumped' \in [Section -> [Kind -> Nat]]
    BY <1>1 DEF DashInv, DashTypes, DashTasks, Dash!Resting
  <2>9. \A p \in Query :
          \/ query'[p] = query[p]
          \/ /\ query[p].pc = "add" /\ query'[p].pc = "again"
             /\ query'[p].section = query[p].section /\ query'[p].at = query[p].at
             /\ query'[p].gens = query[p].gens /\ query'[p].cached = query[p].cached
             /\ query'[p].answer = query[p].answer
             /\ counts'[Depends[query[p].section][query[p].at]] # 0
    BY <1>0, <1>1, <1>3, <2>1, <2>4, <2>7
  <2>10. counts[d] < counts'[d]  BY <1>6, <2>1
  <2>11. \A s \in Section : bumped'[s] = bumped[s]  BY <1>1
  <2>13. DashGrows(d)
    BY <1>1, <1>3, <2>1, <2>7, <2>8, <2>9, <2>10, <2>11 DEF DashGrows
  <2>14. QED BY <2>13, DashGrowsStep
<1>7. QED BY <1>5, <1>6

\* What the tasks do.
LEMMA TaskSteps ==
  ASSUME DashInv, NEW t \in Task, NEW r, Dash!TaskTo(t, r), day' = day,
         r = Dash!Resting \/ r \in [pc: {"get", "create", "add", "incr"}, kind: Kind, date: 1 .. day]
  PROVE  DOMAIN task' = Task /\ DashTasks'
BY DEF DashInv, DashTypes, DashTasks, Dash!TaskTo, Dash!Resting

LEMMA Running ==
  ASSUME DashInv, NEW t \in Task, task[t].pc # "idle"
  PROVE  /\ task[t] \in [pc: {"get", "create", "add", "incr"}, kind: Kind, date: 1 .. day]
         /\ \A pc \in {"get", "create", "add", "incr"} :
              [task[t] EXCEPT !.pc = pc]
                \in [pc: {"get", "create", "add", "incr"}, kind: Kind, date: 1 .. day]
<1>1. task[t] \in [pc: {"get", "create", "add", "incr"}, kind: Kind, date: 1 .. day]
  BY DEF DashInv, DashTypes, DashTasks, Dash!Resting
<1>2. QED BY <1>1

LEMMA DashTaskOnly ==
  ASSUME DashInv, DOMAIN task' = Task, DashTasks',
         UNCHANGED <<day, rows, counts, kept, query, bumped, posed>>
  PROVE  DashInv'
<1>1. Dash!db' = Dash!db  BY DEF Dash!db, Dash!Version
<1>2. /\ day \in 1 .. MaxDay /\ MaxDay \in Nat /\ Dash!db \in [Kind -> Nat]
      /\ rows \subseteq [kind: Kind, date: 1 .. day] /\ IsFiniteSet(rows)
  BY DEF DashInv, DashTypes, DashAssumption
<1>3. DashQuiet  BY <1>1, <1>2 DEF DashQuiet
<1>4. QED BY <1>3, DashQuietStep

LEMMA DashNewDay ==
  ASSUME DashInv, Dash!NewDay
  PROVE  DashInv'
<1>1. Dash!db' = Dash!db  BY DEF Dash!db, Dash!Version, Dash!NewDay
<1>2. /\ day \in 1 .. MaxDay /\ MaxDay \in Nat /\ Dash!db \in [Kind -> Nat]
      /\ rows \subseteq [kind: Kind, date: 1 .. day] /\ IsFiniteSet(rows)
      /\ DOMAIN task = Task /\ DashTasks
  BY DEF DashInv, DashTypes, DashAssumption
<1>3. /\ day' = day + 1 /\ day < MaxDay
      /\ UNCHANGED <<rows, task, counts, kept, query, bumped, posed>>
  BY DEF Dash!NewDay
<1>4. 1 .. day \subseteq 1 .. day' /\ day' \in day .. MaxDay  BY <1>2, <1>3
<1>5. rows' \subseteq [kind: Kind, date: 1 .. day']  BY <1>2, <1>3, <1>4
<1>6. DashTasks'
  <2>1. ASSUME NEW t \in Task
        PROVE  task'[t] = Dash!Resting
                 \/ task'[t] \in [pc: {"get", "create", "add", "incr"}, kind: Kind, date: 1 .. day']
    BY <1>2, <1>3, <1>4 DEF DashTasks
  <2>2. QED BY <2>1 DEF DashTasks, Dash!Resting
<1>7. DashQuiet  BY <1>1, <1>2, <1>3, <1>4, <1>5, <1>6 DEF DashQuiet
<1>8. QED BY <1>7, DashQuietStep

LEMMA DashStartTask ==
  ASSUME DashInv, NEW t \in Task, NEW k \in Kind, Dash!StartTask(t, k)
  PROVE  DashInv'
<1>1. PICK r : r = [pc |-> "get", kind |-> k, date |-> day]  OBVIOUS
<1>2. Dash!TaskTo(t, r) /\ UNCHANGED <<day, rows, counts, kept, query, bumped, posed>>
  BY <1>1 DEF Dash!StartTask
<1>3. r \in [pc: {"get", "create", "add", "incr"}, kind: Kind, date: 1 .. day]
  BY <1>1 DEF DashInv, DashTypes
<1>4. QED BY <1>2, <1>3, TaskSteps, DashTaskOnly

LEMMA DashFindRow ==
  ASSUME DashInv, NEW t \in Task, Dash!FindRow(t)
  PROVE  DashInv'
<1>1. /\ task[t].pc # "idle" /\ UNCHANGED <<day, rows, counts, kept, query, bumped, posed>>
      /\ Dash!TaskTo(t, Dash!Resting) \/ Dash!TaskTo(t, [task[t] EXCEPT !.pc = "create"])
  BY DEF Dash!FindRow, Dash!TaskGo
<1>2. DOMAIN task' = Task /\ DashTasks'  BY <1>1, Running, TaskSteps
<1>3. QED BY <1>1, <1>2, DashTaskOnly

LEMMA DashLoseTask ==
  ASSUME DashInv, NEW t \in Task, Dash!LoseTask(t)
  PROVE  DashInv'
<1>1. /\ UNCHANGED <<day, rows, counts, kept, query, bumped, posed>>
      /\ Dash!TaskTo(t, Dash!Resting)
  BY DEF Dash!LoseTask
<1>2. DOMAIN task' = Task /\ DashTasks'  BY <1>1, TaskSteps
<1>3. QED BY <1>1, <1>2, DashTaskOnly

LEMMA DashExpire ==
  ASSUME DashInv, NEW k \in DOMAIN kept, Dash!Expire(k)
  PROVE  DashInv'
<1>1. Dash!db' = Dash!db  BY DEF Dash!db, Dash!Version, Dash!Expire
<1>2. /\ day \in 1 .. MaxDay /\ MaxDay \in Nat /\ Dash!db \in [Kind -> Nat]
      /\ rows \subseteq [kind: Kind, date: 1 .. day] /\ IsFiniteSet(rows)
      /\ DOMAIN task = Task /\ DashTasks
  BY DEF DashInv, DashTypes, DashAssumption
<1>3. UNCHANGED <<day, rows, task, counts, query, bumped, posed>>  BY DEF Dash!Expire
<1>4. \A e \in DOMAIN kept' : e \in DOMAIN kept /\ kept'[e] = kept[e]
  BY DEF Dash!Expire, Dash!Restrict
<1>5. DashTasks'  BY <1>2, <1>3 DEF DashTasks, Dash!Resting
<1>6. DashQuiet  BY <1>1, <1>2, <1>3, <1>4, <1>5 DEF DashQuiet
<1>7. QED BY <1>6, DashQuietStep

LEMMA SameCount == \A S : Dash!Cardinality(S) = Cardinality(S)
BY DEF Dash!Cardinality, Cardinality

LEMMA RowMade ==
  ASSUME DashInv, NEW x \in [kind: Kind, date: 1 .. day], x \notin rows, rows' = rows \cup {x}
  PROVE  /\ Dash!db \in [Kind -> Nat] /\ Dash!db' = [Dash!db EXCEPT ![x.kind] = @ + 1]
         /\ IsFiniteSet(rows')
<1>1. IsFiniteSet(rows) /\ Dash!db \in [Kind -> Nat]  BY DEF DashInv, DashTypes
<1>2. IsFiniteSet(rows')  BY <1>1, FS_AddElement
<1> DEFINE Of(k) == {r \in rows : r.kind = k}
<1>3. ASSUME NEW k \in Kind
      PROVE  Dash!Version(k)' = IF k = x.kind THEN Dash!Version(k) + 1 ELSE Dash!Version(k)
  <2>1. IsFiniteSet(Of(k))  BY <1>1, FS_Subset
  <2>2. CASE k = x.kind
    <3>1. {r \in rows' : r.kind = k} = Of(k) \cup {x} /\ x \notin Of(k)  BY <2>2
    <3>2. Cardinality(Of(k) \cup {x}) = Cardinality(Of(k)) + 1
      BY <2>1, <3>1, FS_AddElement
    <3>3. Dash!Version(k) = Cardinality(Of(k))  BY SameCount DEF Dash!Version
    <3>4. Dash!Version(k)' = Cardinality({r \in rows' : r.kind = k})  BY SameCount DEF Dash!Version
    <3> HIDE DEF Of
    <3>5. QED BY <2>2, <3>1, <3>2, <3>3, <3>4
  <2>3. CASE k # x.kind
    <3>1. {r \in rows' : r.kind = k} = Of(k)  BY <2>3
    <3>2. QED BY <2>3, <3>1 DEF Dash!Version
  <2>4. QED BY <2>2, <2>3
<1>4. \A k \in Kind : Dash!db[k] = Dash!Version(k)  BY DEF Dash!db
<1>5. \A k \in Kind : Dash!db'[k] = Dash!Version(k)'  BY DEF Dash!db
<1>6. Dash!db' = [k \in Kind |-> Dash!db'[k]]  BY DEF Dash!db
<1>7. \A k \in Kind : Dash!db'[k] = IF k = x.kind THEN Dash!db[k] + 1 ELSE Dash!db[k]
  BY <1>3, <1>4, <1>5
<1>8. Dash!db' = [Dash!db EXCEPT ![x.kind] = @ + 1]
  BY <1>1, <1>6, <1>7
<1>9. QED BY <1>1, <1>2, <1>8

LEMMA DashCreateRow ==
  ASSUME DashInv, NEW t \in Task, Dash!CreateRow(t)
  PROVE  DashInv'
<1>1. /\ task[t].pc # "idle" /\ UNCHANGED <<day, counts, kept, query, bumped, posed>>
      /\ Dash!TaskTo(t, Dash!Resting) \/ Dash!TaskTo(t, [task[t] EXCEPT !.pc = "add"])
      /\ rows' = rows \cup {Dash!Row(t)}
  BY DEF Dash!CreateRow, Dash!TaskGo
<1>2. DOMAIN task' = Task /\ DashTasks'  BY <1>1, Running, TaskSteps
<1>3. CASE Dash!Row(t) \in rows
  <2>1. rows' = rows  BY <1>1, <1>3
  <2>2. QED BY <1>1, <1>2, <2>1, DashTaskOnly
<1>4. CASE Dash!Row(t) \notin rows
  <2>1. PICK x : x = Dash!Row(t)  OBVIOUS
  <2>2. x \in [kind: Kind, date: 1 .. day]  BY <1>1, <2>1, Running DEF Dash!Row
  <2>3. /\ Dash!db \in [Kind -> Nat] /\ Dash!db' = [Dash!db EXCEPT ![x.kind] = @ + 1]
        /\ IsFiniteSet(rows')
    BY <1>1, <1>4, <2>1, <2>2, RowMade
  <2>4. /\ day \in 1 .. MaxDay /\ MaxDay \in Nat /\ rows \subseteq [kind: Kind, date: 1 .. day]
    BY DEF DashInv, DashTypes, DashAssumption
  <2>5. rows' \subseteq [kind: Kind, date: 1 .. day'] /\ day' \in day .. MaxDay
    BY <1>1, <2>1, <2>2, <2>4
  <2>6. Dash!db' \in [Kind -> Nat] /\ \A k \in Kind : Dash!db[k] <= Dash!db'[k]
    BY <2>2, <2>3
  <2>7. DashQuiet  BY <1>1, <1>2, <2>3, <2>5, <2>6 DEF DashQuiet
  <2>8. QED BY <2>7, DashQuietStep
<1>5. QED BY <1>3, <1>4

LEMMA DashBumps ==
  ASSUME DashInv, NEW t \in Task, task[t].pc # "idle", Dash!Bumped(t),
         NEW g, counts' = [counts EXCEPT ![task[t].kind] = g], g \in Nat,
         counts[task[t].kind] < g, UNCHANGED <<day, rows, kept, query, posed>>
  PROVE  DashInv'
<1>1. PICK d : d = task[t].kind  OBVIOUS
<1>2. d \in Kind  BY <1>1, Running
<1>3. Dash!TaskTo(t, Dash!Resting)
      /\ bumped' = [s \in Section |-> IF d \in Dash!Needs(s) THEN Dash!db ELSE bumped[s]]
  BY <1>1 DEF Dash!Bumped
<1>4. DOMAIN task' = Task /\ DashTasks'  BY <1>3, TaskSteps
<1>5. /\ counts \in [Kind -> Nat] /\ bumped \in [Section -> [Kind -> Nat]]
      /\ Dash!db \in [Kind -> Nat] /\ query \in [Query -> DashRequests]
  BY DEF DashInv, DashTypes
<1>6. /\ counts' \in [Kind -> Nat] /\ counts[d] < counts'[d]
      /\ \A k \in Kind \ {d} : counts'[k] = counts[k]
  BY <1>1, <1>2, <1>5
<1>7. /\ bumped' \in [Section -> [Kind -> Nat]]
      /\ \A s \in Section :
           bumped'[s] = bumped[s] \/ (d \in Dash!Needs(s) /\ bumped'[s] = Dash!db)
  BY <1>3, <1>5
<1>8. DashGrows(d)  BY <1>2, <1>4, <1>5, <1>6, <1>7 DEF DashGrows
<1>9. QED BY <1>8, DashGrowsStep

LEMMA DashAddGeneration ==
  ASSUME DashInv, NEW t \in Task, Dash!AddGeneration(t)
  PROVE  DashInv'
<1>1. task[t].pc # "idle" /\ UNCHANGED <<day, rows, kept, query, posed>>
  BY DEF Dash!AddGeneration
<1>2. CASE counts[task[t].kind] = 0
  <2>1. counts' = [counts EXCEPT ![task[t].kind] = 2] /\ Dash!Bumped(t)
    BY <1>2 DEF Dash!AddGeneration
  <2>2. counts[task[t].kind] < 2  BY <1>2
  <2>3. QED BY <1>1, <2>1, <2>2, DashBumps
<1>3. CASE counts[task[t].kind] # 0
  <2>1. Dash!TaskTo(t, [task[t] EXCEPT !.pc = "incr"]) /\ UNCHANGED <<counts, bumped>>
    BY <1>3 DEF Dash!AddGeneration, Dash!TaskGo
  <2>2. DOMAIN task' = Task /\ DashTasks'  BY <1>1, <2>1, Running, TaskSteps
  <2>3. QED BY <1>1, <2>1, <2>2, DashTaskOnly
<1>4. QED BY <1>2, <1>3

LEMMA DashCountUp ==
  ASSUME DashInv, NEW t \in Task, Dash!CountUp(t)
  PROVE  DashInv'
<1>1. task[t].pc # "idle" /\ UNCHANGED <<day, rows, kept, query, posed>> /\ Dash!Bumped(t)
  BY DEF Dash!CountUp
<1>2. PICK d, g : /\ d = task[t].kind
                  /\ g = IF counts[d] = 0 THEN 2 ELSE counts[d] + 1
  OBVIOUS
<1>3. d \in Kind /\ counts \in [Kind -> Nat]  BY <1>1, <1>2, Running DEF DashInv, DashTypes
<1>4. g \in Nat /\ counts[d] < g  BY <1>2, <1>3
<1>5. counts' = [counts EXCEPT ![task[t].kind] = g]  BY <1>2, <1>3 DEF Dash!CountUp
<1>6. QED BY <1>1, <1>2, <1>4, <1>5, DashBumps

LEMMA DashInitially ==
  ASSUME DashAssumption, Dash!Init
  PROVE  DashInv
<1>0. PICK r : r = Dash!Idle  OBVIOUS
<1>1. /\ day = 1 /\ rows = {} /\ task = [t \in Task |-> Dash!Resting]
      /\ counts = [k \in Kind |-> 0] /\ kept = << >> /\ query = [q \in Query |-> r]
      /\ bumped = [s \in Section |-> Dash!db] /\ posed = [q \in Query |-> None]
  BY <1>0 DEF Dash!Init
<1>2. Dash!db = [k \in Kind |-> 0]
  <2>1. \A k \in Kind : {x \in rows : x.kind = k} = {}  BY <1>1
  <2>2. Cardinality({}) = 0  BY FS_EmptySet
  <2>3. ASSUME NEW k \in Kind PROVE Dash!Version(k) = 0
    <3>1. Dash!Version(k) = Cardinality({x \in rows : x.kind = k})  BY SameCount DEF Dash!Version
    <3>2. QED BY <2>1, <2>2, <3>1
  <2>4. QED BY <2>3 DEF Dash!db
<1>3. r.pc = "idle" /\ r.section = None /\ r.at = 1 /\ r.gens = << >> /\ r.answer = << >>
  BY <1>0 DEF Dash!Idle
<1>4. r.cached \in BOOLEAN  BY <1>0 DEF Dash!Idle
<1>5. r = [pc |-> r.pc, section |-> r.section, at |-> r.at, gens |-> r.gens,
           cached |-> r.cached, answer |-> r.answer]
  BY <1>0 DEF Dash!Idle
<1>6. r \in DashRequests
  <2>1. << >> \in UNION {[S -> Nat] : S \in SUBSET Kind}
    <3>1. << >> \in [{} -> Nat] /\ {} \in SUBSET Kind  OBVIOUS
    <3>2. QED BY <3>1
  <2>2. r.gens \in Seq(Nat)  BY <1>3
  <2>3. r.answer \in UNION {[S -> Nat] : S \in SUBSET Kind}  BY <2>1, <1>3
  <2>4. r.at \in Nat \ {0} /\ r.section = None /\ r.pc = "idle"  BY <1>3
  <2>5. QED BY <2>2, <2>3, <2>4, <1>4, <1>5 DEF DashRequests
<1>7. DashTypes
  <2>1. day \in 1 .. MaxDay  BY <1>1 DEF DashAssumption
  <2>2. rows \subseteq [kind: Kind, date: 1 .. day] /\ IsFiniteSet(rows)  BY <1>1, FS_EmptySet
  <2>3. DOMAIN task = Task /\ DashTasks  BY <1>1 DEF DashTasks
  <2>4. \A s \in Section, k \in Kind : bumped[s][k] <= Dash!db[k]  BY <1>1, <1>2
  <2>5. Dash!db \in [Kind -> Nat] /\ counts \in [Kind -> Nat] /\ bumped \in [Section -> [Kind -> Nat]]
    BY <1>1, <1>2
  <2>6. query \in [Query -> DashRequests] /\ posed = [q \in Query |-> posed[q]]  BY <1>1, <1>6
  <2>7. QED BY <2>1, <2>2, <2>3, <2>4, <2>5, <2>6 DEF DashTypes
<1>8. ASSUME NEW q \in Query PROVE DashPhase(q)
  BY <1>0, <1>1, <1>3 DEF DashPhase, Counting
<1>9. DOMAIN kept = {}  BY <1>1
<1>10. DashEntries /\ EntriesRecent  BY <1>9 DEF DashEntries, EntriesRecent
<1>11. FillsRecent  BY <1>1, <1>3 DEF FillsRecent, Fills
<1>12. QED BY <1>7, <1>8, <1>10, <1>11 DEF DashInv

LEMMA DashSteps ==
  ASSUME DashInv, [Dash!Next]_(Dash!vars)
  PROVE  DashInv'
<1>1. CASE UNCHANGED Dash!vars
  <2>1. UNCHANGED <<day, rows, task, counts, kept, query, bumped, posed>>
    BY <1>1 DEF Dash!vars
  <2>2. DOMAIN task' = Task /\ DashTasks'
    BY <2>1 DEF DashInv, DashTypes, DashTasks, Dash!Resting
  <2>3. QED BY <2>1, <2>2, DashTaskOnly
<1>2. CASE Dash!NewDay  BY <1>2, DashNewDay
<1>3. ASSUME NEW t \in Task,
             \/ \E k \in Kind : Dash!StartTask(t, k)
             \/ Dash!FindRow(t) \/ Dash!CreateRow(t) \/ Dash!AddGeneration(t)
             \/ Dash!CountUp(t) \/ Dash!LoseTask(t)
      PROVE  DashInv'
  BY <1>3, DashStartTask, DashFindRow, DashCreateRow, DashAddGeneration, DashCountUp, DashLoseTask
<1>4. ASSUME NEW q \in Query,
             Dash!Serve(q) \/ Dash!Bypass(q) \/ \E s \in Section : Dash!Ask(q, s)
      PROVE  DashInv'
  <2>1. CASE Dash!Serve(q)
    BY <2>1, DashReadGeneration, DashFirstGeneration, DashLookup, DashBuild, DashStore, DashFinish
       DEF Dash!Serve
  <2>2. QED BY <1>4, <2>1, DashBypass, DashAsk
<1>5. ASSUME NEW k \in DOMAIN kept, Dash!Expire(k) PROVE DashInv'
  BY <1>5, DashExpire
<1>6. QED BY <1>1, <1>2, <1>3, <1>4, <1>5 DEF Dash!Next

\* The same for the dashboards: what a generation counts, what an entry was
\* built from, and what a query still building holds.
THEOREM DashInvariant == DashAssumption /\ Dash!Spec => []DashInv
<1>1. DashAssumption /\ Dash!Init => DashInv  BY DashInitially
<1>2. DashInv /\ [Dash!Next]_(Dash!vars) => DashInv'  BY DashSteps
<1>3. QED BY <1>1, <1>2, PTL DEF Dash!Spec
-----------------------------------------------------------------------------
(* AnalyticsCache implements CachePromise.                                 *)

LEMMA DashAnswers ==
  ASSUME DashInv, NEW s \in Section, NEW a \in [Dash!Needs(s) -> Nat]
  PROVE  a # None
BY DashNeeds DEF DashInv, DashAssumption

LEMMA DashStarts == ASSUME Dash!Init PROVE Dash!Promise!Init
<1>1. Dash!db = [k \in Kind |-> 0]
  <2>1. \A k \in Kind : {x \in rows : x.kind = k} = {}  BY DEF Dash!Init
  <2>2. Cardinality({}) = 0  BY FS_EmptySet
  <2>3. ASSUME NEW k \in Kind PROVE Dash!Version(k) = 0
    <3>1. Dash!Version(k) = Cardinality({x \in rows : x.kind = k})  BY SameCount DEF Dash!Version
    <3>2. QED BY <2>1, <2>2, <3>1
  <2>4. QED BY <2>3 DEF Dash!db
<1>2. \A q \in Query : query[q].pc = "idle"  BY DEF Dash!Init, Dash!Idle
<1>3. Dash!given = [q \in Query |-> None]  BY <1>2 DEF Dash!given
<1>4. /\ bumped = [s \in Section |-> Dash!db] /\ posed = [q \in Query |-> None]
  BY DEF Dash!Init
<1>5. QED BY <1>1, <1>3, <1>4 DEF Dash!Promise!Init

LEMMA DashStutters ==
  ASSUME UNCHANGED <<Dash!db, bumped, posed, query>>
  PROVE  UNCHANGED Dash!Promise!vars
<1>1. Dash!given' = Dash!given  BY DEF Dash!given
<1>2. QED BY <1>1 DEF Dash!Promise!vars

\* A request that is under way goes on.
DashGoesOn(q) ==
  /\ q \in Query /\ query[q].pc \notin {"idle", "done"} /\ query'[q].pc # "idle"
  /\ \A p \in Query \ {q} : query'[p] = query[p]
  /\ Dash!db' = Dash!db /\ UNCHANGED <<bumped, posed>>

LEMMA DashServes ==
  ASSUME DashInv, NEW q \in Query, Dash!Serve(q) \/ Dash!Bypass(q), ~ Dash!Finish(q)
  PROVE  DashGoesOn(q)
<1>1. query \in [Query -> DashRequests]  BY DEF DashInv, DashTypes
<1>2. UNCHANGED <<rows, bumped, posed>> /\ query[q].pc \notin {"idle", "done"}
  BY DEF Dash!Serve, Dash!ReadGeneration, Dash!FirstGeneration, Dash!Lookup, Dash!Build,
         Dash!Store, Dash!Bypass
<1>3. Dash!db' = Dash!db  BY <1>2 DEF Dash!db, Dash!Version
<1>4. \E r : r.pc # "idle" /\ query' = [query EXCEPT ![q] = r]
  <2>1. CASE Dash!ReadGeneration(q)
    <3>1. CASE counts[Dash!Dep(q)] # 0
      BY <1>1, <2>1, <3>1 DEF Dash!ReadGeneration, Dash!Take, Dash!Put, DashRequests
    <3>2. CASE ~ counts[Dash!Dep(q)] # 0 /\ query[q].pc = "get"
      BY <1>1, <2>1, <3>2 DEF Dash!ReadGeneration, Dash!Go, Dash!Put, DashRequests
    <3>3. CASE ~ counts[Dash!Dep(q)] # 0 /\ query[q].pc # "get"
      BY <1>1, <2>1, <3>3 DEF Dash!ReadGeneration, Dash!Take, Dash!Put, DashRequests
    <3>4. QED BY <3>1, <3>2, <3>3
  <2>2. CASE Dash!FirstGeneration(q)
    BY <1>1, <2>2 DEF Dash!FirstGeneration, Dash!Go, Dash!Put, DashRequests
  <2>3. CASE Dash!Lookup(q)
    <3>1. CASE Dash!Key(q) \in DOMAIN kept
      BY <2>3, <3>1 DEF Dash!Lookup, Dash!Put, Dash!Done, Dash!Idle
    <3>2. CASE Dash!Key(q) \notin DOMAIN kept
      BY <1>1, <2>3, <3>2 DEF Dash!Lookup, Dash!Go, Dash!Put, DashRequests
    <3>3. QED BY <3>1, <3>2
  <2>4. CASE Dash!Build(q)
    <3>1. PICK a : a = Dash!With(query[q].answer, Dash!Dep(q), Dash!db[Dash!Dep(q)])  OBVIOUS
    <3>2. CASE ~ Dash!Last(q)
      BY <1>1, <2>4, <3>1, <3>2 DEF Dash!Build, Dash!Put, DashRequests
    <3>3. CASE Dash!Last(q) /\ query[q].cached
      BY <1>1, <2>4, <3>1, <3>3 DEF Dash!Build, Dash!Put, DashRequests
    <3>4. CASE Dash!Last(q) /\ ~ query[q].cached
      <4>1. Dash!Put(q, Dash!Done(q, a))  BY <2>4, <3>1, <3>4 DEF Dash!Build
      <4>2. QED BY <4>1 DEF Dash!Put, Dash!Done, Dash!Idle
    <3>5. QED BY <3>2, <3>3, <3>4
  <2>5. CASE Dash!Store(q)
    BY <2>5 DEF Dash!Store, Dash!Put, Dash!Done, Dash!Idle
  <2>6. CASE Dash!Bypass(q)
    BY <2>6 DEF Dash!Bypass, Dash!Put, Dash!Idle
  <2>7. QED BY <2>1, <2>2, <2>3, <2>4, <2>5, <2>6 DEF Dash!Serve
<1>5. QED BY <1>1, <1>2, <1>3, <1>4 DEF DashGoesOn

LEMMA DashGoesOnKeeps ==
  ASSUME DashInv, DashInv', NEW q, DashGoesOn(q)
  PROVE  [Dash!Promise!Next]_(Dash!Promise!vars)
<1>1. /\ query[q].pc \notin {"idle", "done"} /\ q \in Query /\ query'[q].pc # "idle"
      /\ \A p \in Query \ {q} : query'[p] = query[p]
      /\ Dash!db' = Dash!db /\ UNCHANGED <<bumped, posed>>
  BY DEF DashGoesOn
<1>2. CASE query'[q].pc # "done"
  <2>1. Dash!given' = Dash!given  BY <1>1, <1>2 DEF Dash!given
  <2>2. QED BY <1>1, <2>1 DEF Dash!Promise!vars
<1>3. CASE query'[q].pc = "done"
  <2>1. PICK a, s : a = query'[q].answer /\ s = query'[q].section  OBVIOUS
  <2>2. /\ query'[q] \in DashRequests /\ DashPhase(q)' /\ s \in Section
        /\ posed[q] \in [Dash!Needs(s) -> Nat]
    BY <1>1, <1>3, <2>1 DEF DashInv, DashTypes, DashPhase
  <2>3. a \in [Dash!Needs(s) -> Nat]
    BY <1>3, <2>1, <2>2 DEF DashPhase, DashRequests
  <2>4. \A d \in Dash!Needs(s) : posed[q][d] <= a[d] /\ a[d] <= Dash!db[d]
    BY <1>1, <1>3, <2>1, <2>2, <2>3 DEF DashPhase
  <2>5. a # None /\ posed[q] # None  BY <2>2, <2>3, DashAnswers
  <2>6. Dash!given[q] = None /\ Dash!given'[q] = a  BY <1>1, <1>3, <2>1 DEF Dash!given
  <2>7. Dash!given' = [Dash!given EXCEPT ![q] = Dash!given'[q]]
    BY <1>1, <1>3 DEF Dash!given
  <2>8. \A d \in Dash!Needs(s) : Dash!db[d] \in Nat
    BY <2>2, DashNeeds DEF DashInv, DashTypes
  <2>9. \A d \in DOMAIN posed[q] : a[d] \in posed[q][d] .. Dash!db[d]
    BY <2>2, <2>3, <2>4, <2>8
  <2>10. DOMAIN a = DOMAIN posed[q]  BY <2>2, <2>3
  <2>11. Dash!Promise!Answer(q)
    BY <1>1, <2>5, <2>6, <2>7, <2>9, <2>10 DEF Dash!Promise!Answer
  <2>12. QED BY <1>1, <2>11 DEF Dash!Promise!Next
<1>4. QED BY <1>2, <1>3

LEMMA DashAskKeeps ==
  ASSUME DashInv, NEW q \in Query, NEW s \in Section, Dash!Ask(q, s)
  PROVE  Dash!Promise!Next
<1>1. query[q].pc = "idle" /\ posed[q] = None /\ query \in [Query -> DashRequests]
  BY DEF DashInv, DashTypes, DashPhase, Dash!Ask
<1>2. Dash!given' = Dash!given
  <2>1. PICK r : r = [Dash!Idle EXCEPT !.pc = "get", !.section = s]  OBVIOUS
  <2>2. query' = [query EXCEPT ![q] = r] /\ r.pc = "get"
    BY <2>1 DEF Dash!Ask, Dash!Put, Dash!Idle
  <2>3. QED BY <1>1, <2>2 DEF Dash!given
<1>3. Dash!Needs(s) \in SUBSET Kind  BY DashNeeds DEF DashInv
<1>4. posed' = [posed EXCEPT ![q] = [k \in Dash!Needs(s) |-> bumped[s][k]]]
      /\ bumped' = bumped /\ rows' = rows
  BY DEF Dash!Ask
<1>5. Dash!db' = Dash!db  BY <1>4 DEF Dash!db, Dash!Version
<1>6. Dash!Promise!Ask(q)
  BY <1>1, <1>2, <1>3, <1>4, <1>5 DEF Dash!Promise!Ask
<1>7. QED BY <1>6 DEF Dash!Promise!Next

LEMMA DashFinishKeeps ==
  ASSUME DashInv, NEW q \in Query, Dash!Finish(q)
  PROVE  Dash!Promise!Next
<1>1. query \in [Query -> DashRequests] /\ query[q].pc # "idle"
  BY DEF DashInv, DashTypes, Dash!Finish
<1>2. posed[q] # None
  <2>1. PICK s \in Section : posed[q] \in [Dash!Needs(s) -> Nat]  BY <1>1, Asked
  <2>2. QED BY <2>1, DashAnswers
<1>3. Dash!given' = [Dash!given EXCEPT ![q] = None]
  BY <1>1 DEF Dash!Finish, Dash!Put, Dash!given, Dash!Idle
<1>4. posed' = [posed EXCEPT ![q] = None] /\ bumped' = bumped /\ rows' = rows
  BY DEF Dash!Finish
<1>5. Dash!db' = Dash!db  BY <1>4 DEF Dash!db, Dash!Version
<1>6. Dash!Promise!Close(q)
  BY <1>2, <1>3, <1>4, <1>5 DEF Dash!Promise!Close
<1>7. QED BY <1>6 DEF Dash!Promise!Next

LEMMA DashCreateKeeps ==
  ASSUME DashInv, NEW t \in Task, Dash!CreateRow(t)
  PROVE  [Dash!Promise!Next]_(Dash!Promise!vars)
<1>1. /\ task[t].pc # "idle" /\ rows' = rows \cup {Dash!Row(t)}
      /\ UNCHANGED <<query, bumped, posed>>
  BY DEF Dash!CreateRow
<1>2. CASE Dash!Row(t) \in rows
  <2>1. rows' = rows  BY <1>1, <1>2
  <2>2. Dash!db' = Dash!db  BY <2>1 DEF Dash!db, Dash!Version
  <2>3. QED BY <1>1, <2>2, DashStutters
<1>3. CASE Dash!Row(t) \notin rows
  <2>1. PICK x : x = Dash!Row(t)  OBVIOUS
  <2>2. x \in [kind: Kind, date: 1 .. day]  BY <1>1, <2>1, Running DEF Dash!Row
  <2>3. Dash!db' = [Dash!db EXCEPT ![x.kind] = @ + 1]
    BY <1>1, <1>3, <2>1, <2>2, RowMade
  <2>4. Dash!given' = Dash!given  BY <1>1 DEF Dash!given
  <2>5. Dash!Promise!Write  BY <1>1, <2>2, <2>3, <2>4 DEF Dash!Promise!Write
  <2>6. QED BY <2>5 DEF Dash!Promise!Next
<1>4. QED BY <1>2, <1>3

LEMMA DashBumpKeeps ==
  ASSUME DashInv, NEW t \in Task, Dash!Bumped(t), UNCHANGED <<rows, query, posed>>
  PROVE  Dash!Promise!Next
<1>1. PICK R : R = {s \in Section : task[t].kind \in Dash!Needs(s)}  OBVIOUS
<1>2. bumped' = [s \in Section |-> IF s \in R THEN Dash!db ELSE bumped[s]] /\ R \in SUBSET Section
  BY <1>1 DEF Dash!Bumped
<1>3. Dash!db' = Dash!db  BY DEF Dash!db, Dash!Version
<1>4. Dash!given' = Dash!given  BY DEF Dash!given
<1>5. Dash!Promise!Renew  BY <1>2, <1>3, <1>4 DEF Dash!Promise!Renew
<1>6. QED BY <1>5 DEF Dash!Promise!Next

LEMMA DashStepKeeps ==
  ASSUME DashInv, DashInv', [Dash!Next]_(Dash!vars)
  PROVE  [Dash!Promise!Next]_(Dash!Promise!vars)
<1>1. ASSUME UNCHANGED <<rows, bumped, posed, query>>
      PROVE  [Dash!Promise!Next]_(Dash!Promise!vars)
  <2>1. Dash!db' = Dash!db  BY <1>1 DEF Dash!db, Dash!Version
  <2>2. QED BY <1>1, <2>1, DashStutters
<1>2. CASE UNCHANGED Dash!vars  BY <1>1, <1>2 DEF Dash!vars
<1>3. CASE Dash!NewDay  BY <1>1, <1>3 DEF Dash!NewDay
<1>4. ASSUME NEW t \in Task,
             \/ \E k \in Kind : Dash!StartTask(t, k)
             \/ Dash!FindRow(t) \/ Dash!CreateRow(t) \/ Dash!AddGeneration(t)
             \/ Dash!CountUp(t) \/ Dash!LoseTask(t)
      PROVE  [Dash!Promise!Next]_(Dash!Promise!vars)
  <2>1. CASE \E k \in Kind : Dash!StartTask(t, k)  BY <2>1, <1>1 DEF Dash!StartTask
  <2>2. CASE Dash!FindRow(t) \/ Dash!LoseTask(t)
    BY <2>2, <1>1 DEF Dash!FindRow, Dash!LoseTask
  <2>3. CASE Dash!CreateRow(t)  BY <2>3, DashCreateKeeps
  <2>4. CASE Dash!AddGeneration(t)
    <3>1. CASE counts[task[t].kind] = 0
      BY <2>4, <3>1, DashBumpKeeps DEF Dash!AddGeneration
    <3>2. CASE counts[task[t].kind] # 0
      BY <2>4, <3>2, <1>1 DEF Dash!AddGeneration
    <3>3. QED BY <3>1, <3>2
  <2>5. CASE Dash!CountUp(t)  BY <2>5, DashBumpKeeps DEF Dash!CountUp
  <2>6. QED BY <1>4, <2>1, <2>2, <2>3, <2>4, <2>5
<1>5. ASSUME NEW q \in Query,
             Dash!Serve(q) \/ Dash!Bypass(q) \/ \E s \in Section : Dash!Ask(q, s)
      PROVE  [Dash!Promise!Next]_(Dash!Promise!vars)
  <2>1. CASE Dash!Finish(q)  BY <2>1, DashFinishKeeps
  <2>2. CASE (Dash!Serve(q) \/ Dash!Bypass(q)) /\ ~ Dash!Finish(q)
    BY <2>2, DashServes, DashGoesOnKeeps
  <2>3. CASE \E s \in Section : Dash!Ask(q, s)  BY <2>3, DashAskKeeps
  <2>4. QED BY <1>5, <2>1, <2>2, <2>3
<1>6. ASSUME NEW k \in DOMAIN kept, Dash!Expire(k)
      PROVE  [Dash!Promise!Next]_(Dash!Promise!vars)
  BY <1>1, <1>6 DEF Dash!Expire
<1>7. QED BY <1>2, <1>3, <1>4, <1>5, <1>6 DEF Dash!Next

\* A section is given as it was at the last completed bump of one of its kinds
\* before it was asked for, or newer, each of its kinds, and never from the
\* future: for any number of kinds, sections, tasks and requests, whatever bumps
\* are lost and however tasks and requests interleave.
THEOREM DashboardsKeepPromise == DashAssumption /\ Dash!Spec => Dash!KeepsPromise
<1>1. Dash!Init => Dash!Promise!Init  BY DashStarts
<1>2. DashInv /\ DashInv' /\ [Dash!Next]_(Dash!vars) => [Dash!Promise!Next]_(Dash!Promise!vars)
  BY DashStepKeeps
<1>3. DashAssumption /\ Dash!Spec => Dash!Promise!Spec
  BY <1>1, <1>2, DashInvariant, PTL DEF Dash!Spec, Dash!Promise!Spec
<1>4. QED BY <1>3 DEF Dash!KeepsPromise

\* There is a row a day.
LEMMA VersionsBounded ==
  ASSUME DashInv, NEW k \in Kind
  PROVE  Dash!db[k] \in 0 .. MaxDay
<1> DEFINE Of == {r \in rows : r.kind = k}
           f == [r \in Of |-> r.date]
<1>1. /\ day \in 1 .. MaxDay /\ MaxDay \in Nat /\ rows \subseteq [kind: Kind, date: 1 .. day]
      /\ Dash!db[k] \in Nat /\ Dash!db[k] = Cardinality(Of)
  <2>1. Dash!db[k] = Dash!Version(k)  BY DEF Dash!db
  <2>2. Dash!Version(k) = Cardinality(Of)  BY SameCount DEF Dash!Version
  <2>3. QED BY <2>1, <2>2 DEF DashInv, DashTypes, DashAssumption
<1>2. 1 .. day \subseteq 1 .. MaxDay  BY <1>1
<1>3. \A r \in Of : r = [kind |-> k, date |-> r.date] /\ r.date \in 1 .. MaxDay
  BY <1>1, <1>2
<1>4. \A r, s \in Of : r.date = s.date => r = s
  BY <1>3
<1>5. f \in [Of -> 1 .. MaxDay] /\ \A r, s \in Of : f[r] = f[s] => r = s
  BY <1>3, <1>4
<1>6. f \in Injection(Of, 1 .. MaxDay)
  BY <1>5 DEF Injection, IsInjective
<1>7. IsFiniteSet(1 .. MaxDay) /\ Cardinality(1 .. MaxDay) = MaxDay
  BY <1>1, FS_Interval
<1>8. Cardinality(Of) <= Cardinality(1 .. MaxDay)
  BY <1>6, <1>7, FS_Injection
<1>9. QED BY <1>1, <1>7, <1>8

\* Every variable has its type: what is stored or given for a section is made of
\* all the kinds it depends on, and there is a row a day.
THEOREM DashboardTypes == DashAssumption /\ Dash!Spec => []Dash!TypeOK
<1>1. ASSUME DashInv PROVE Dash!TypeOK
  <2> USE <1>1 DEF DashInv
  <2>1. \A k \in Kind : Dash!db[k] \in 0 .. MaxDay  BY VersionsBounded
  <2>2. bumped \in [Section -> [Kind -> 0 .. MaxDay]]
    <3>1. ASSUME NEW s \in Section PROVE bumped[s] \in [Kind -> 0 .. MaxDay]
      <4>1. bumped[s] \in [Kind -> Nat] /\ \A k \in Kind : bumped[s][k] <= Dash!db[k]
        BY DEF DashTypes
      <4>2. \A k \in Kind : bumped[s][k] \in 0 .. MaxDay  BY <2>1, <4>1 DEF DashAssumption
      <4>3. QED BY <4>1, <4>2
    <3>2. QED BY <3>1 DEF DashTypes
  <2>3. ASSUME NEW s \in Section, NEW a \in [Dash!Needs(s) -> Nat],
               \A d \in Dash!Needs(s) : a[d] <= Dash!db[d]
        PROVE  a \in Dash!AnswersFor(s)
    <3>1. Dash!Needs(s) \subseteq Kind  BY DashNeeds
    <3>2. \A d \in Dash!Needs(s) : a[d] \in 0 .. MaxDay
      BY <2>1, <2>3, <3>1 DEF DashAssumption
    <3>3. QED BY <3>2 DEF Dash!AnswersFor
  <2>4. \A k \in DOMAIN kept :
          /\ k.section \in Section /\ Len(k.gens) = Len(Depends[k.section])
          /\ kept[k] \in Dash!AnswersFor(k.section)
    BY <2>3 DEF DashEntries, DashKey
  <2>5. ASSUME NEW q \in Query
        PROVE  /\ query[q].pc \in {"idle", "get", "add", "again", "lookup", "build", "store",
                                   "done"}
               /\ query[q].pc \in {"store", "done"} =>
                    query[q].answer \in Dash!AnswersFor(query[q].section)
    <3>1. query[q] \in DashRequests /\ DashPhase(q)  BY DEF DashTypes
    <3>2. CASE query[q].pc \in {"store", "done"}
      <4>1. query[q].section \in Section  BY <3>2, Asked
      <4>2. query[q].answer \in [Dash!Needs(query[q].section) -> Nat]
        BY <3>1, <3>2 DEF DashPhase, DashRequests
      <4>3. \A d \in Dash!Needs(query[q].section) : query[q].answer[d] <= Dash!db[d]
        BY <3>1, <3>2 DEF DashPhase
      <4>4. query[q].answer \in Dash!AnswersFor(query[q].section)  BY <4>1, <4>2, <4>3, <2>3
      <4>5. QED BY <3>2, <4>4
    <3>3. CASE query[q].pc \notin {"store", "done"}
      BY <3>1, <3>3 DEF DashRequests
    <3>4. QED BY <3>2, <3>3
  <2>6. QED BY <2>2, <2>4, <2>5 DEF DashTypes, DashTasks, Dash!TypeOK, Dash!Resting
<1>2. QED BY <1>1, DashInvariant, PTL
=============================================================================
