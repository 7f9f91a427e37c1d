----------------------------- MODULE ScopeCache -----------------------------
(***************************************************************************)
(* The lists of departments, locations and rooms a user may choose from.    *)
(* UserScopeListCacheMixin answers from Redis under a key made of the user, *)
(* the user's generation, the generation of the sites and the active role.  *)
(* A change of the user's roles or of the sites commits first and renews    *)
(* the generation after it, best effort: what is stored under the old       *)
(* generation is never asked for again, and expires.                        *)
(*                                                                          *)
(* Postgres and Redis are outside the code.  A statement sees what is       *)
(* committed; a Redis command is atomic, and may fail or lose every key.    *)
(* Entries expire at any time, and do in the end: how long they last is     *)
(* left open.  One request shape is modelled, as the digest only adds keys. *)
(***************************************************************************)
EXTENDS Integers, FiniteSets, Functions

CONSTANTS
  User,
  Role,        \* role assignments
  Owner,       \* whose each is
  Request,     \* list requests, each one made over and over
  None,
  Faults,      \* \subseteq {"down", "lost", "flush"}
  MaxEvents    \* bound on commits and losses of the whole cache

Source == Role \cup {"sites"}
Owners == User \cup {"sites"}    \* of generations

\* No answer is None, and the requests are finitely many at a time.
ASSUME CacheAssumption ==
  /\ Owner \in [Role -> User]
  /\ None \notin User \cup Role /\ User \cap Role = {}
  /\ \A S \in SUBSET Source : None \notin [S -> Nat]
  /\ "sites" \notin User \cup Role
  /\ IsFiniteSet(Request)
  /\ MaxEvents \in Nat
  /\ Faults \subseteq {"down", "lost", "flush"}

VARIABLES
  db,        \* how often each role and the sites have been changed
  active,    \* User.active_role_id
  gone,      \* deleted roles
  pending,   \* renewals to be made by on_commit callbacks, by generation
  gen,       \* the generations in Redis, 0 when there is none
  entries,   \* the answers in Redis, by key
  req,       \* what each request is doing
  events,    \* commits and losses of the cache so far
  floor, asked  \* for CachePromise: versions at renewals, and at questions

stored == <<gen, entries>>
vars == <<db, active, gone, pending, gen, entries, req, events,
          floor, asked>>

Roles == Role \cup {None}
Idle == [pc |-> "idle", user |-> None, role |-> None, of |-> None,
         user_gen |-> 0, site_gen |-> 0, cached |-> TRUE, role_read |-> 0,
         answer |-> None]

\* Generations are in use; at first, as after a Flush, there are none.
Init ==
  /\ db = [s \in Source |-> 0]
  /\ active \in {a \in [User -> Roles] :
                   \A u \in User : a[u] # None => Owner[a[u]] = u}
  /\ gone = {}
  /\ pending = [g \in Owners |-> 0]
  /\ gen = [g \in Owners |-> 1]
  /\ entries = << >>
  /\ req = [q \in Request |-> Idle]
  /\ events = 0
  /\ floor = [u \in User |-> db]
  /\ asked = [q \in Request |-> None]
-----------------------------------------------------------------------------
(* A list request.                                                         *)
Put(q, r) == req' = [req EXCEPT ![q] = r]
Go(q, pc) == Put(q, [req[q] EXCEPT !.pc = pc])

\* The sources an answer for a role is made of; without a role it is empty.
Needs(r) == IF r = None THEN {} ELSE {r, "sites"}

\* The user's row, with active_role_id, is read by the authentication.
Authenticate(q, u) ==
  /\ req[q].pc = "idle"
  /\ Put(q, [Idle EXCEPT !.pc = "get", !.of = u, !.user = u, !.role = active[u]])
  /\ asked' = [asked EXCEPT ![q] = [s \in Needs(active[u]) |-> floor[u][s]]]
  /\ UNCHANGED <<db, active, gone, pending, stored, events, floor>>

Take(q, g) ==
  Put(q, IF req[q].of = "sites"
         THEN [req[q] EXCEPT !.site_gen = g, !.pc = "lookup"]
         ELSE [req[q] EXCEPT !.user_gen = g, !.pc = "get", !.of = "sites"])

\* A new uuid is one that nothing holds: such a number stands for it.
Held(g) ==
  IF g = "sites"
  THEN {gen[g]} \cup {k.site_gen : k \in DOMAIN entries} \cup {req[q].site_gen : q \in Request}
  ELSE {gen[g]} \cup {k.user_gen : k \in DOMAIN entries} \cup {req[q].user_gen : q \in Request}

\* Mutant: generations are counted.
BugUuid(g) == gen[g] + 1

Uuid(g) == CHOOSE n \in 1 .. Cardinality(Held(g)) + 1 : n \notin Held(g)

Renew(g) == gen' = [gen EXCEPT ![g] = Uuid(g)]

\* get_generation, for the user and then for the sites: get, or add a new one,
\* or get the one that has won, or set it.
ReadGeneration(q) ==
  /\ req[q].pc \in {"get", "again"}
  /\ IF gen[req[q].of] # 0 THEN Take(q, gen[req[q].of])
     ELSE Go(q, IF req[q].pc = "get" THEN "add" ELSE "set")
  /\ UNCHANGED <<db, active, gone, pending, stored, events, floor, asked>>

AddGeneration(q) ==
  /\ req[q].pc = "add"
  /\ IF gen[req[q].of] = 0
     THEN Renew(req[q].of) /\ Take(q, gen'[req[q].of])
     ELSE Go(q, "again") /\ UNCHANGED gen
  /\ UNCHANGED <<db, active, gone, pending, entries, events, floor, asked>>

SetGeneration(q) ==
  /\ req[q].pc = "set"
  /\ Renew(req[q].of) /\ Take(q, gen'[req[q].of])
  /\ UNCHANGED <<db, active, gone, pending, entries, events, floor, asked>>

Key(q) == [user |-> req[q].user, user_gen |-> req[q].user_gen,
           site_gen |-> req[q].site_gen, role |-> req[q].role]

Done(q, answer) ==
  [Idle EXCEPT !.pc = "done", !.user = req[q].user, !.role = req[q].role, !.answer = answer]

Lookup(q) ==
  /\ req[q].pc = "lookup"
  /\ IF Key(q) \in DOMAIN entries
     THEN Put(q, Done(q, entries[Key(q)]))
     ELSE Go(q, "role")
  /\ UNCHANGED <<db, active, gone, pending, stored, events, floor, asked>>

\* Redis fails: the list is made from the database and not stored.
Bypass(q) ==
  /\ "down" \in Faults
  /\ req[q].pc \notin {"idle", "role", "rows", "store", "done"}
  /\ Put(q, [Idle EXCEPT !.pc = "role", !.user = req[q].user, !.role = req[q].role,
                       !.cached = FALSE])
  /\ UNCHANGED <<db, active, gone, pending, stored, events, floor, asked>>

Answered(q, answer) ==
  Put(q, IF req[q].cached THEN [req[q] EXCEPT !.pc = "store", !.answer = answer]
         ELSE Done(q, answer))

\* ScopeFilterMixin loads the active role when it is first used, in list().
LoadRole(q) ==
  /\ req[q].pc = "role" /\ req[q].role \notin gone
  /\ IF req[q].role = None
     THEN Answered(q, << >>)
     ELSE Put(q, [req[q] EXCEPT !.pc = "rows", !.role_read = db[req[q].role]])
  /\ UNCHANGED <<db, active, gone, pending, stored, events, floor, asked>>

ListRows(q) ==
  /\ req[q].pc = "rows"
  /\ Answered(q, [s \in Needs(req[q].role) |->
                    IF s = "sites" THEN db[s] ELSE req[q].role_read])
  /\ UNCHANGED <<db, active, gone, pending, stored, events, floor, asked>>

Store(q) ==
  /\ req[q].pc = "store"
  /\ Put(q, Done(q, req[q].answer))
  /\ \/ entries' = [k \in DOMAIN entries \cup {Key(q)} |->
                      IF k = Key(q) THEN req[q].answer ELSE entries[k]]
     \/ "down" \in Faults /\ UNCHANGED entries
  /\ UNCHANGED <<db, active, gone, pending, gen, events, floor, asked>>

\* The answer is out, or the role has vanished and the request fails.
Finish(q) ==
  /\ req[q].pc = "done" \/ (req[q].pc = "role" /\ req[q].role \in gone)
  /\ Put(q, Idle)
  /\ asked' = [asked EXCEPT ![q] = None]
  /\ UNCHANGED <<db, active, gone, pending, stored, events, floor>>
-----------------------------------------------------------------------------
(* Writers.  Each commits, and has a callback renew a generation.          *)
Commit(g) ==
  /\ events < MaxEvents
  /\ events' = events + 1
  /\ pending' = [pending EXCEPT ![g] = @ + 1]
  /\ UNCHANGED <<stored, req, floor, asked>>

Bump(S) == db' = [s \in Source |-> IF s \in S THEN db[s] + 1 ELSE db[s]]

\* Deleted roles are nobody's active role: on_delete=SET_NULL.
Erase(R) ==
  /\ gone' = gone \cup R
  /\ active' = [u \in User |-> IF active[u] \in R THEN None ELSE active[u]]

UpdateRole(r) ==
  /\ r \notin gone
  /\ Bump({r}) /\ Commit(Owner[r])
  /\ UNCHANGED <<active, gone>>

DeleteRole(r) ==
  /\ r \notin gone
  /\ Erase({r}) /\ Commit(Owner[r])
  /\ UNCHANGED db

SetActiveRole(r) ==
  /\ r \notin gone /\ active[Owner[r]] # r
  /\ active' = [active EXCEPT ![Owner[r]] = r]
  /\ Commit(Owner[r])
  /\ UNCHANGED <<db, gone>>

\* Create, update, rename, relocate or delete a site, with the roles it scopes.
ChangeSites(R) ==
  /\ Bump({"sites"}) /\ Erase(R) /\ Commit("sites")

Renewed(g) == IF g = "sites" THEN User ELSE {g}

Invalidate(g) ==
  /\ pending[g] > 0
  /\ pending' = [pending EXCEPT ![g] = @ - 1]
  /\ Renew(g)
  /\ floor' = [u \in User |-> IF u \in Renewed(g) THEN db ELSE floor[u]]
  /\ UNCHANGED <<db, active, gone, entries, req, events, asked>>

\* Redis refuses the new generation, or the process ends before the callback.
LoseInvalidation(g) ==
  /\ "lost" \in Faults /\ pending[g] > 0
  /\ pending' = [pending EXCEPT ![g] = @ - 1]
  /\ UNCHANGED <<db, active, gone, stored, req, events, floor, asked>>
-----------------------------------------------------------------------------
(* Redis.                                                                  *)
Expire(k) ==
  /\ k \in DOMAIN entries
  /\ entries' = Restrict(entries, DOMAIN entries \ {k})
  /\ UNCHANGED <<db, active, gone, pending, gen, req, events, floor, asked>>

Flush ==
  /\ "flush" \in Faults /\ events < MaxEvents
  /\ events' = events + 1
  /\ gen' = [g \in Owners |-> 0] /\ entries' = << >>
  /\ UNCHANGED <<db, active, gone, pending, req, floor, asked>>
-----------------------------------------------------------------------------
Serve(q) ==
  \/ ReadGeneration(q) \/ AddGeneration(q) \/ SetGeneration(q) \/ Lookup(q)
  \/ LoadRole(q) \/ ListRows(q) \/ Store(q) \/ Finish(q)

Settle(g) == Invalidate(g) \/ LoseInvalidation(g)

Next ==
  \/ \E q \in Request : Serve(q) \/ Bypass(q) \/ \E u \in User : Authenticate(q, u)
  \/ \E r \in Role : UpdateRole(r) \/ DeleteRole(r) \/ SetActiveRole(r)
  \/ \E R \in SUBSET (Role \ gone) : ChangeSites(R)
  \/ \E g \in Owners : Settle(g)
  \/ \E k \in DOMAIN entries : Expire(k)
  \/ Flush

Spec == Init /\ [][Next]_vars
-----------------------------------------------------------------------------
\* Every variable has its type: in particular an answer never mixes the
\* sources of two roles, and a generation is used only after it was drawn.
AnswerFor(r) == [Needs(r) -> 0 .. MaxEvents]

TypeOK ==
  /\ db \in [Source -> 0 .. MaxEvents] /\ floor \in [User -> [Source -> 0 .. MaxEvents]]
  /\ active \in [User -> Roles \ gone] /\ gone \subseteq Role
  /\ pending \in [Owners -> 0 .. MaxEvents] /\ gen \in [Owners -> Nat]
  /\ \A k \in DOMAIN entries : 
       /\ k \in [user: User, user_gen: Nat \ {0}, site_gen: Nat \ {0}, role: Roles]
       /\ entries[k] \in AnswerFor(k.role)
  /\ \A q \in Request :
       /\ req[q].pc \in {"idle", "get", "add", "again", "set", "lookup", "role", "rows",
                          "store", "done"}
       /\ req[q].answer # None => req[q].answer \in AnswerFor(req[q].role)

\* An answer is about the role the request was authenticated with, and no older
\* than the last renewal of one of the generations before the request began,
\* whatever renewals are lost, whichever Redis commands fail and however
\* requests, writers and the loss of the cache interleave.
given == [q \in Request |-> IF req[q].pc = "done" THEN req[q].answer ELSE None]
Promise == INSTANCE CachePromise WITH Reader <- User, NoAnswer <- None
KeepsPromise == Promise!Spec
=============================================================================
