---------------------------- MODULE CachePromise ----------------------------
(***************************************************************************)
(* What a cache whose keys carry a generation promises its readers: an      *)
(* answer is made of the sources it was asked for, each no older than it    *)
(* was when the reader's generation was last renewed before the question,   *)
(* and none from the future.  ScopeCache and AnalyticsCache implement it,   *)
(* whatever happens to the keys, the generations and the cache itself.      *)
(***************************************************************************)
EXTENDS Naturals

CONSTANTS
  Reader,    \* those who ask: users, or sections of a dashboard
  Source,    \* what answers are made of
  Request,   \* requests
  NoAnswer

VARIABLES
  db,        \* the version of each source
  floor,     \* by reader, the versions at the last completed renewal
  asked,     \* what each open request may be given at worst, or NoAnswer
  given      \* its answer, or NoAnswer

vars == <<db, floor, asked, given>>

Versions(S) == [S -> Nat]

Init ==
  /\ db = [s \in Source |-> 0]
  /\ floor = [r \in Reader |-> db]
  /\ asked = [q \in Request |-> NoAnswer]
  /\ given = [q \in Request |-> NoAnswer]

Write ==
  /\ \E s \in Source : db' = [db EXCEPT ![s] = @ + 1]
  /\ UNCHANGED <<floor, asked, given>>

Renew ==
  /\ \E R \in SUBSET Reader :
       floor' = [r \in Reader |-> IF r \in R THEN db ELSE floor[r]]
  /\ UNCHANGED <<db, asked, given>>

\* A question is about some of the sources.
Ask(q) ==
  /\ asked[q] = NoAnswer
  /\ \E r \in Reader, needs \in SUBSET Source :
       asked' = [asked EXCEPT ![q] = [s \in needs |-> floor[r][s]]]
  /\ UNCHANGED <<db, floor, given>>

Answer(q) ==
  /\ asked[q] # NoAnswer /\ given[q] = NoAnswer
  /\ given'[q] # NoAnswer
  /\ DOMAIN given'[q] = DOMAIN asked[q]
  /\ \A s \in DOMAIN asked[q] : given'[q][s] \in asked[q][s] .. db[s]
  /\ given' = [given EXCEPT ![q] = given'[q]]
  /\ UNCHANGED <<db, floor, asked>>

\* Answered, or failed.
Close(q) ==
  /\ asked[q] # NoAnswer
  /\ asked' = [asked EXCEPT ![q] = NoAnswer]
  /\ given' = [given EXCEPT ![q] = NoAnswer]
  /\ UNCHANGED <<db, floor>>

Next ==
  \/ Write \/ Renew
  \/ \E q \in Request : Ask(q) \/ Answer(q) \/ Close(q)

Spec == Init /\ [][Next]_vars
=============================================================================
