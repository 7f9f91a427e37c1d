--------------------------- MODULE AnalyticsCache ---------------------------
(***************************************************************************)
(* The analytics dashboards.  A task of each kind makes one row a day and   *)
(* counts up the generation of its kind; a section of a dashboard is built  *)
(* from the rows and kept in Redis under the generations of the kinds it    *)
(* depends on.                                                              *)
(*                                                                          *)
(* Postgres and Redis are outside the code: rows are unique by kind and     *)
(* day, statements and commands are atomic, and a command may fail.         *)
(* Entries expire at any time, and do in the end.  The lock on building a   *)
(* section decides only who waits for it, and nobody waits long: a miss may *)
(* always be followed by a build.                                           *)
(***************************************************************************)
EXTENDS Integers, FiniteSets, Sequences, Functions

CONSTANTS
  Kind,      \* of metrics, the dependencies of sections
  Section,
  Depends,   \* the kinds a section depends on, in order
  Request, Task,
  None,
  MaxDay, MaxRows,  \* bounds on dates and rows
  Faults     \* \subseteq {"down", "crash", "error"}

\* A section depends on something, and None is no answer.
ASSUME AnalyticsAssumption ==
  /\ Depends \in [Section -> Seq(Kind) \ {<< >>}]
  /\ None \notin Kind \cup Section
  /\ \A S \in SUBSET Kind : None \notin [S -> Nat]
  /\ MaxDay \in Nat \ {0} /\ MaxRows \in Nat
  /\ Faults \subseteq {"down", "crash", "error"}

VARIABLES
  day,      \* the date
  rows,     \* the rows made, by kind and date
  task,     \* executions of the snapshot tasks
  gen,      \* generations in Redis, 0 when there is none
  entries,  \* sections in Redis, by key
  req,      \* what each request for a section is doing
  floor, asked  \* for CachePromise: versions at bumps, and at questions

vars == <<day, rows, task, gen, entries, req, floor, asked>>

\* A version of a kind: how many rows it has.
Version(k) == Cardinality({r \in rows : r.kind = k})
db == [k \in Kind |-> Version(k)]
Needs(s) == Range(Depends[s])

Resting == [pc |-> "idle", kind |-> None, date |-> 0]
Idle == [pc |-> "idle", section |-> None, at |-> 1, gens |-> << >>, cached |-> TRUE,
         answer |-> << >>]

Init ==
  /\ day = 1 /\ rows = {}
  /\ task = [t \in Task |-> Resting]
  /\ gen = [k \in Kind |-> 0]
  /\ entries = << >>
  /\ req = [q \in Request |-> Idle]
  /\ floor = [s \in Section |-> db]
  /\ asked = [q \in Request |-> None]
-----------------------------------------------------------------------------
(* Snapshots.                                                              *)
TaskTo(t, r) == task' = [task EXCEPT ![t] = r]
TaskGo(t, pc) == TaskTo(t, [task[t] EXCEPT !.pc = pc])
Row(t) == [kind |-> task[t].kind, date |-> task[t].date]

NewDay ==
  /\ day < MaxDay
  /\ day' = day + 1
  /\ UNCHANGED <<rows, task, gen, entries, req, floor, asked>>

\* By the schedule, by hand, or as a retry after an error; the date is today's.
StartTask(t, k) ==
  /\ task[t].pc = "idle" /\ Cardinality(rows) < MaxRows
  /\ TaskTo(t, [pc |-> "get", kind |-> k, date |-> day])
  /\ UNCHANGED <<day, rows, gen, entries, req, floor, asked>>

\* get_or_create: nothing is left to do when the row is there.
FindRow(t) ==
  /\ task[t].pc = "get"
  /\ IF Row(t) \in rows THEN TaskTo(t, Resting) ELSE TaskGo(t, "create")
  /\ UNCHANGED <<day, rows, gen, entries, req, floor, asked>>

\* The loser of a race for the row finds the winner's.
CreateRow(t) ==
  /\ task[t].pc = "create"
  /\ rows' = rows \cup {Row(t)}
  /\ IF Row(t) \in rows THEN TaskTo(t, Resting) ELSE TaskGo(t, "add")
  /\ UNCHANGED <<day, gen, entries, req, floor, asked>>

\* After the commit, on_commit runs bump_generation: add 2, or count up.
Bumped(t) ==
  /\ TaskTo(t, Resting)
  /\ floor' = [s \in Section |-> IF task[t].kind \in Needs(s) THEN db ELSE floor[s]]

AddGeneration(t) ==
  /\ task[t].pc = "add"
  /\ IF gen[task[t].kind] = 0
     THEN gen' = [gen EXCEPT ![task[t].kind] = 2] /\ Bumped(t)
     ELSE TaskGo(t, "incr") /\ UNCHANGED <<gen, floor>>
  /\ UNCHANGED <<day, rows, entries, req, asked>>

\* Mutant: a generation that exists is left alone.
BugCountUp(t) ==
  /\ task[t].pc = "incr"
  /\ Bumped(t)
  /\ UNCHANGED <<day, rows, gen, entries, req, asked>>

CountUp(t) ==
  /\ task[t].pc = "incr"
  /\ gen' = [gen EXCEPT ![task[t].kind] = IF @ = 0 THEN 2 ELSE @ + 1]
  /\ Bumped(t)
  /\ UNCHANGED <<day, rows, entries, req, asked>>

\* The database refuses, Redis refuses the bump, or the worker dies.  Another
\* execution may follow, and finds the row if this one has made it.
LoseTask(t) ==
  /\ \/ "error" \in Faults /\ task[t].pc \in {"get", "create"}
     \/ "down" \in Faults /\ task[t].pc \in {"add", "incr"}
     \/ "crash" \in Faults /\ task[t].pc # "idle"
  /\ TaskTo(t, Resting)
  /\ UNCHANGED <<day, rows, gen, entries, req, floor, asked>>
-----------------------------------------------------------------------------
(* Requests: AnalyticsCacheService.get_or_build.                           *)
Put(q, r) == req' = [req EXCEPT ![q] = r]
Go(q, pc) == Put(q, [req[q] EXCEPT !.pc = pc])

Ask(q, s) ==
  /\ req[q].pc = "idle"
  /\ Put(q, [Idle EXCEPT !.pc = "get", !.section = s])
  /\ asked' = [asked EXCEPT ![q] = [k \in Needs(s) |-> floor[s][k]]]
  /\ UNCHANGED <<day, rows, task, gen, entries, floor>>

With(f, x, v) == [y \in DOMAIN f \cup {x} |-> IF y = x THEN v ELSE f[y]]

\* The dependency whose generation, and later whose rows, are read next.
Dep(q) == Depends[req[q].section][req[q].at]
Last(q) == req[q].at = Len(Depends[req[q].section])

Take(q, g) ==
  Put(q, [req[q] EXCEPT !.gens = Append(@, g),
                        !.pc = IF Last(q) THEN "lookup" ELSE "get",
                        !.at = IF Last(q) THEN 1 ELSE @ + 1])

\* get_generation: get, or add 1 and get what is there then.
ReadGeneration(q) ==
  /\ req[q].pc \in {"get", "again"}
  /\ IF gen[Dep(q)] # 0 THEN Take(q, gen[Dep(q)])
     ELSE IF req[q].pc = "get" THEN Go(q, "add") ELSE Take(q, 1)
  /\ UNCHANGED <<day, rows, task, gen, entries, floor, asked>>

FirstGeneration(q) ==
  /\ req[q].pc = "add"
  /\ gen' = [gen EXCEPT ![Dep(q)] = IF @ = 0 THEN 1 ELSE @]
  /\ Go(q, "again")
  /\ UNCHANGED <<day, rows, task, entries, floor, asked>>

Key(q) == [section |-> req[q].section, gens |-> req[q].gens]

Done(q, answer) == [Idle EXCEPT !.pc = "done", !.section = req[q].section, !.answer = answer]

\* A request that misses, waits for another's build and finds the section is one
\* that looks later.
Lookup(q) ==
  /\ req[q].pc = "lookup"
  /\ IF Key(q) \in DOMAIN entries THEN Put(q, Done(q, entries[Key(q)]))
     ELSE Go(q, "build")
  /\ UNCHANGED <<day, rows, task, gen, entries, floor, asked>>

\* Redis fails before the section is found: it is built and not stored.
Bypass(q) ==
  /\ "down" \in Faults
  /\ req[q].pc \in {"get", "add", "again", "lookup"}
  /\ Put(q, [Idle EXCEPT !.pc = "build", !.section = req[q].section, !.cached = FALSE])
  /\ UNCHANGED <<day, rows, task, gen, entries, floor, asked>>

\* The builder reads the rows of one kind after the other.
Build(q) ==
  LET answer == With(req[q].answer, Dep(q), db[Dep(q)])
  IN /\ req[q].pc = "build"
     /\ Put(q, IF ~ Last(q) THEN [req[q] EXCEPT !.answer = answer, !.at = @ + 1]
               ELSE IF req[q].cached THEN [req[q] EXCEPT !.answer = answer, !.pc = "store"]
               ELSE Done(q, answer))
     /\ UNCHANGED <<day, rows, task, gen, entries, floor, asked>>

Store(q) ==
  /\ req[q].pc = "store"
  /\ Put(q, Done(q, req[q].answer))
  /\ \/ entries' = With(entries, Key(q), req[q].answer)
     \/ "down" \in Faults /\ UNCHANGED entries
  /\ UNCHANGED <<day, rows, task, gen, floor, asked>>

Finish(q) ==
  /\ req[q].pc = "done"
  /\ Put(q, Idle)
  /\ asked' = [asked EXCEPT ![q] = None]
  /\ UNCHANGED <<day, rows, task, gen, entries, floor>>

Serve(q) ==
  \/ ReadGeneration(q) \/ FirstGeneration(q) \/ Lookup(q) \/ Build(q) \/ Store(q)
  \/ Finish(q)
-----------------------------------------------------------------------------
(* Redis.                                                                  *)
\* Mutant: entries are stored without a timeout.
BugExpire(k) == k \notin DOMAIN entries /\ UNCHANGED vars

Expire(k) ==
  /\ k \in DOMAIN entries
  /\ entries' = Restrict(entries, DOMAIN entries \ {k})
  /\ UNCHANGED <<day, rows, task, gen, req, floor, asked>>
-----------------------------------------------------------------------------
Next ==
  \/ NewDay
  \/ \E t \in Task :
       \/ \E k \in Kind : StartTask(t, k)
       \/ FindRow(t) \/ CreateRow(t) \/ AddGeneration(t) \/ CountUp(t) \/ LoseTask(t)
  \/ \E q \in Request : Serve(q) \/ Bypass(q) \/ \E s \in Section : Ask(q, s)
  \/ \E k \in DOMAIN entries : Expire(k)

Spec == Init /\ [][Next]_vars

\* A request is served in bounded time, and every entry has a timeout.
Fairness ==
  /\ \A q \in Request : WF_vars(Serve(q))
  /\ \A s \in Section : WF_vars(\E k \in DOMAIN entries : k.section = s /\ Expire(k))

FairSpec == Spec /\ Fairness
-----------------------------------------------------------------------------
AnswersFor(s) == [Needs(s) -> 0 .. MaxDay]

\* Every variable has its type: in particular what is stored or given for a
\* section is made of all the kinds it depends on, and there is a row a day.
TypeOK ==
  /\ day \in 1 .. MaxDay /\ rows \subseteq [kind: Kind, date: 1 .. day]
  /\ gen \in [Kind -> Nat] /\ floor \in [Section -> [Kind -> 0 .. MaxDay]]
  /\ \A t \in Task :
       task[t] = Resting \/ task[t] \in [pc: {"get", "create", "add", "incr"},
                                         kind: Kind, date: 1 .. day]
  /\ \A k \in DOMAIN entries :
       /\ k.section \in Section /\ Len(k.gens) = Len(Depends[k.section])
       /\ entries[k] \in AnswersFor(k.section)
  /\ \A q \in Request :
       /\ req[q].pc \in {"idle", "get", "add", "again", "lookup", "build", "store",
                         "done"}
       /\ req[q].pc \in {"store", "done"} => req[q].answer \in AnswersFor(req[q].section)

\* A section is given as it was at the last completed bump of one of its kinds
\* before it was asked for, or newer, whatever bumps are lost and however tasks
\* and requests interleave, as long as Redis keeps its generations.
given == [q \in Request |-> IF req[q].pc = "done" THEN req[q].answer ELSE None]
Promise == INSTANCE CachePromise WITH Reader <- Section, Source <- Kind, NoAnswer <- None
KeepsPromise == Promise!Spec

\* Although a bump may be lost with the worker that has made the row, and is not
\* repeated by the execution that follows, all answers are current in the end:
\* an entry is not renewed by being used.
Current(q) == req[q].pc = "done" => \A k \in DOMAIN req[q].answer : req[q].answer[k] = db[k]
AnswersCatchUp == <>[](\A q \in Request : Current(q))
=============================================================================
