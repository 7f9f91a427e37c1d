----------------------------- MODULE ImportRows -----------------------------
(***************************************************************************)
(* The rows of an import.  ReportJobs has the import of a file as one       *)
(* phase of a task; here the task goes through the file row by row, while   *)
(* deliveries, sweeps, cancels and failures go on as they do there.  A row  *)
(* is looked up in the database and then saved, in a transaction of its     *)
(* own; the lease of the job is looked at before some of the rows only.  A  *)
(* row that raises an error is reported and the next one is taken; only an  *)
(* infrastructure error leaves the loop.                                    *)
(*                                                                          *)
(* An asset is known by its dedupe key.  Nothing but imports makes assets   *)
(* of these keys, and nobody deletes them.                                  *)
(***************************************************************************)
EXTENDS ReportJobs, Sequences

CONSTANTS
  File,      \* the keys of the rows, the same for every import
  Fragile,   \* keys of rows that may end with an error
  Serial,    \* keys with a serial number, which is unique in the database
  CheckAt    \* rows before which the lease is looked at, every tenth in the code

Keys == {File[i] : i \in DOMAIN File}

ASSUME RowAssumption ==
  /\ File \in Seq(Keys)
  /\ CheckAt \subseteq DOMAIN File

VARIABLES
  loop,    \* of each worker, while its task goes through the file
  issues,  \* keys of the rows that the results in each worker's hands list as
           \* failed
  listed,  \* keys that the committed results of a job list
  made,    \* how many assets there are of each key
  raced,   \* keys saved while another task was about to save them (history)
  early    \* workers that were importing when their job's results were
           \* committed, and still are (history)

rowVars == <<loop, issues, listed, made, raced, early>>
allVars == <<vars, rowVars>>

Off == [pc |-> "off"]
Start == [pc |-> "look", at |-> 1, checked |-> FALSE, seen |-> {}]

RowsInit ==
  /\ Init
  /\ loop = [w \in Worker |-> Off]
  /\ issues = [w \in Worker |-> {}]
  /\ listed = [j \in Job |-> {}]
  /\ made = [k \in Keys |-> 0]
  /\ raced = {}
  /\ early = {}

KeyOf(w) == File[loop[w].at]

\* Mutant: the last row is left out.
BugOver(w) == loop[w].at >= Len(File)

Over(w) == loop[w].at > Len(File)

Due(w) == ~Over(w) /\ loop[w].at \in CheckAt /\ ~loop[w].checked

NextRow(w, seen) ==
  [loop EXCEPT ![w] = [pc |-> "look", at |-> @.at + 1, checked |-> FALSE, seen |-> seen]]

\* Mutant: only the file is searched for duplicates.
BugDuplicate(w, k) == k \in loop[w].seen

Duplicate(w, k) == k \in loop[w].seen \/ made[k] > 0

Importing(w) == exec[w].pc \in {"load", "rows"}

Loops(w) == At(w, "rows") /\ ~Over(w)
InRow(w) == Loops(w) /\ ~Due(w)

\* A duplicate in the file or the database is skipped; any other row is about
\* to be saved.
LookUp(w) ==
  LET k == KeyOf(w) IN
  /\ InRow(w) /\ loop[w].pc = "look"
  /\ loop' = IF Duplicate(w, k) THEN NextRow(w, loop[w].seen \union {k})
             ELSE [loop EXCEPT ![w].pc = "save", ![w].seen = @ \union {k}]
  /\ UNCHANGED <<vars, issues, listed, made, raced, early>>

Report(w, seen) ==
  /\ loop' = NextRow(w, seen)
  /\ issues' = [issues EXCEPT ![w] = @ \union {KeyOf(w)}]

\* A row raises an error of its own, before or after its key was noted: it is
\* reported, and the loop goes on.
RowFails(w) ==
  /\ InRow(w)
  /\ KeyOf(w) \in Fragile
  /\ \/ loop[w].pc = "look" /\ Report(w, loop[w].seen)
     \/ Report(w, loop[w].seen \union {KeyOf(w)})
  /\ UNCHANGED <<vars, listed, made, raced, early>>

\* A serial number that has come into use since is an error of the row.
SaveRow(w) ==
  LET k == KeyOf(w)
      rivals == {v \in Worker \ {w} : loop[v].pc = "save" /\ KeyOf(v) = k}
  IN
  /\ InRow(w) /\ loop[w].pc = "save"
  /\ IF k \in Serial /\ made[k] > 0
     THEN Report(w, loop[w].seen) /\ UNCHANGED made
     ELSE /\ made' = [made EXCEPT ![k] = @ + 1]
          /\ loop' = NextRow(w, loop[w].seen)
          /\ UNCHANGED issues
  /\ raced' = IF rivals = {} THEN raced ELSE raced \union {k}
  /\ UNCHANGED <<vars, listed, early>>

\* The lease is looked at; only a task that still has it goes on.
CheckLease(w) ==
  /\ Loops(w) /\ Due(w)
  /\ CheckRows(w)
  /\ IF exec'[w].pc = "rows"
     THEN loop' = [loop EXCEPT ![w].checked = TRUE] /\ UNCHANGED issues
     ELSE /\ loop' = [loop EXCEPT ![w] = Off]
          /\ issues' = [issues EXCEPT ![w] = {}]
  /\ early' = {v \in early : Importing(v)'}
  /\ UNCHANGED <<listed, made, raced>>

EndOfFile(w) ==
  /\ At(w, "rows") /\ Over(w)
  /\ RowsDone(w)
  /\ loop' = [loop EXCEPT ![w] = Off]
  /\ early' = {v \in early : Importing(v)'}
  /\ UNCHANGED <<issues, listed, made, raced>>

\* The results are committed, unless the lease is lost: those of the task's own
\* rows, or those that it found when it claimed the job.
HandOver(w) ==
  LET j == exec[w].msg.job IN
  /\ Handoff(w)
  /\ IF exec'[w].pc = "handed"
     THEN /\ listed' = [listed EXCEPT ![j] = issues[w]]
          /\ early' = early \union {v \in Worker : Importing(v) /\ exec[v].msg.job = j}
     ELSE UNCHANGED <<listed, early>>
  /\ issues' = [issues EXCEPT ![w] = {}]
  /\ UNCHANGED <<loop, made, raced>>

\* Every other step of ReportJobs.  A task enters the loop at the first row,
\* nothing of the loop outlives its execution, and an error of a row is not an
\* error of the task.
StraightStep(w) ==
  \/ Phase(w) \/ SaveObject(w) \/ Finish(w) \/ DeleteObject(w)
  \/ LoadFile(w) \/ Refresh(w) \/ DropUpload(w)
  \/ PrepareRetry(w) \/ PublishRetry(w) \/ MarkFailed(w) \/ Ack(w)

Elsewhere ==
  /\ \/ \E j \in Job : Request(j)
     \/ \E c \in Caller : Enqueue(c) \/ SendFails(c) \/ CallerCrash(c)
     \/ \E w \in Worker, m \in queue : Deliver(w, m) \/ DeliverFails(w, m)
     \/ \E w \in Worker : StraightStep(w) \/ Outage(w)
     \/ \E w \in Worker : ~InRow(w) /\ Raise(w, FALSE)
     \/ Recovery
     \/ Tick
  /\ loop' = [w \in Worker |-> IF exec'[w].pc # "rows" THEN Off
                               ELSE IF At(w, "rows") THEN loop[w] ELSE Start]
  /\ issues' = [w \in Worker |->
                  IF exec'[w].pc \notin {"rows", "refresh", "handoff"} THEN {}
                  ELSE IF At(w, "idle") THEN listed[exec'[w].msg.job]
                  ELSE issues[w]]
  /\ early' = {w \in early : Importing(w)'}
  /\ UNCHANGED <<listed, made, raced>>

RowsNext ==
  \/ \E w \in Worker : \/ LookUp(w) \/ RowFails(w) \/ SaveRow(w)
                       \/ CheckLease(w) \/ EndOfFile(w) \/ HandOver(w)
  \/ Elsewhere

RowsSpec == RowsInit /\ [][RowsNext]_allVars
-----------------------------------------------------------------------------
(* Properties.                                                             *)

\* Once an import is handed over to its report phase, every row of its file is
\* in the database or listed as failed in the results the job has committed,
\* however many executions, cut short or not, it took: no row is left out because
\* another row or another execution was to make its asset.
AllRowsAccounted ==
  \A j \in Imports \ Legacy :
    job[j].payload /\ job[j].status \in {"pending", "running", "done"} =>
      \A i \in DOMAIN File : made[File[i]] > 0 \/ File[i] \in listed[j]

\* Once an import's results are committed no execution imports rows, but for one
\* that was at it already beside the execution that committed them; and only a
\* second message of the same task, a repeated delivery or a retry whose
\* original came back, can have started it.
NoImportAfterPayload ==
  \A w \in Worker :
    /\ Importing(w)
    /\ RowOf(w).status \in {"pending", "running", "done"} /\ RowOf(w).payload
    => w \in early /\ TaskOf(w) \in misled

\* An asset is made twice only when two executions were about to save it at the
\* same time and no serial number gave the second away: retries, recoveries and
\* repeated deliveries that come later find what is there.
TwiceOnlyAtOnce ==
  \A k \in Keys : made[k] > 1 => k \in raced \ Serial
=============================================================================
