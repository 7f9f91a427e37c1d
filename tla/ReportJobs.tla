----------------------------- MODULE ReportJobs -----------------------------
(***************************************************************************)
(* Asynchronous jobs: reports and asset imports.  API requests create job  *)
(* rows and reserve Celery task ids for them, the broker carries the       *)
(* messages, workers run generate_report_task and run_asset_import_task    *)
(* under a lease kept in the row, a periodic sweep requeues what a lost    *)
(* worker or a lost message left behind, and users cancel imports and      *)
(* delete jobs at any point.                                               *)
(*                                                                         *)
(* Every database transaction, broker call and storage call is one step;   *)
(* the steps of one handler are told apart by the worker's pc, so any      *)
(* other process may run between two of them.                              *)
(***************************************************************************)
EXTENDS JobState, FiniteSets

CONSTANTS
  Job,         \* job rows that may be created
  Imports,     \* those whose report_type is ASSET_IMPORT
  Legacy,      \* those an earlier release may have left: results, no workbook
  Worker,      \* worker processes
  NoJob,
  MaxRetries,  \* REPORT_TASK_MAX_RETRIES, IMPORT_TASK_MAX_RETRIES
  TimeLimit,   \* REPORT_TASK_TIME_LIMIT, IMPORT_TASK_TIME_LIMIT
  SweepLimit,  \* MAINTENANCE_TASK_TIME_LIMIT
  Faults,      \* kinds of failure that may be injected
  MaxFaults,   \* bound on how many are
  Deletable,   \* jobs their users may delete
  Prompt       \* TRUE: time does not pass while a reserved message is on
               \* its way to an idle worker

FaultKinds == {"crash",      \* a process dies between two of its steps
               "timeout",    \* a task runs into its hard time limit
               "transient",  \* an infrastructure error is raised
               "fatal",      \* any other exception is raised
               "broker",     \* publishing a message fails
               "storage",    \* a storage call takes effect but raises, or fails
               "redeliver",  \* a message is delivered while it is executed
               "commit"}     \* a commit succeeds but reports an error

ASSUME ReportJobsAssumption ==
  /\ Imports \subseteq Job /\ Legacy \subseteq Imports
  /\ Deletable \subseteq Job
  /\ NoJob \notin Job
  /\ MaxRetries \in Nat /\ TimeLimit \in Nat /\ SweepLimit \in Nat
  /\ Faults \subseteq FaultKinds /\ MaxFaults \in Nat
  /\ Prompt \in BOOLEAN
  /\ "view" \notin Worker /\ "sweep" \notin Worker

\* core/checks.py refuses to deploy settings that break this.
ASSUME TimingAssumption ==
  /\ TimeLimit < StaleAfter
  /\ AgeCap >= StaleAfter + SweepLimit
  /\ AgeCap >= DispatchGrace + SweepLimit

VARIABLES
  job,       \* [Job -> Row]
  queue,     \* messages the broker holds
  exec,      \* what each worker process is doing
  enq,       \* the enqueue_report_job call each caller is in
  sweep,     \* the running recovery sweep
  store,     \* report objects in storage, per job, by task part of the key
  upload,    \* imports whose source file is in storage
  cancelling,\* cancel requests between their UPDATE and their clean-up
  deleting,  \* deletions between their object and their row
  faults,    \* failures still to be injected
  misled     \* tasks the broker or the database misled (history): a second
             \* message was let loose, or a commit was reported as failed

vars == <<job, queue, exec, enq, sweep, store, upload, cancelling, deleting,
          faults, misled>>

Caller == Worker \union {"view", "sweep"}

Kind == {"report", "import"}

Message == [job: Job, task: Task, kind: Kind, retries: 0..MaxRetries,
            redelivered: BOOLEAN]

NoMessage == [job |-> NoJob, task |-> NoTask, kind |-> "report",
              retries |-> 0, redelivered |-> FALSE]

\* Steps at which the task believes it holds the lease.
ReportStep == {"build", "render", "workbook", "save", "finish"}
ImportStep == {"load", "rows", "refresh", "handoff"}
Working == ReportStep \union ImportStep

Step == Working \union
        {"discard",   \* JobLeaseLost: delete the stored object
         "undo",      \* other exception: delete the stored object
         "retry",     \* prepare_job_retry
         "publish",   \* self.retry
         "fail",      \* mark_job_failed
         "drop",      \* delete the import's source file, then return
         "handed",    \* delete the source file, then enqueue the report
         "enqueue",   \* inside enqueue_report_job
         "retried",   \* the retry is published, its own message is not
                      \* acknowledged yet
         "ack"}       \* returned or raised, message not acknowledged yet

Execution == [pc        : Step,
              msg       : Message,
              stored    : BOOLEAN,        \* stored_file_name is set
              transient : BOOLEAN,        \* is_transient_task_error
              age       : 0..TimeLimit]   \* time since the delivery

Started(m, pc) == [pc |-> pc, msg |-> m, stored |-> FALSE,
                   transient |-> FALSE, age |-> 0]
Idle == Started(NoMessage, "idle")

Call == [job: Job, task: Task \union {NoTask}, kind: Kind]
NoCall == [job |-> NoJob, task |-> NoTask, kind |-> "report"]
CallFor(j) == [NoCall EXCEPT !.job = j]

Sweep == [todo: SUBSET Job, drop: Job \union {NoJob}, since: 0..SweepLimit]
NoSweep == [todo |-> {}, drop |-> NoJob, since |-> 0]

InSweep == sweep.todo # {} \/ sweep.drop # NoJob \/ enq["sweep"] # NoCall

TypeOK ==
  /\ job \in [Job -> Row]
  /\ queue \subseteq Message
  /\ exec \in [Worker -> Execution \union {Idle}]
  /\ enq \in [Caller -> Call \union {NoCall}]
  /\ sweep \in Sweep
  /\ store \in [Job -> SUBSET Task]
  /\ upload \subseteq Job
  /\ cancelling \subseteq Job
  /\ deleting \in [Job -> {"no", "user", "retention"}]
  /\ faults \in 0..MaxFaults
  /\ misled \subseteq Task

-----------------------------------------------------------------------------
NewRow(j) == [import |-> j \in Imports, status |-> "absent", owner |-> NoTask,
              attempts |-> 0, hb |-> Never, created |-> 0,
              payload |-> FALSE, file |-> NoTask]

LegacyRow(j) == [NewRow(j) EXCEPT !.status = "done", !.payload = TRUE,
                                  !.created = AgeCap]

Init ==
  /\ \E old \in SUBSET Legacy :
       job = [j \in Job |-> IF j \in old THEN LegacyRow(j) ELSE NewRow(j)]
  /\ queue = {}
  /\ exec = [w \in Worker |-> Idle]
  /\ enq = [c \in Caller |-> NoCall]
  /\ sweep = NoSweep
  /\ store = [j \in Job |-> {}]
  /\ upload = {}
  /\ cancelling = {}
  /\ deleting = [j \in Job |-> "no"]
  /\ faults = MaxFaults
  /\ misled = {}

Fault(kind) ==
  /\ kind \in Faults
  /\ faults > 0
  /\ faults' = faults - 1

BugIdsReused == {job[j].file : j \in Job}
\* Task ids are fresh uuids: not the id of anything the system still holds.
InUse ==
  {job[j].owner : j \in Job} \union {job[j].file : j \in Job}
  \union {m.task : m \in queue} \union {exec[w].msg.task : w \in Worker}
  \union {enq[c].task : c \in Caller} \union UNION {store[j] : j \in Job}
  \union misled

Goto(w, pc) == exec' = [exec EXCEPT ![w].pc = pc]

-----------------------------------------------------------------------------
(* API requests.                                                           *)

\* AssetImportCreateView.post and the report request views: the source file
\* is stored, the row is created, enqueue_report_job is called.
CreateJob(j) ==
  /\ job[j].status = "absent"
  /\ enq["view"] = NoCall
  /\ job' = [job EXCEPT ![j].status = "pending"]
  /\ upload' = IF j \in Imports THEN upload \union {j} ELSE upload
  /\ enq' = [enq EXCEPT !["view"] = CallFor(j)]
  /\ UNCHANGED <<queue, exec, sweep, store, cancelling, deleting, faults, misled>>

\* AssetImportCancelView.post: the conditional UPDATE ...
CancelImport(j) ==
  /\ j \in Imports
  /\ job[j].status \in {"pending", "running"}
  /\ job' = [job EXCEPT ![j] = Cancelled(@)]
  /\ cancelling' = cancelling \union {j}
  /\ UNCHANGED <<queue, exec, enq, sweep, store, upload, deleting, faults, misled>>

\* ... then the revocation, which is best effort and only discards messages
\* that have not started, and the deletion of the source file.
CancelCleanup(j) ==
  /\ j \in cancelling
  /\ cancelling' = cancelling \ {j}
  /\ upload' = upload \ {j}
  /\ \E revoked \in SUBSET {m \in queue : m.job = j} : queue' = queue \ revoked
  /\ UNCHANGED <<job, exec, enq, sweep, store, deleting, faults, misled>>

\* perform_destroy: the object named by the row as it was read is deleted ...
DestroyObject(j) ==
  /\ j \in Deletable
  /\ Exists(job[j])
  /\ deleting[j] = "no"
  /\ store' = [store EXCEPT ![j] = @ \ {job[j].file}]
  /\ deleting' = [deleting EXCEPT ![j] = "user"]
  /\ UNCHANGED <<job, queue, exec, enq, sweep, upload, cancelling, faults, misled>>

\* delete_old_reports does the same to finished jobs past their retention, and
\* also deletes an import's source file ...
RetireObject(j) ==
  /\ j \in Deletable
  /\ job[j].status \in {"done", "failed", "cancelled"}
  /\ deleting[j] = "no"
  /\ store' = [store EXCEPT ![j] = @ \ {job[j].file}]
  /\ upload' = upload \ {j}
  /\ deleting' = [deleting EXCEPT ![j] = "retention"]
  /\ UNCHANGED <<job, queue, exec, enq, sweep, cancelling, faults, misled>>

\* ... then the row: always for the user, only if still finished for retention.
DeleteRow(j) ==
  /\ deleting[j] # "no"
  /\ job' = IF deleting[j] = "user"
               \/ job[j].status \in {"done", "failed", "cancelled"}
            THEN [job EXCEPT ![j] = [NewRow(j) EXCEPT !.status = "deleted"]]
            ELSE job
  /\ deleting' = [deleting EXCEPT ![j] = "no"]
  /\ UNCHANGED <<queue, exec, enq, sweep, store, upload, cancelling, faults, misled>>

-----------------------------------------------------------------------------
(* enqueue_report_job, called by a request, a worker or the sweep.         *)

\* The call returns to its caller; for a worker it is the task's last step.
Return(c) ==
  /\ enq' = [enq EXCEPT ![c] = NoCall]
  /\ IF c \in Worker THEN Goto(c, "ack") ELSE exec' = exec

Calling(c) == enq[c].job # NoJob

\* The locked transaction that reserves a task id.
Reserve(c) ==
  LET j == enq[c].job IN
  /\ Calling(c) /\ enq[c].task = NoTask
  /\ MayReserve(job[j])
  /\ \E t \in Task \ InUse :
       /\ job' = [job EXCEPT ![j] = ReservedRow(@, t)]
       /\ enq' = [enq EXCEPT ![c].task = t, ![c].kind = TaskFor(job[j])]
  /\ UNCHANGED <<queue, exec, sweep, store, upload, cancelling, deleting,
                 faults, misled>>

\* It refuses: the job is finished, running or already reserved.
ReserveRefused(c) ==
  LET j == enq[c].job IN
  /\ Calling(c) /\ enq[c].task = NoTask
  /\ Exists(job[j]) /\ ~MayReserve(job[j])
  /\ Return(c)
  /\ UNCHANGED <<job, queue, sweep, store, upload, cancelling, deleting,
                 faults, misled>>

\* The row was deleted: DoesNotExist.  A request fails; the import task marks
\* its job failed, which matches no row, and raises; the sweep is aborted.
ReserveMissing(c) ==
  LET j == enq[c].job IN
  /\ Calling(c) /\ enq[c].task = NoTask
  /\ ~Exists(job[j])
  /\ Return(c)
  /\ sweep' = IF c = "sweep" THEN NoSweep ELSE sweep
  /\ UNCHANGED <<job, queue, store, upload, cancelling, deleting, faults, misled>>

MessageOf(call) == [job |-> call.job, task |-> call.task, kind |-> call.kind,
                    retries |-> 0, redelivered |-> FALSE]

\* apply_async succeeds.
Send(c) ==
  /\ enq[c].task # NoTask
  /\ queue' = queue \union {MessageOf(enq[c])}
  /\ Return(c)
  /\ UNCHANGED <<job, sweep, store, upload, cancelling, deleting, faults, misled>>

\* apply_async raises, whether or not the broker has the message: the
\* reservation is undone.
SendFails(c) ==
  /\ enq[c].task # NoTask
  /\ Fault("broker")
  /\ \E sent \in BOOLEAN :
       queue' = IF sent THEN queue \union {MessageOf(enq[c])} ELSE queue
  /\ job' = [job EXCEPT ![enq[c].job] = ReservationUndone(@, enq[c].task)]
  /\ Return(c)
  /\ UNCHANGED <<sweep, store, upload, cancelling, deleting, misled>>

-----------------------------------------------------------------------------
(* The broker and the workers.                                             *)

BugAlwaysLoads(m, r) == IF m.kind = "report" THEN "build" ELSE "load"
Starts(m, r) ==
  IF m.kind = "report" THEN "build" ELSE IF r.payload THEN "handoff" ELSE "load"

Begin(w, m, pc) == exec' = [exec EXCEPT ![w] = Started(m, pc)]

DropsUpload(m, row) ==
  m.kind = "import" /\ row.status \in {"cancelled", "failed"}

\* A message is delivered and its task claims the job; a refused task is over.
Deliver(w, m) ==
  LET r == job[m.job]
      reason == ClaimReason(r, m.task, m.redelivered)
      row == ClaimedRow(r, m.task, m.redelivered)
  IN
  /\ exec[w].pc = "idle"
  /\ m \in queue
  /\ queue' = queue \ {m}
  /\ IF Exists(r)
     THEN /\ job' = [job EXCEPT ![m.job] = row]
          /\ Begin(w, m, IF IsClaim(reason) THEN Starts(m, r)
                         ELSE IF DropsUpload(m, row) THEN "drop" ELSE "ack")
     ELSE Begin(w, m, "ack") /\ UNCHANGED job
  /\ UNCHANGED <<enq, sweep, store, upload, cancelling, deleting, faults, misled>>

\* The claim itself fails on an infrastructure error: nothing is written, and
\* the message is published again while retries are left.
DeliverFails(w, m) ==
  /\ exec[w].pc = "idle"
  /\ m \in queue
  /\ Fault("transient")
  /\ queue' = queue \ {m}
  /\ Begin(w, m, IF m.retries < MaxRetries THEN "publish" ELSE "ack")
  /\ UNCHANGED <<job, enq, sweep, store, upload, cancelling, deleting, misled>>

\* The task has returned or raised; only its acknowledgement is to come.
Finished(w) == exec[w].pc \in {"retried", "ack"}

\* The message is acknowledged (acks_late) and the process is free again.
Ack(w) ==
  /\ Finished(w)
  /\ exec' = [exec EXCEPT ![w] = Idle]
  /\ UNCHANGED <<job, queue, enq, sweep, store, upload, cancelling, deleting,
                 faults, misled>>

Again(m) == [m EXCEPT !.redelivered = TRUE]

\* The worker process is lost before it acknowledged: its message goes back to
\* the broker, marked redelivered (reject_on_worker_lost), beside the retry if
\* one was published.
Crash(w) ==
  /\ exec[w].pc # "idle"
  /\ Fault("crash")
  /\ queue' = queue \union {Again(exec[w].msg)}
  /\ exec' = [exec EXCEPT ![w] = Idle]
  /\ enq' = [enq EXCEPT ![w] = NoCall]
  /\ misled' = IF exec[w].pc = "retried" THEN misled \union {exec[w].msg.task}
               ELSE misled
  /\ UNCHANGED <<job, sweep, store, upload, cancelling, deleting>>

\* The hard time limit kills the task; Celery acknowledges the message.
HardLimit(w) ==
  /\ exec[w].pc # "idle"
  /\ exec[w].age = TimeLimit
  /\ Fault("timeout")
  /\ exec' = [exec EXCEPT ![w] = Idle]
  /\ enq' = [enq EXCEPT ![w] = NoCall]
  /\ UNCHANGED <<job, queue, sweep, store, upload, cancelling, deleting, misled>>

\* The broker delivers a message again although its execution is alive.
Redeliver(w) ==
  /\ exec[w].pc # "idle"
  /\ Fault("redeliver")
  /\ queue' = queue \union {Again(exec[w].msg)}
  /\ misled' = misled \union {exec[w].msg.task}
  /\ UNCHANGED <<job, exec, enq, sweep, store, upload, cancelling, deleting>>

\* The process of a request or of the sweep is lost, the sweep's also when it
\* runs into its own time limit.
CallerCrash(c) ==
  /\ c \notin Worker
  /\ Fault("crash")
  /\ enq[c] # NoCall \/ (c = "sweep" /\ InSweep)
  /\ enq' = [enq EXCEPT ![c] = NoCall]
  /\ sweep' = IF c = "sweep" THEN NoSweep ELSE sweep
  /\ UNCHANGED <<job, queue, exec, store, upload, cancelling, deleting, misled>>

-----------------------------------------------------------------------------
(* generate_report_task.                                                   *)

At(w, pc) == exec[w].pc = pc
RowOf(w) == job[exec[w].msg.job]
TaskOf(w) == exec[w].msg.task
HasLease(w) == Owns(RowOf(w), TaskOf(w))

End(w) == Goto(w, "ack")

\* Once the stored object is dealt with, a transient error is retried while
\* retries are left; anything else fails the job.
Settle(w, transient) ==
  IF transient /\ exec[w].msg.retries < MaxRetries THEN "retry" ELSE "fail"

BugPublishedUnsaved ==
  [build |-> "render", render |-> "workbook", workbook |-> "finish"]
AfterLease == [build |-> "render", render |-> "workbook", workbook |-> "save"]

\* A phase ends with require_job_lease, which also refreshes the heartbeat;
\* JobLeaseLost before anything is stored ends the task.
Phase(w) ==
  /\ exec[w].pc \in DOMAIN AfterLease
  /\ job' = [job EXCEPT ![exec[w].msg.job] = Touched(@, TaskOf(w))]
  /\ IF HasLease(w) THEN Goto(w, AfterLease[exec[w].pc]) ELSE End(w)
  /\ UNCHANGED <<queue, enq, sweep, store, upload, cancelling, deleting,
                 faults, misled>>

\* save_report: an object of the same key is replaced.
SaveObject(w) ==
  /\ At(w, "save")
  /\ store' = [store EXCEPT ![exec[w].msg.job] = @ \union {TaskOf(w)}]
  /\ exec' = [exec EXCEPT ![w].pc = "finish", ![w].stored = TRUE]
  /\ UNCHANGED <<job, queue, enq, sweep, upload, cancelling, deleting, faults, misled>>

\* The object is written but save_report raises: the task does not know that
\* it left an object behind.
SaveUnacknowledged(w) ==
  /\ At(w, "save")
  /\ Fault("storage")
  /\ store' = [store EXCEPT ![exec[w].msg.job] = @ \union {TaskOf(w)}]
  /\ exec' = [exec EXCEPT ![w].pc = Settle(w, TRUE)]
  /\ UNCHANGED <<job, queue, enq, sweep, upload, cancelling, deleting, misled>>

\* The final locked transaction.  A lost lease leads to the deletion of the
\* stored object, a deleted row to an exception.
Finish(w) ==
  /\ At(w, "finish")
  /\ IF HasLease(w)
     THEN /\ job' = [job EXCEPT ![exec[w].msg.job] = Completed(@, TaskOf(w))]
          /\ End(w)
     ELSE /\ Goto(w, IF Exists(RowOf(w)) THEN "discard" ELSE "undo")
          /\ UNCHANGED job
  /\ UNCHANGED <<queue, enq, sweep, store, upload, cancelling, deleting,
                 faults, misled>>

\* The same transaction commits, but the client sees an error.
FinishUnacknowledged(w) ==
  /\ At(w, "finish") /\ HasLease(w)
  /\ Fault("commit")
  /\ job' = [job EXCEPT ![exec[w].msg.job] = Completed(@, TaskOf(w))]
  /\ exec' = [exec EXCEPT ![w].pc = "undo", ![w].transient = TRUE]
  /\ misled' = misled \union {TaskOf(w)}
  /\ UNCHANGED <<queue, enq, sweep, store, upload, cancelling, deleting>>

AfterDelete(w) ==
  IF At(w, "discard") THEN End(w) ELSE Goto(w, Settle(w, exec[w].transient))

DeleteObject(w) ==
  /\ exec[w].pc \in {"discard", "undo"}
  /\ store' = [store EXCEPT ![exec[w].msg.job] = @ \ {TaskOf(w)}]
  /\ AfterDelete(w)
  /\ UNCHANGED <<job, queue, enq, sweep, upload, cancelling, deleting, faults, misled>>

\* A failing clean-up is logged and otherwise ignored.
DeleteObjectFails(w) ==
  /\ exec[w].pc \in {"discard", "undo"}
  /\ Fault("storage")
  /\ AfterDelete(w)
  /\ UNCHANGED <<job, queue, enq, sweep, store, upload, cancelling, deleting, misled>>

-----------------------------------------------------------------------------
(* run_asset_import_task.                                                  *)

\* BaseAssetImporter.run: the file is read whole; a missing one is a
\* ValueError, which fails the job.
LoadFile(w) ==
  /\ At(w, "load")
  /\ Goto(w, IF exec[w].msg.job \in upload THEN "rows" ELSE "fail")
  /\ UNCHANGED <<job, queue, enq, sweep, store, upload, cancelling, deleting,
                 faults, misled>>

\* Every tenth row: the heartbeat is refreshed, a cancelled job ends the loop,
\* a lost lease the task, a deleted row raises.
CheckRows(w) ==
  /\ At(w, "rows")
  /\ job' = [job EXCEPT ![exec[w].msg.job] = Touched(@, TaskOf(w))]
  /\ CASE HasLease(w)                      -> exec' = exec
       [] RowOf(w).status = "cancelled"    -> Goto(w, "refresh")
       [] ~Exists(RowOf(w))                -> Goto(w, "fail")
       [] OTHER                            -> End(w)
  /\ UNCHANGED <<queue, enq, sweep, store, upload, cancelling, deleting,
                 faults, misled>>

RowsDone(w) ==
  /\ At(w, "rows")
  /\ Goto(w, "refresh")
  /\ UNCHANGED <<job, queue, enq, sweep, store, upload, cancelling, deleting,
                 faults, misled>>

\* The row is read again after the import.
Refresh(w) ==
  /\ At(w, "refresh")
  /\ Goto(w, CASE RowOf(w).status = "cancelled" -> "drop"
               [] ~Exists(RowOf(w))             -> "fail"
               [] OTHER                         -> "handoff")
  /\ UNCHANGED <<job, queue, enq, sweep, store, upload, cancelling, deleting,
                 faults, misled>>

\* prepare_import_report_handoff.
Handoff(w) ==
  /\ At(w, "handoff")
  /\ IF HasLease(w)
     THEN /\ job' = [job EXCEPT ![exec[w].msg.job] = HandedOff(@)]
          /\ Goto(w, "handed")
     ELSE End(w) /\ UNCHANGED job
  /\ UNCHANGED <<queue, enq, sweep, store, upload, cancelling, deleting,
                 faults, misled>>

\* cleanup_job_upload, then enqueue_report_job or the end of the task.
DropUpload(w) ==
  /\ exec[w].pc \in {"handed", "drop"}
  /\ upload' = upload \ {exec[w].msg.job}
  /\ IF At(w, "handed")
     THEN /\ Goto(w, "enqueue")
          /\ enq' = [enq EXCEPT ![w] = CallFor(exec[w].msg.job)]
     ELSE End(w) /\ UNCHANGED enq
  /\ UNCHANGED <<job, queue, sweep, store, cancelling, deleting, faults, misled>>

-----------------------------------------------------------------------------
(* Errors, in either task.                                                 *)

BugObjectForgotten(w, transient) ==
  /\ exec[w].pc \in Working
  /\ Fault(IF transient THEN "transient" ELSE "fatal")
  /\ exec' = [exec EXCEPT ![w].pc = Settle(w, transient),
                          ![w].transient = transient]
  /\ UNCHANGED <<job, queue, enq, sweep, store, upload, cancelling, deleting, misled>>

\* An exception is raised while the task works.
Raise(w, transient) ==
  /\ exec[w].pc \in Working
  /\ Fault(IF transient THEN "transient" ELSE "fatal")
  /\ exec' = [exec EXCEPT ![w].pc = IF exec[w].stored
                                    THEN "undo" ELSE Settle(w, transient),
                          ![w].transient = transient]
  /\ UNCHANGED <<job, queue, enq, sweep, store, upload, cancelling, deleting, misled>>

\* prepare_job_retry; without the lease the job is marked failed instead.
PrepareRetry(w) ==
  /\ At(w, "retry")
  /\ IF MayRetry(RowOf(w), TaskOf(w))
     THEN /\ job' = [job EXCEPT ![exec[w].msg.job] = RetryPrepared(@)]
          /\ Goto(w, "publish")
     ELSE Goto(w, "fail") /\ UNCHANGED job
  /\ UNCHANGED <<queue, enq, sweep, store, upload, cancelling, deleting,
                 faults, misled>>

\* The database is down: the task retries as if it still owned the lease.
PrepareRetryFails(w) ==
  /\ At(w, "retry")
  /\ Fault("transient")
  /\ Goto(w, "publish")
  /\ UNCHANGED <<job, queue, enq, sweep, store, upload, cancelling, deleting, misled>>

RetryOf(m) == [m EXCEPT !.retries = @ + 1, !.redelivered = FALSE]

\* self.retry publishes the message again under the same task id; its own is
\* acknowledged only after the task has raised Retry.
PublishRetry(w) ==
  /\ At(w, "publish")
  /\ queue' = queue \union {RetryOf(exec[w].msg)}
  /\ Goto(w, "retried")
  /\ UNCHANGED <<job, enq, sweep, store, upload, cancelling, deleting, faults, misled>>

\* The publication raises, whether or not the broker has the retry.
PublishRetryFails(w) ==
  /\ At(w, "publish")
  /\ Fault("broker")
  /\ \/ queue' = queue \union {RetryOf(exec[w].msg)} /\ Goto(w, "retried")
     \/ queue' = queue /\ End(w)
  /\ UNCHANGED <<job, enq, sweep, store, upload, cancelling, deleting, misled>>

\* mark_job_failed; an import that was really failed drops its source file.
MarkFailed(w) ==
  LET m == exec[w].msg IN
  /\ At(w, "fail")
  /\ job' = [job EXCEPT ![m.job] = MarkedFailed(@, m.task, m.kind)]
  /\ IF HasLease(w) /\ m.kind = "import" THEN Goto(w, "drop") ELSE End(w)
  /\ UNCHANGED <<queue, enq, sweep, store, upload, cancelling, deleting,
                 faults, misled>>

\* The database is down: the exception leaves the row as it is.
MarkFailedFails(w) ==
  /\ At(w, "fail")
  /\ Fault("transient")
  /\ End(w)
  /\ UNCHANGED <<job, queue, enq, sweep, store, upload, cancelling, deleting, misled>>

-----------------------------------------------------------------------------
(* recover_stale_report_jobs.  One sweep runs at a time.                   *)

SweepStart ==
  /\ ~InSweep
  /\ LET todo == {j \in Job : Exists(job[j]) /\ Recoverable(job[j], 0)} IN
       /\ todo # {}
       /\ sweep' = [NoSweep EXCEPT !.todo = todo]
  /\ UNCHANGED <<job, queue, exec, enq, store, upload, cancelling, deleting,
                 faults, misled>>

\* One candidate, locked and judged again.
SweepJob(j) ==
  LET r == job[j] IN
  /\ j \in sweep.todo
  /\ sweep.drop = NoJob /\ enq["sweep"] = NoCall
  /\ IF ~Exists(r)
     THEN /\ sweep' = NoSweep
          /\ UNCHANGED <<job, enq>>
     ELSE IF ~Recoverable(r, sweep.since)
     THEN /\ sweep' = [sweep EXCEPT !.todo = @ \ {j}]
          /\ UNCHANGED <<job, enq>>
     ELSE /\ job' = [job EXCEPT ![j] = RecoveredRow(@)]
          /\ IF RecoveredRow(r).status = "failed"
             THEN /\ sweep' = [sweep EXCEPT !.todo = @ \ {j}, !.drop = j]
                  /\ UNCHANGED enq
             ELSE /\ sweep' = [sweep EXCEPT !.todo = @ \ {j}]
                  /\ enq' = [enq EXCEPT !["sweep"] = CallFor(j)]
  /\ UNCHANGED <<queue, exec, store, upload, cancelling, deleting, faults, misled>>

\* _cleanup_abandoned_import.
SweepDrop ==
  /\ sweep.drop # NoJob
  /\ upload' = upload \ {sweep.drop}
  /\ sweep' = [sweep EXCEPT !.drop = NoJob]
  /\ UNCHANGED <<job, queue, exec, enq, store, cancelling, deleting, faults, misled>>

\* Time passes: no task and no sweep outlives its limit, and under Prompt no
\* message waits for a worker that is idle.  An acknowledgement that is due, or
\* the loss of its worker, comes first: either would do the same afterwards.
Tick ==
  /\ \A w \in Worker : ~At(w, "idle") => ~Finished(w) /\ exec[w].age < TimeLimit
  /\ InSweep => sweep.since < SweepLimit
  /\ Prompt => /\ \A c \in Caller : enq[c].task = NoTask
               /\ queue = {} \/ \A w \in Worker : ~At(w, "idle")
  /\ job' = [j \in Job |-> IF Exists(job[j]) THEN Aged(job[j]) ELSE job[j]]
  /\ exec' = [w \in Worker |-> IF At(w, "idle") THEN exec[w]
                               ELSE [exec[w] EXCEPT !.age = @ + 1]]
  /\ sweep' = IF InSweep THEN [sweep EXCEPT !.since = @ + 1] ELSE sweep
  /\ UNCHANGED <<queue, enq, store, upload, cancelling, deleting, faults, misled>>

-----------------------------------------------------------------------------
Request(j) ==
  \/ CreateJob(j) \/ CancelImport(j) \/ CancelCleanup(j)
  \/ DestroyObject(j) \/ RetireObject(j) \/ DeleteRow(j)

Enqueue(c) ==
  Reserve(c) \/ ReserveRefused(c) \/ ReserveMissing(c) \/ Send(c)

\* The steps of a task that no failure disturbs.
TaskStep(w) ==
  \/ Phase(w) \/ SaveObject(w) \/ Finish(w) \/ DeleteObject(w)
  \/ LoadFile(w) \/ CheckRows(w) \/ RowsDone(w) \/ Refresh(w) \/ Handoff(w)
  \/ DropUpload(w)
  \/ PrepareRetry(w) \/ PublishRetry(w) \/ MarkFailed(w) \/ Ack(w)

Outage(w) ==
  \/ Crash(w) \/ HardLimit(w) \/ Redeliver(w) \/ FinishUnacknowledged(w)
  \/ SaveUnacknowledged(w) \/ DeleteObjectFails(w) \/ Raise(w, TRUE)
  \/ PrepareRetryFails(w) \/ PublishRetryFails(w) \/ MarkFailedFails(w)

Failure(w) == Outage(w) \/ Raise(w, FALSE)

Recovery == SweepStart \/ (\E j \in Job : SweepJob(j)) \/ SweepDrop

Next ==
  \/ \E j \in Job : Request(j)
  \/ \E c \in Caller : Enqueue(c) \/ SendFails(c) \/ CallerCrash(c)
  \/ \E w \in Worker, m \in queue : Deliver(w, m) \/ DeliverFails(w, m)
  \/ \E w \in Worker : TaskStep(w) \/ Failure(w)
  \/ Recovery
  \/ Tick

Spec == Init /\ [][Next]_vars

\* Celery hands waiting messages to idle workers, handlers run on, Beat starts
\* the sweep again and again, clocks advance.  Users and failures owe nothing.
Fairness ==
  /\ \A j \in Job : WF_vars(CancelCleanup(j)) /\ WF_vars(DeleteRow(j))
  /\ \A c \in Caller : WF_vars(Enqueue(c))
  /\ \A w \in Worker :
       /\ WF_vars(\E m \in queue : Deliver(w, m))
       /\ WF_vars(TaskStep(w))
  /\ WF_vars(SweepStart) /\ WF_vars(SweepDrop)
  /\ \A j \in Job : WF_vars(SweepJob(j))
  /\ WF_vars(Tick)

FairSpec == Spec /\ Fairness

-----------------------------------------------------------------------------
(* Properties.                                                             *)

\* At most one live execution works on a job under a valid lease: a second one
\* takes a second message of one task, a repeated delivery or a retry whose
\* original came back because the worker was lost before it acknowledged
\* (claim_job; settings/celery.py promises it without that exception).
LeaseExclusive ==
  \A v, w \in Worker :
    /\ exec[v].pc \in Working /\ exec[w].pc \in Working
    /\ exec[v].msg.job = exec[w].msg.job
    /\ HasLease(v) /\ HasLease(w)
    => v = w \/ TaskOf(w) \in misled

\* A lease is never taken from an execution that is still allowed to run: as
\* long as a task works, its job is its own unless a user cancelled or deleted
\* it, or a second message of the task itself went round.  Claims, sweeps,
\* retries and handoffs of other deliveries all threaten this.
WorkingOwnsLease ==
  \A w \in Worker : exec[w].pc \in Working =>
    \/ HasLease(w)
    \/ RowOf(w).status \in {"cancelled", "deleted"}
    \/ TaskOf(w) \in misled

\* A finished job's workbook is in storage until a deletion is under way; the
\* clean-ups of stale, retried and failed executions must spare it, unless they
\* are of the very task that published it and it ran twice, or its commit was
\* reported as failed.
DoneFileStored ==
  \A j \in Job :
    job[j].status = "done" /\ job[j].file # NoTask /\ deleting[j] = "no"
    => job[j].file \in store[j] \union misled

\* A source file is kept while an execution of the import may still need it.
UploadKept ==
  \A j \in Imports :
    job[j].status \in {"pending", "running"} /\ ~job[j].payload /\ deleting[j] = "no"
    => j \in upload

\* A failed or cancelled job, and a job whose workbook is published.
Terminal(r) ==
  r.status \in {"failed", "cancelled", "deleted"}
  \/ (r.status = "done" /\ r.file # NoTask)

\* Every created job is eventually settled, whatever was lost on the way.
JobSettles ==
  \A j \in Job : Exists(job[j]) ~> Terminal(job[j])

\* Every object in storage belongs to a finished job or to an execution that
\* will still publish, replace or delete it.
NoOrphanObject ==
  \A j \in Job : \A t \in store[j] :
    \/ job[j].file = t
    \/ job[j].owner = t
    \/ \E w \in Worker :
         TaskOf(w) = t /\ exec[w].pc \notin {"idle", "retried", "ack"}

-----------------------------------------------------------------------------
(* What users see of a job: ReportJobs implements JobLifecycle.            *)

PhaseOf(r) ==
  IF r.status \in {"absent", "deleted", "failed", "cancelled"} THEN r.status
  ELSE IF r.status = "done" /\ r.file # NoTask THEN "published"
  ELSE IF r.import /\ ~r.payload THEN "importing"
  ELSE "reporting"

phaseOf == [j \in Job |-> PhaseOf(job[j])]
leavingOf == {j \in Job : deleting[j] # "no"}
workbookOf == {j \in Job : job[j].status = "done" /\ job[j].file \in store[j]}
exposedOf == {j \in Job : job[j].file \in misled}

Lifecycle == INSTANCE JobLifecycle
  WITH phase <- phaseOf, leaving <- leavingOf, workbook <- workbookOf,
       exposed <- exposedOf

\* Through claims, retries, crashes, sweeps and deletions, a job only moves
\* through the phases of JobLifecycle, in their order: no settled job is taken
\* up again, no import returns to importing after its rows were committed, no
\* workbook is published before them, and one that disappears while it is
\* published was exposed by a task that was misled.
ImplementsLifecycle == Lifecycle!Spec
=============================================================================
