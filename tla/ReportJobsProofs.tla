-------------------------- MODULE ReportJobsProofs --------------------------
(***************************************************************************)
(* Theorems of ReportJobs and ImportRows, for every number of jobs,        *)
(* workers, task ids, attempts, retries, rows and failures.                *)
(*                                                                         *)
(* First the types and the lease: a second execution of a job, or a lease  *)
(* lost by a task at work, needs a task that was misled.  Then what a job's*)
(* row and its files say together: ReportJobs implements JobLifecycle, a   *)
(* published workbook and the source file of an import stay in storage, and*)
(* no object is left behind where nothing is deleted and nobody dies.  Last*)
(* the rows of an import: ImportRows takes only steps of ReportJobs, makes *)
(* an asset twice only in a race, accounts for every row and imports none  *)
(* once the results are committed, but in an execution that was at it.     *)
(***************************************************************************)
EXTENDS ImportRows, TLAPS

-----------------------------------------------------------------------------
(* Every update of a row yields a row.                                     *)

LEMMA Counters ==
  /\ 0 \in Age /\ AgeCap \in Age /\ 0 \in Attempt
  /\ Never \notin Age
  /\ \A a \in Age : Older(a) \in Age
  /\ Older(Never) = Never
  /\ \A n \in Attempt : n < MaxAttempts => n + 1 \in Attempt
BY JobStateAssumption DEF Age, Attempt, Older, Never

LEMMA RowUpdates ==
  ASSUME NEW r \in Row
  PROVE  /\ Failed(r) \in Row
         /\ HandedOff(r) \in Row
         /\ Cancelled(r) \in Row
         /\ RecoveredRow(r) \in Row
         /\ r.attempts < MaxAttempts => RetryPrepared(r) \in Row
         /\ Aged(r) \in Row
         /\ r.status = "absent" => [r EXCEPT !.status = "pending"] \in Row
<1>1. Failed(r) \in Row
  BY Counters DEF Row, Status, Failed
<1>2. HandedOff(r) \in Row
  BY Counters DEF Row, Status, HandedOff
<1>3. Cancelled(r) \in Row
  BY Counters DEF Row, Status, Cancelled
<1>4. RecoveredRow(r) \in Row
  BY <1>1, Counters DEF Row, Status, RecoveredRow
<1>5. r.attempts < MaxAttempts => RetryPrepared(r) \in Row
  BY Counters DEF Row, RetryPrepared
<1>6. Aged(r) \in Row
  BY Counters DEF Aged, Row
<1>7. r.status = "absent" => [r EXCEPT !.status = "pending"] \in Row
  BY DEF Row, Status
<1> QED
  BY <1>1, <1>2, <1>3, <1>4, <1>5, <1>6, <1>7

LEMMA OwnedRowUpdates ==
  ASSUME NEW r \in Row, NEW t \in Task
  PROVE  /\ Touched(r, t) \in Row
         /\ Completed(r, t) \in Row
         /\ ReservedRow(r, t) \in Row
         /\ ReservationUndone(r, t) \in Row
         /\ \A kind : MarkedFailed(r, t, kind) \in Row
<1>1. Touched(r, t) \in Row
  BY Counters DEF Row, Status, Touched
<1>2. Completed(r, t) \in Row
  BY Counters DEF Row, Status, Completed
<1>3. ReservedRow(r, t) \in Row
  BY Counters DEF Row, Status, ReservedRow
<1>4. ReservationUndone(r, t) \in Row
  BY Counters DEF Row, Status, ReservationUndone
<1>5. \A kind : MarkedFailed(r, t, kind) \in Row
  BY RowUpdates DEF Row, MarkedFailed
<1> QED
  BY <1>1, <1>2, <1>3, <1>4, <1>5

LEMMA ClaimedRowType ==
  ASSUME NEW r \in Row, NEW t \in Task, NEW again \in BOOLEAN
  PROVE  ClaimedRow(r, t, again) \in Row
<1>1. CASE ClaimReason(r, t, again) = "claimed"
  <2>1. r.attempts < MaxAttempts
    BY <1>1, JobStateAssumption DEF ClaimReason, Row, Attempt
  <2> QED
    BY <1>1, <2>1, Counters DEF ClaimedRow, Row, Status
<1>2. CASE ClaimReason(r, t, again) = "redelivery"
  <2>1. again => r.attempts < MaxAttempts
    BY <1>2, JobStateAssumption DEF ClaimReason, Row, Attempt
  <2> QED
    BY <1>2, <2>1, Counters DEF ClaimedRow, Row, Status
<1>3. CASE ClaimReason(r, t, again) = "attempts_exhausted"
  BY <1>3, RowUpdates DEF ClaimedRow
<1>4. CASE ClaimReason(r, t, again)
             \notin {"claimed", "redelivery", "attempts_exhausted"}
  BY <1>4 DEF ClaimedRow
<1> QED
  BY <1>1, <1>2, <1>3, <1>4

LEMMA NewRowType ==
  ASSUME NEW j \in Job
  PROVE  /\ NewRow(j) \in Row
         /\ LegacyRow(j) \in Row
         /\ [NewRow(j) EXCEPT !.status = "deleted"] \in Row
<1>1. NewRow(j) \in Row
  <2>1. CASE j \in Imports
    BY <2>1, Counters DEF NewRow, Row, Status
  <2>2. CASE j \notin Imports
    BY <2>2, Counters DEF NewRow, Row, Status
  <2> QED
    BY <2>1, <2>2
<1>2. LegacyRow(j) \in Row
  BY <1>1, Counters DEF LegacyRow, Row, Status
<1>3. [NewRow(j) EXCEPT !.status = "deleted"] \in Row
  BY <1>1 DEF Row, Status
<1> QED
  BY <1>1, <1>2, <1>3

-----------------------------------------------------------------------------
(* Type correctness, in three parts that most actions change one at a time.*)
(* A task that is about to retry has a retry left.                         *)

JobOK == job \in [Job -> Row]

ExecOK ==
  /\ exec \in [Worker -> Execution \union {Idle}]
  /\ \A w \in Worker :
       exec[w].pc \in {"retry", "publish"} => exec[w].msg.retries < MaxRetries

RestOK ==
  /\ queue \subseteq Message
  /\ enq \in [Caller -> Call \union {NoCall}]
  /\ sweep \in Sweep
  /\ store \in [Job -> SUBSET Task]
  /\ upload \subseteq Job
  /\ cancelling \subseteq Job
  /\ deleting \in [Job -> {"no", "user", "retention"}]
  /\ faults \in 0..MaxFaults
  /\ misled \subseteq Task

\* A worker calls enqueue_report_job from one step of its task only.
CallsOK == \A w \in Worker : enq[w] # NoCall => exec[w].pc = "enqueue"

TypeInv == JobOK /\ ExecOK /\ RestOK /\ CallsOK

LEMMA Busy ==
  ASSUME ExecOK, NEW w \in Worker, exec[w].pc # "idle"
  PROVE  /\ exec[w] \in Execution
         /\ exec[w].msg \in Message
         /\ exec[w].msg.job \in Job
         /\ exec[w].msg.task \in Task
         /\ exec[w].msg.retries \in 0..MaxRetries
         /\ exec[w].pc \in Step
<1>1. exec[w] \in Execution
  BY DEF ExecOK, Idle, Started
<1>2. exec[w].msg \in Message /\ exec[w].pc \in Step
  BY <1>1 DEF Execution
<1> QED
  BY <1>1, <1>2 DEF Message

LEMMA JobStep ==
  ASSUME JobOK, NEW j \in Job, NEW r \in Row, job' = [job EXCEPT ![j] = r]
  PROVE  JobOK'
BY DEF JobOK

\* A task moves to another step ...
LEMMA MoveStep ==
  ASSUME ExecOK, NEW w \in Worker, exec[w].pc # "idle", NEW p \in Step,
         p \in {"retry", "publish"} => exec[w].msg.retries < MaxRetries,
         NEW b \in BOOLEAN,
         \/ exec' = [exec EXCEPT ![w].pc = p]
         \/ exec' = [exec EXCEPT ![w].pc = p, ![w].transient = b]
         \/ exec' = [exec EXCEPT ![w].pc = p, ![w].stored = b]
  PROVE  ExecOK'
<1>1. exec[w] \in Execution
  BY Busy
<1>2. exec' \in [Worker -> Execution \union {Idle}]
  BY <1>1 DEF ExecOK, Execution
<1>3. ASSUME NEW v \in Worker, exec'[v].pc \in {"retry", "publish"}
      PROVE  exec'[v].msg.retries < MaxRetries
  <2>1. CASE v = w
    BY <1>1, <1>3, <2>1 DEF ExecOK, Execution
  <2>2. CASE v # w
    BY <1>3, <2>2 DEF ExecOK
  <2> QED
    BY <2>1, <2>2
<1> QED
  BY <1>2, <1>3 DEF ExecOK

\* ... is acknowledged or lost ...
LEMMA EndStep ==
  ASSUME ExecOK, NEW w \in Worker, exec' = [exec EXCEPT ![w] = Idle]
  PROVE  ExecOK'
BY DEF ExecOK, Idle, Started

\* ... or starts.
LEMMA StartStep ==
  ASSUME ExecOK, NEW w \in Worker, NEW m \in Message, NEW p \in Step,
         p \in {"retry", "publish"} => m.retries < MaxRetries,
         Begin(w, m, p)
  PROVE  ExecOK'
<1>1. Started(m, p) \in Execution
  BY ReportJobsAssumption DEF Started, Execution
<1>2. exec' \in [Worker -> Execution \union {Idle}]
  BY <1>1 DEF ExecOK, Begin
<1>3. ASSUME NEW v \in Worker, exec'[v].pc \in {"retry", "publish"}
      PROVE  exec'[v].msg.retries < MaxRetries
  BY <1>3 DEF ExecOK, Started, Begin
<1> QED
  BY <1>2, <1>3 DEF ExecOK

LEMMA RetryMessage ==
  ASSUME NEW m \in Message, m.retries < MaxRetries
  PROVE  RetryOf(m) \in Message
<1>1. \A n \in 0..MaxRetries :
        [m EXCEPT !.retries = n, !.redelivered = FALSE] \in Message
  BY DEF Message
<1>2. m.retries + 1 \in 0..MaxRetries
  BY ReportJobsAssumption DEF Message
<1>3. RetryOf(m) = [m EXCEPT !.retries = m.retries + 1, !.redelivered = FALSE]
  BY DEF RetryOf
<1> QED
  BY <1>1, <1>2, <1>3

LEMMA AgainMessage ==
  ASSUME NEW m \in Message
  PROVE  Again(m) \in Message
BY DEF Again, Message

LEMMA InCall ==
  ASSUME RestOK, NEW c \in Caller, Calling(c) \/ enq[c].task # NoTask
  PROVE  /\ enq[c] \in Call
         /\ enq[c].job \in Job
         /\ enq[c].task \in Task \union {NoTask}
<1>1. enq[c] \in Call
  BY DEF RestOK, NoCall, Calling
<1> QED
  BY <1>1 DEF Call

LEMMA Sent ==
  ASSUME RestOK, NEW c \in Caller, enq[c].task # NoTask
  PROVE  MessageOf(enq[c]) \in Message
<1>1. enq[c] \in Call
  BY InCall
<1> QED
  BY <1>1, ReportJobsAssumption DEF MessageOf, Message, Call

LEMMA NoCallType ==
  ASSUME NEW j \in Job
  PROVE  CallFor(j) \in Call
BY DEF CallFor, NoCall, Call, Kind

LEMMA SweepType ==
  /\ NoSweep \in Sweep
  /\ \A todo \in SUBSET Job : [NoSweep EXCEPT !.todo = todo] \in Sweep
  /\ \A s \in Sweep : /\ [s EXCEPT !.drop = NoJob] \in Sweep
                     /\ \A todo \in SUBSET Job :
                          /\ [s EXCEPT !.todo = todo] \in Sweep
                          /\ \A j \in Job :
                               [s EXCEPT !.todo = todo, !.drop = j] \in Sweep
<1>1. NoSweep \in Sweep
  BY ReportJobsAssumption DEF NoSweep, Sweep
<1> QED
  BY <1>1 DEF Sweep

LEMMA FaultStep ==
  ASSUME RestOK, NEW kind, Fault(kind)
  PROVE  faults' \in 0..MaxFaults
BY ReportJobsAssumption DEF RestOK, Fault

LEMMA InitTypeInv == Init => TypeInv
<1> SUFFICES ASSUME Init PROVE TypeInv
  OBVIOUS
<1>1. JobOK
  BY NewRowType DEF Init, JobOK
<1>2. NoSweep \in Sweep
  BY SweepType
<1>3. RestOK
  BY <1>2, ReportJobsAssumption DEF Init, RestOK
<1>4. ExecOK
  BY DEF Init, ExecOK, Idle, Started
<1>5. CallsOK
  BY DEF Init, CallsOK, Caller
<1> QED
  BY <1>1, <1>3, <1>4, <1>5 DEF TypeInv

\* A call of enqueue_report_job returns.
LEMMA ReturnStep ==
  ASSUME ExecOK, CallsOK, NEW c \in Caller, Return(c),
         Calling(c) \/ enq[c].task # NoTask
  PROVE  ExecOK'
<1>1. CASE c \in Worker
  <2>1. exec[c].pc = "enqueue"
    BY <1>1 DEF CallsOK, Calling, NoCall
  <2> QED
    BY <1>1, <2>1, MoveStep DEF Return, Goto, Step
<1>2. CASE c \notin Worker
  BY <1>2 DEF Return, ExecOK
<1> QED
  BY <1>1, <1>2

LEMMA NextCallsOK ==
  ASSUME TypeInv, CallsOK, [Next]_vars
  PROVE  CallsOK'
<1>1. ASSUME NEW j \in Job, CreateJob(j)
      PROVE  CallsOK'
  BY <1>1, ReportJobsAssumption DEF CreateJob, CallsOK, TypeInv, RestOK, Caller
<1>2. ASSUME NEW j \in Job, CancelImport(j)
      PROVE  CallsOK'
  BY <1>2 DEF CancelImport, CallsOK
<1>3. ASSUME NEW j \in Job, CancelCleanup(j)
      PROVE  CallsOK'
  BY <1>3 DEF CancelCleanup, CallsOK
<1>4. ASSUME NEW j \in Job, DestroyObject(j)
      PROVE  CallsOK'
  BY <1>4 DEF DestroyObject, CallsOK
<1>5. ASSUME NEW j \in Job, RetireObject(j)
      PROVE  CallsOK'
  BY <1>5 DEF RetireObject, CallsOK
<1>6. ASSUME NEW j \in Job, DeleteRow(j)
      PROVE  CallsOK'
  BY <1>6 DEF DeleteRow, CallsOK
<1>7. ASSUME NEW c \in Caller, Reserve(c)
      PROVE  CallsOK'
  <2>1. /\ exec' = exec /\ enq[c] # NoCall
        /\ \A d \in Caller : d # c => enq'[d] = enq[d]
    BY <1>7 DEF Reserve, Calling, NoCall, TypeInv, RestOK
  <2> QED
    BY <2>1 DEF CallsOK, Caller
<1>8. ASSUME NEW c \in Caller, ReserveRefused(c)
      PROVE  CallsOK'
  BY <1>8 DEF ReserveRefused, Return, Goto, CallsOK, TypeInv, ExecOK, RestOK
<1>9. ASSUME NEW c \in Caller, ReserveMissing(c)
      PROVE  CallsOK'
  BY <1>9 DEF ReserveMissing, Return, Goto, CallsOK, TypeInv, ExecOK, RestOK
<1>10. ASSUME NEW c \in Caller, Send(c)
       PROVE  CallsOK'
  BY <1>10 DEF Send, Return, Goto, CallsOK, TypeInv, ExecOK, RestOK
<1>11. ASSUME NEW c \in Caller, SendFails(c)
       PROVE  CallsOK'
  BY <1>11 DEF SendFails, Return, Goto, CallsOK, TypeInv, ExecOK, RestOK
<1>12. ASSUME NEW c \in Caller, CallerCrash(c)
       PROVE  CallsOK'
  BY <1>12 DEF CallerCrash, CallsOK, TypeInv, RestOK
<1>13. ASSUME NEW w \in Worker, NEW m \in queue, Deliver(w, m)
       PROVE  CallsOK'
  BY <1>13 DEF Deliver, Begin, Started, CallsOK, TypeInv, ExecOK
<1>14. ASSUME NEW w \in Worker, NEW m \in queue, DeliverFails(w, m)
       PROVE  CallsOK'
  BY <1>14 DEF DeliverFails, Begin, Started, CallsOK, TypeInv, ExecOK
<1>15. ASSUME NEW w \in Worker, Crash(w)
       PROVE  CallsOK'
  BY <1>15 DEF Crash, CallsOK, TypeInv, ExecOK, RestOK, Caller
<1>16. ASSUME NEW w \in Worker, HardLimit(w)
       PROVE  CallsOK'
  BY <1>16 DEF HardLimit, CallsOK, TypeInv, ExecOK, RestOK, Caller
<1>17. ASSUME NEW w \in Worker, Redeliver(w)
       PROVE  CallsOK'
  BY <1>17 DEF Redeliver, CallsOK
<1>18. ASSUME NEW w \in Worker, Phase(w)
       PROVE  CallsOK'
  BY <1>18 DEF Phase, At, Goto, End, CallsOK, TypeInv, ExecOK, AfterLease
<1>19. ASSUME NEW w \in Worker, SaveObject(w)
       PROVE  CallsOK'
  BY <1>19 DEF SaveObject, At, Goto, End, CallsOK, TypeInv, ExecOK
<1>20. ASSUME NEW w \in Worker, SaveUnacknowledged(w)
       PROVE  CallsOK'
  BY <1>20 DEF SaveUnacknowledged, At, Goto, End, CallsOK, TypeInv, ExecOK
<1>21. ASSUME NEW w \in Worker, Finish(w)
       PROVE  CallsOK'
  BY <1>21 DEF Finish, At, Goto, End, CallsOK, TypeInv, ExecOK
<1>22. ASSUME NEW w \in Worker, FinishUnacknowledged(w)
       PROVE  CallsOK'
  BY <1>22 DEF FinishUnacknowledged, At, Goto, End, CallsOK, TypeInv, ExecOK
<1>23. ASSUME NEW w \in Worker, DeleteObject(w)
       PROVE  CallsOK'
  BY <1>23 DEF DeleteObject, At, Goto, End, CallsOK, TypeInv, ExecOK, AfterDelete
<1>24. ASSUME NEW w \in Worker, DeleteObjectFails(w)
       PROVE  CallsOK'
  BY <1>24 DEF DeleteObjectFails, At, Goto, End, CallsOK, TypeInv, ExecOK, AfterDelete
<1>25. ASSUME NEW w \in Worker, LoadFile(w)
       PROVE  CallsOK'
  BY <1>25 DEF LoadFile, At, Goto, End, CallsOK, TypeInv, ExecOK
<1>26. ASSUME NEW w \in Worker, RowsDone(w)
       PROVE  CallsOK'
  BY <1>26 DEF RowsDone, At, Goto, End, CallsOK, TypeInv, ExecOK
<1>27. ASSUME NEW w \in Worker, Refresh(w)
       PROVE  CallsOK'
  BY <1>27 DEF Refresh, At, Goto, End, CallsOK, TypeInv, ExecOK
<1>28. ASSUME NEW w \in Worker, CheckRows(w)
       PROVE  CallsOK'
  BY <1>28 DEF CheckRows, At, Goto, End, CallsOK, TypeInv, ExecOK
<1>29. ASSUME NEW w \in Worker, Handoff(w)
       PROVE  CallsOK'
  BY <1>29 DEF Handoff, At, Goto, End, CallsOK, TypeInv, ExecOK
<1>30. ASSUME NEW w \in Worker, DropUpload(w)
       PROVE  CallsOK'
  <2>1. exec[w] \in Execution
    BY <1>30, Busy DEF DropUpload, TypeInv
  <2> QED
    BY <1>30, <2>1
       DEF DropUpload, At, Goto, End, CallsOK, TypeInv, ExecOK, RestOK,
           Execution, Caller
<1>31. ASSUME NEW w \in Worker, PrepareRetry(w)
       PROVE  CallsOK'
  BY <1>31 DEF PrepareRetry, At, Goto, End, CallsOK, TypeInv, ExecOK
<1>32. ASSUME NEW w \in Worker, PrepareRetryFails(w)
       PROVE  CallsOK'
  BY <1>32 DEF PrepareRetryFails, At, Goto, End, CallsOK, TypeInv, ExecOK
<1>33. ASSUME NEW w \in Worker, PublishRetry(w)
       PROVE  CallsOK'
  BY <1>33 DEF PublishRetry, At, Goto, End, CallsOK, TypeInv, ExecOK
<1>34. ASSUME NEW w \in Worker, PublishRetryFails(w)
       PROVE  CallsOK'
  BY <1>34 DEF PublishRetryFails, At, Goto, End, CallsOK, TypeInv, ExecOK
<1>35. ASSUME NEW w \in Worker, MarkFailed(w)
       PROVE  CallsOK'
  BY <1>35 DEF MarkFailed, At, Goto, End, CallsOK, TypeInv, ExecOK
<1>36. ASSUME NEW w \in Worker, MarkFailedFails(w)
       PROVE  CallsOK'
  BY <1>36 DEF MarkFailedFails, At, Goto, End, CallsOK, TypeInv, ExecOK
<1>37. ASSUME NEW w \in Worker, NEW b \in BOOLEAN, Raise(w, b)
       PROVE  CallsOK'
  BY <1>37 DEF Raise, At, Goto, End, CallsOK, TypeInv, ExecOK, Working, ReportStep, ImportStep
<1>38. ASSUME SweepStart
       PROVE  CallsOK'
  BY <1>38 DEF SweepStart, CallsOK
<1>39. ASSUME NEW j \in Job, SweepJob(j)
       PROVE  CallsOK'
  BY <1>39, ReportJobsAssumption DEF SweepJob, CallsOK, TypeInv, RestOK, Caller
<1>40. ASSUME SweepDrop
       PROVE  CallsOK'
  BY <1>40 DEF SweepDrop, CallsOK
<1>41. ASSUME Tick
       PROVE  CallsOK'
  <2>1. \A v \in Worker : \/ exec'[v] = exec[v]
                          \/ exec'[v] = [exec[v] EXCEPT !.age = @ + 1]
    BY <1>41 DEF Tick
  <2>2. \A v \in Worker : exec'[v].pc = exec[v].pc
    <3>1. \A v \in Worker : exec[v] \in Execution \/ exec[v] = Idle
      BY DEF TypeInv, ExecOK
    <3> QED
      BY <2>1, <3>1 DEF Execution, Idle, Started
  <2> QED
    BY <1>41, <2>2 DEF Tick, CallsOK
<1>42. ASSUME UNCHANGED vars
       PROVE  CallsOK'
  BY <1>42 DEF vars, CallsOK
<1>43. ASSUME NEW w \in Worker, Ack(w)
       PROVE  CallsOK'
  BY <1>43 DEF Ack, Finished, CallsOK, TypeInv, ExecOK
<1> QED
  BY <1>1, <1>2, <1>3, <1>4, <1>5, <1>6, <1>7, <1>8, <1>9, <1>10, <1>11,
     <1>12, <1>13, <1>14, <1>15, <1>16, <1>17, <1>18, <1>19, <1>20, <1>21,
     <1>22, <1>23, <1>24, <1>25, <1>26, <1>27, <1>28, <1>29, <1>30, <1>31,
     <1>32, <1>33, <1>34, <1>35, <1>36, <1>37, <1>38, <1>39, <1>40, <1>41,
     <1>42, <1>43
     DEF Next, Request, Enqueue, TaskStep, Outage, Failure, Recovery

LEMMA NextTypeInv == TypeInv /\ [Next]_vars => TypeInv'
<1> SUFFICES ASSUME TypeInv, [Next]_vars PROVE TypeInv'
  OBVIOUS
<1> USE DEF TypeInv
<1>0. CallsOK'
  BY NextCallsOK
<1>1. ASSUME NEW j \in Job, CreateJob(j)
      PROVE  TypeInv'
  <2>1. JobOK'
    BY <1>1, JobStep, RowUpdates DEF CreateJob, JobOK
  <2>2. ExecOK'
    BY <1>1 DEF CreateJob, ExecOK
  <2>3. RestOK'
    BY <1>1, NoCallType DEF CreateJob, RestOK, Caller
  <2> QED
    BY <1>0, <2>1, <2>2, <2>3
<1>2. ASSUME NEW j \in Job, CancelImport(j)
      PROVE  TypeInv'
  <2>1. JobOK'
    BY <1>2, JobStep, RowUpdates DEF CancelImport, JobOK
  <2>2. ExecOK'
    BY <1>2 DEF CancelImport, ExecOK
  <2>3. RestOK'
    BY <1>2 DEF CancelImport, RestOK
  <2> QED
    BY <1>0, <2>1, <2>2, <2>3
<1>3. ASSUME NEW j \in Job, CancelCleanup(j)
      PROVE  TypeInv'
  <2>1. JobOK'
    BY <1>3 DEF CancelCleanup, JobOK
  <2>2. ExecOK'
    BY <1>3 DEF CancelCleanup, ExecOK
  <2>3. RestOK'
    BY <1>3 DEF CancelCleanup, RestOK
  <2> QED
    BY <1>0, <2>1, <2>2, <2>3
<1>4. ASSUME NEW j \in Job, DestroyObject(j)
      PROVE  TypeInv'
  <2>1. JobOK'
    BY <1>4 DEF DestroyObject, JobOK
  <2>2. ExecOK'
    BY <1>4 DEF DestroyObject, ExecOK
  <2>3. RestOK'
    BY <1>4 DEF DestroyObject, RestOK
  <2> QED
    BY <1>0, <2>1, <2>2, <2>3
<1>5. ASSUME NEW j \in Job, RetireObject(j)
      PROVE  TypeInv'
  <2>1. JobOK'
    BY <1>5 DEF RetireObject, JobOK
  <2>2. ExecOK'
    BY <1>5 DEF RetireObject, ExecOK
  <2>3. RestOK'
    BY <1>5 DEF RetireObject, RestOK
  <2> QED
    BY <1>0, <2>1, <2>2, <2>3
<1>6. ASSUME NEW j \in Job, DeleteRow(j)
      PROVE  TypeInv'
  <2>1. JobOK'
    BY <1>6, NewRowType DEF DeleteRow, JobOK
  <2>2. ExecOK'
    BY <1>6 DEF DeleteRow, ExecOK
  <2>3. RestOK'
    BY <1>6 DEF DeleteRow, RestOK
  <2> QED
    BY <1>0, <2>1, <2>2, <2>3
<1>7. ASSUME NEW c \in Caller, Reserve(c)
      PROVE  TypeInv'
  <2>1. JobOK'
    BY <1>7, InCall, JobStep, OwnedRowUpdates DEF Reserve, JobOK
  <2>2. ExecOK'
    BY <1>7 DEF Reserve, ExecOK
  <2>3. RestOK'
    <3>1. enq[c] \in Call
      BY <1>7, InCall DEF Reserve
    <3>2. TaskFor(job[enq[c].job]) \in Kind
      BY DEF TaskFor, Kind
    <3>3. PICK t \in Task :
            enq' = [enq EXCEPT ![c].task = t,
                               ![c].kind = TaskFor(job[enq[c].job])]
      BY <1>7 DEF Reserve
    <3>4. enq' \in [Caller -> Call \union {NoCall}]
      BY <3>1, <3>2, <3>3 DEF RestOK, Call
    <3> QED
      BY <1>7, <3>4 DEF Reserve, RestOK
  <2> QED
    BY <1>0, <2>1, <2>2, <2>3
<1>8. ASSUME NEW c \in Caller, ReserveRefused(c)
      PROVE  TypeInv'
  <2>1. JobOK'
    BY <1>8 DEF ReserveRefused, JobOK
  <2>2. ExecOK'
    BY <1>8, ReturnStep DEF ReserveRefused
  <2>3. RestOK'
    BY <1>8 DEF ReserveRefused, RestOK, Return
  <2> QED
    BY <1>0, <2>1, <2>2, <2>3
<1>9. ASSUME NEW c \in Caller, ReserveMissing(c)
      PROVE  TypeInv'
  <2>1. JobOK'
    BY <1>9 DEF ReserveMissing, JobOK
  <2>2. ExecOK'
    BY <1>9, ReturnStep DEF ReserveMissing
  <2>3. RestOK'
    BY <1>9, SweepType DEF ReserveMissing, RestOK, Return
  <2> QED
    BY <1>0, <2>1, <2>2, <2>3
<1>10. ASSUME NEW c \in Caller, Send(c)
       PROVE  TypeInv'
  <2>1. JobOK'
    BY <1>10 DEF Send, JobOK
  <2>2. ExecOK'
    BY <1>10, ReturnStep DEF Send
  <2>3. RestOK'
    BY <1>10, Sent DEF Send, RestOK, Return
  <2> QED
    BY <1>0, <2>1, <2>2, <2>3
<1>11. ASSUME NEW c \in Caller, SendFails(c)
       PROVE  TypeInv'
  <2>1. JobOK'
    BY <1>11, InCall, JobStep, OwnedRowUpdates DEF SendFails, JobOK
  <2>2. ExecOK'
    BY <1>11, ReturnStep DEF SendFails
  <2>3. RestOK'
    BY <1>11, Sent, FaultStep DEF SendFails, RestOK, Return
  <2> QED
    BY <1>0, <2>1, <2>2, <2>3
<1>12. ASSUME NEW c \in Caller, CallerCrash(c)
       PROVE  TypeInv'
  <2>1. JobOK'
    BY <1>12 DEF CallerCrash, JobOK
  <2>2. ExecOK'
    BY <1>12 DEF CallerCrash, ExecOK
  <2>3. RestOK'
    BY <1>12, SweepType, FaultStep DEF CallerCrash, RestOK
  <2> QED
    BY <1>0, <2>1, <2>2, <2>3
<1>13. ASSUME NEW w \in Worker, NEW m \in queue, Deliver(w, m)
       PROVE  TypeInv'
  <2>1. JobOK'
    BY <1>13, JobStep, ClaimedRowType DEF Deliver, JobOK, RestOK, Message
  <2>2. ExecOK'
    BY <1>13, StartStep
       DEF Deliver, ExecOK, RestOK, Starts, Step, Working, ReportStep,
           ImportStep
  <2>3. RestOK'
    BY <1>13 DEF Deliver, RestOK
  <2> QED
    BY <1>0, <2>1, <2>2, <2>3
<1>14. ASSUME NEW w \in Worker, NEW m \in queue, DeliverFails(w, m)
       PROVE  TypeInv'
  <2>1. JobOK'
    BY <1>14 DEF DeliverFails, JobOK
  <2>2. ExecOK'
    BY <1>14, StartStep, FaultStep
       DEF DeliverFails, ExecOK, RestOK, Step, Working, ReportStep,
           ImportStep
  <2>3. RestOK'
    BY <1>14, FaultStep DEF DeliverFails, RestOK
  <2> QED
    BY <1>0, <2>1, <2>2, <2>3
<1>15. ASSUME NEW w \in Worker, Crash(w)
       PROVE  TypeInv'
  <2>1. JobOK'
    BY <1>15 DEF Crash, JobOK
  <2>2. ExecOK'
    BY <1>15, EndStep DEF Crash, ExecOK
  <2>3. RestOK'
    BY <1>15, Busy, FaultStep, AgainMessage DEF Crash, RestOK, Caller
  <2> QED
    BY <1>0, <2>1, <2>2, <2>3
<1>16. ASSUME NEW w \in Worker, HardLimit(w)
       PROVE  TypeInv'
  <2>1. JobOK'
    BY <1>16 DEF HardLimit, JobOK
  <2>2. ExecOK'
    BY <1>16, EndStep DEF HardLimit, ExecOK
  <2>3. RestOK'
    BY <1>16, FaultStep DEF HardLimit, RestOK, Caller
  <2> QED
    BY <1>0, <2>1, <2>2, <2>3
<1>17. ASSUME NEW w \in Worker, Redeliver(w)
       PROVE  TypeInv'
  <2>1. JobOK'
    BY <1>17 DEF Redeliver, JobOK
  <2>2. ExecOK'
    BY <1>17 DEF Redeliver, ExecOK
  <2>3. RestOK'
    BY <1>17, Busy, FaultStep, AgainMessage DEF Redeliver, RestOK
  <2> QED
    BY <1>0, <2>1, <2>2, <2>3
<1>18. ASSUME NEW w \in Worker, Phase(w)
       PROVE  TypeInv'
  <2>1. JobOK'
    BY <1>18, Busy, JobStep, OwnedRowUpdates
       DEF Phase, JobOK, At, Goto, End, TaskOf, HasLease, RowOf,
           AfterLease
  <2>2. ExecOK'
    <3>1. exec[w].pc \in {"build", "render", "workbook"}
      BY <1>18 DEF Phase, AfterLease
    <3>2. AfterLease[exec[w].pc] \in {"render", "workbook", "save"}
      BY <3>1 DEF AfterLease
    <3>3. AfterLease[exec[w].pc] \in Step
      BY <3>2 DEF Step, Working, ReportStep
    <3> QED
      BY <1>18, <3>1, <3>2, <3>3, MoveStep DEF Phase, Goto, End, Step
  <2>3. RestOK'
    BY <1>18 DEF Phase, RestOK
  <2> QED
    BY <1>0, <2>1, <2>2, <2>3
<1>19. ASSUME NEW w \in Worker, SaveObject(w)
       PROVE  TypeInv'
  <2>1. JobOK'
    BY <1>19 DEF SaveObject, JobOK
  <2>2. ExecOK'
    BY <1>19, MoveStep
       DEF SaveObject, At, Goto, End, TaskOf, HasLease, RowOf, Step,
           Working, ReportStep, ImportStep
  <2>3. RestOK'
    BY <1>19, Busy DEF SaveObject, RestOK, At, TaskOf
  <2> QED
    BY <1>0, <2>1, <2>2, <2>3
<1>20. ASSUME NEW w \in Worker, SaveUnacknowledged(w)
       PROVE  TypeInv'
  <2>1. JobOK'
    BY <1>20 DEF SaveUnacknowledged, JobOK
  <2>2. ExecOK'
    BY <1>20, MoveStep
       DEF SaveUnacknowledged, At, Goto, End, TaskOf, HasLease, RowOf,
           Step, Working, ReportStep, ImportStep, Settle
  <2>3. RestOK'
    BY <1>20, Busy, FaultStep DEF SaveUnacknowledged, RestOK, At, TaskOf
  <2> QED
    BY <1>0, <2>1, <2>2, <2>3
<1>21. ASSUME NEW w \in Worker, Finish(w)
       PROVE  TypeInv'
  <2>1. JobOK'
    BY <1>21, Busy, JobStep, OwnedRowUpdates
       DEF Finish, JobOK, At, Goto, End, TaskOf, HasLease, RowOf
  <2>2. ExecOK'
    BY <1>21, MoveStep
       DEF Finish, At, Goto, End, TaskOf, HasLease, RowOf, Step,
           Working, ReportStep, ImportStep
  <2>3. RestOK'
    BY <1>21 DEF Finish, RestOK
  <2> QED
    BY <1>0, <2>1, <2>2, <2>3
<1>22. ASSUME NEW w \in Worker, FinishUnacknowledged(w)
       PROVE  TypeInv'
  <2>1. JobOK'
    BY <1>22, Busy, JobStep, OwnedRowUpdates
       DEF FinishUnacknowledged, JobOK, At, Goto, End, TaskOf,
           HasLease, RowOf
  <2>2. ExecOK'
    BY <1>22, MoveStep
       DEF FinishUnacknowledged, At, Goto, End, TaskOf, HasLease,
           RowOf, Step, Working, ReportStep, ImportStep
  <2>3. RestOK'
    BY <1>22, Busy, FaultStep
       DEF FinishUnacknowledged, RestOK, At, TaskOf
  <2> QED
    BY <1>0, <2>1, <2>2, <2>3
<1>23. ASSUME NEW w \in Worker, DeleteObject(w)
       PROVE  TypeInv'
  <2>1. JobOK'
    BY <1>23 DEF DeleteObject, JobOK
  <2>2. ExecOK'
    BY <1>23, Busy, MoveStep
       DEF DeleteObject, At, Goto, End, TaskOf, HasLease, RowOf, Step,
           Working, ReportStep, ImportStep, AfterDelete, Settle
  <2>3. RestOK'
    BY <1>23, Busy DEF DeleteObject, RestOK, At, TaskOf
  <2> QED
    BY <1>0, <2>1, <2>2, <2>3
<1>24. ASSUME NEW w \in Worker, DeleteObjectFails(w)
       PROVE  TypeInv'
  <2>1. JobOK'
    BY <1>24 DEF DeleteObjectFails, JobOK
  <2>2. ExecOK'
    BY <1>24, Busy, MoveStep
       DEF DeleteObjectFails, At, Goto, End, TaskOf, HasLease, RowOf,
           Step, Working, ReportStep, ImportStep, AfterDelete, Settle
  <2>3. RestOK'
    BY <1>24, FaultStep DEF DeleteObjectFails, RestOK
  <2> QED
    BY <1>0, <2>1, <2>2, <2>3
<1>25. ASSUME NEW w \in Worker, LoadFile(w)
       PROVE  TypeInv'
  <2>1. JobOK'
    BY <1>25 DEF LoadFile, JobOK
  <2>2. ExecOK'
    BY <1>25, MoveStep
       DEF LoadFile, At, Goto, End, TaskOf, HasLease, RowOf, Step,
           Working, ReportStep, ImportStep
  <2>3. RestOK'
    BY <1>25 DEF LoadFile, RestOK
  <2> QED
    BY <1>0, <2>1, <2>2, <2>3
<1>26. ASSUME NEW w \in Worker, RowsDone(w)
       PROVE  TypeInv'
  <2>1. JobOK'
    BY <1>26 DEF RowsDone, JobOK
  <2>2. ExecOK'
    BY <1>26, MoveStep
       DEF RowsDone, At, Goto, End, TaskOf, HasLease, RowOf, Step,
           Working, ReportStep, ImportStep
  <2>3. RestOK'
    BY <1>26 DEF RowsDone, RestOK
  <2> QED
    BY <1>0, <2>1, <2>2, <2>3
<1>27. ASSUME NEW w \in Worker, Refresh(w)
       PROVE  TypeInv'
  <2>1. JobOK'
    BY <1>27 DEF Refresh, JobOK
  <2>2. ExecOK'
    BY <1>27, MoveStep
       DEF Refresh, At, Goto, End, TaskOf, HasLease, RowOf, Step,
           Working, ReportStep, ImportStep
  <2>3. RestOK'
    BY <1>27 DEF Refresh, RestOK
  <2> QED
    BY <1>0, <2>1, <2>2, <2>3
<1>28. ASSUME NEW w \in Worker, CheckRows(w)
       PROVE  TypeInv'
  <2>1. JobOK'
    BY <1>28, Busy, JobStep, OwnedRowUpdates
       DEF CheckRows, JobOK, At, Goto, End, TaskOf, HasLease, RowOf
  <2>2. ExecOK'
    BY <1>28, MoveStep
       DEF CheckRows, ExecOK, At, Goto, End, TaskOf, HasLease, RowOf,
           Step, Working, ReportStep, ImportStep
  <2>3. RestOK'
    BY <1>28 DEF CheckRows, RestOK
  <2> QED
    BY <1>0, <2>1, <2>2, <2>3
<1>29. ASSUME NEW w \in Worker, Handoff(w)
       PROVE  TypeInv'
  <2>1. JobOK'
    BY <1>29, Busy, JobStep, RowUpdates
       DEF Handoff, JobOK, At, Goto, End, TaskOf, HasLease, RowOf
  <2>2. ExecOK'
    BY <1>29, MoveStep
       DEF Handoff, At, Goto, End, TaskOf, HasLease, RowOf, Step,
           Working, ReportStep, ImportStep
  <2>3. RestOK'
    BY <1>29 DEF Handoff, RestOK
  <2> QED
    BY <1>0, <2>1, <2>2, <2>3
<1>30. ASSUME NEW w \in Worker, DropUpload(w)
       PROVE  TypeInv'
  <2>1. JobOK'
    BY <1>30 DEF DropUpload, JobOK
  <2>2. ExecOK'
    BY <1>30, MoveStep
       DEF DropUpload, At, Goto, End, TaskOf, HasLease, RowOf, Step,
           Working, ReportStep, ImportStep
  <2>3. RestOK'
    BY <1>30, Busy, NoCallType DEF DropUpload, RestOK, Caller
  <2> QED
    BY <1>0, <2>1, <2>2, <2>3
<1>31. ASSUME NEW w \in Worker, PrepareRetry(w)
       PROVE  TypeInv'
  <2>1. JobOK'
    BY <1>31, Busy, JobStep, RowUpdates
       DEF PrepareRetry, JobOK, MayRetry, At, Goto, End, TaskOf,
           HasLease, RowOf
  <2>2. ExecOK'
    BY <1>31, MoveStep
       DEF PrepareRetry, ExecOK, At, Goto, End, TaskOf, HasLease,
           RowOf, Step, Working, ReportStep, ImportStep
  <2>3. RestOK'
    BY <1>31 DEF PrepareRetry, RestOK
  <2> QED
    BY <1>0, <2>1, <2>2, <2>3
<1>32. ASSUME NEW w \in Worker, PrepareRetryFails(w)
       PROVE  TypeInv'
  <2>1. JobOK'
    BY <1>32 DEF PrepareRetryFails, JobOK
  <2>2. ExecOK'
    BY <1>32, MoveStep
       DEF PrepareRetryFails, ExecOK, At, Goto, End, TaskOf, HasLease,
           RowOf, Step, Working, ReportStep, ImportStep
  <2>3. RestOK'
    BY <1>32, FaultStep DEF PrepareRetryFails, RestOK
  <2> QED
    BY <1>0, <2>1, <2>2, <2>3
<1>33. ASSUME NEW w \in Worker, PublishRetry(w)
       PROVE  TypeInv'
  <2>1. JobOK'
    BY <1>33 DEF PublishRetry, JobOK
  <2>2. ExecOK'
    BY <1>33, MoveStep DEF PublishRetry, At, Goto, Step
  <2>3. RestOK'
    <3>1. exec[w].msg \in Message /\ exec[w].msg.retries < MaxRetries
      BY <1>33, Busy DEF PublishRetry, At, ExecOK
    <3>2. RetryOf(exec[w].msg) \in Message
      BY <3>1, RetryMessage
    <3> QED
      BY <1>33, <3>2 DEF PublishRetry, RestOK
  <2> QED
    BY <1>0, <2>1, <2>2, <2>3
<1>34. ASSUME NEW w \in Worker, PublishRetryFails(w)
       PROVE  TypeInv'
  <2>1. JobOK'
    BY <1>34 DEF PublishRetryFails, JobOK
  <2>2. ExecOK'
    BY <1>34, MoveStep DEF PublishRetryFails, At, Goto, End, Step
  <2>3. RestOK'
    <3>1. exec[w].msg \in Message /\ exec[w].msg.retries < MaxRetries
      BY <1>34, Busy DEF PublishRetryFails, At, ExecOK
    <3>2. RetryOf(exec[w].msg) \in Message
      BY <3>1, RetryMessage
    <3> QED
      BY <1>34, <3>2, FaultStep DEF PublishRetryFails, RestOK
  <2> QED
    BY <1>0, <2>1, <2>2, <2>3
<1>35. ASSUME NEW w \in Worker, MarkFailed(w)
       PROVE  TypeInv'
  <2>1. JobOK'
    BY <1>35, Busy, JobStep, OwnedRowUpdates
       DEF MarkFailed, JobOK, At, Goto, End, TaskOf, HasLease, RowOf
  <2>2. ExecOK'
    BY <1>35, MoveStep
       DEF MarkFailed, At, Goto, End, TaskOf, HasLease, RowOf, Step,
           Working, ReportStep, ImportStep
  <2>3. RestOK'
    BY <1>35 DEF MarkFailed, RestOK
  <2> QED
    BY <1>0, <2>1, <2>2, <2>3
<1>36. ASSUME NEW w \in Worker, MarkFailedFails(w)
       PROVE  TypeInv'
  <2>1. JobOK'
    BY <1>36 DEF MarkFailedFails, JobOK
  <2>2. ExecOK'
    BY <1>36, MoveStep
       DEF MarkFailedFails, At, Goto, End, TaskOf, HasLease, RowOf,
           Step, Working, ReportStep, ImportStep
  <2>3. RestOK'
    BY <1>36, FaultStep DEF MarkFailedFails, RestOK
  <2> QED
    BY <1>0, <2>1, <2>2, <2>3
<1>37. ASSUME NEW w \in Worker, NEW b \in BOOLEAN, Raise(w, b)
       PROVE  TypeInv'
  <2>1. JobOK'
    BY <1>37 DEF Raise, JobOK
  <2>2. ExecOK'
    BY <1>37, MoveStep
       DEF Raise, Settle, Step, Working, ReportStep, ImportStep
  <2>3. RestOK'
    BY <1>37, FaultStep DEF Raise, RestOK
  <2> QED
    BY <1>0, <2>1, <2>2, <2>3
<1>38. ASSUME SweepStart
       PROVE  TypeInv'
  <2>1. JobOK'
    BY <1>38 DEF SweepStart, JobOK
  <2>2. ExecOK'
    BY <1>38 DEF SweepStart, ExecOK
  <2>3. RestOK'
    BY <1>38, SweepType DEF SweepStart, RestOK
  <2> QED
    BY <1>0, <2>1, <2>2, <2>3
<1>39. ASSUME NEW j \in Job, SweepJob(j)
       PROVE  TypeInv'
  <2>1. JobOK'
    BY <1>39, JobStep, RowUpdates DEF SweepJob, JobOK
  <2>2. ExecOK'
    BY <1>39 DEF SweepJob, ExecOK
  <2>3. RestOK'
    <3>1. CASE ~Exists(job[j]) \/ ~Recoverable(job[j], sweep.since)
      <4>1. enq' = enq
        BY <1>39, <3>1 DEF SweepJob
      <4>2. sweep' = NoSweep \/ sweep' = [sweep EXCEPT !.todo = @ \ {j}]
        BY <1>39, <3>1 DEF SweepJob
      <4>3. sweep.todo \ {j} \in SUBSET Job /\ sweep \in Sweep
        BY DEF RestOK, Sweep
      <4>4. sweep' \in Sweep
        BY <4>2, <4>3, SweepType
      <4> QED
        BY <1>39, <4>1, <4>4 DEF SweepJob, RestOK
    <3>2. CASE Exists(job[j]) /\ Recoverable(job[j], sweep.since)
      <4>1. enq' = enq \/ enq' = [enq EXCEPT !["sweep"] = CallFor(j)]
        BY <1>39, <3>2 DEF SweepJob
      <4>2. \/ sweep' = [sweep EXCEPT !.todo = @ \ {j}]
            \/ sweep' = [sweep EXCEPT !.todo = @ \ {j}, !.drop = j]
        BY <1>39, <3>2 DEF SweepJob
      <4>3. sweep.todo \ {j} \in SUBSET Job /\ sweep \in Sweep
        BY DEF RestOK, Sweep
      <4>4. sweep' \in Sweep
        BY <4>2, <4>3, SweepType
      <4>5. enq' \in [Caller -> Call \union {NoCall}]
        BY <4>1, NoCallType DEF RestOK, Caller
      <4> QED
        BY <1>39, <4>4, <4>5 DEF SweepJob, RestOK
    <3> QED
      BY <3>1, <3>2
  <2> QED
    BY <1>0, <2>1, <2>2, <2>3
<1>40. ASSUME SweepDrop
       PROVE  TypeInv'
  <2>1. JobOK'
    BY <1>40 DEF SweepDrop, JobOK
  <2>2. ExecOK'
    BY <1>40 DEF SweepDrop, ExecOK
  <2>3. RestOK'
    BY <1>40, SweepType DEF SweepDrop, RestOK
  <2> QED
    BY <1>0, <2>1, <2>2, <2>3
<1>41. ASSUME Tick
       PROVE  TypeInv'
  <2>1. JobOK'
    BY <1>41, RowUpdates DEF Tick, JobOK
  <2>2. ExecOK'
    BY <1>41, ReportJobsAssumption
       DEF Tick, ExecOK, At, Execution, Idle, Started
  <2>3. RestOK'
    BY <1>41, ReportJobsAssumption DEF Tick, RestOK, Sweep
  <2> QED
    BY <1>0, <2>1, <2>2, <2>3
<1>42. ASSUME UNCHANGED vars
       PROVE  TypeInv'
  <2>1. JobOK'
    BY <1>42 DEF vars, JobOK
  <2>2. ExecOK'
    BY <1>42 DEF vars, ExecOK
  <2>3. RestOK'
    BY <1>42 DEF vars, RestOK
  <2> QED
    BY <1>0, <2>1, <2>2, <2>3
<1>43. ASSUME NEW w \in Worker, Ack(w)
       PROVE  TypeInv'
  <2>1. JobOK'
    BY <1>43 DEF Ack, JobOK
  <2>2. ExecOK'
    BY <1>43, EndStep DEF Ack
  <2>3. RestOK'
    BY <1>43 DEF Ack, RestOK
  <2> QED
    BY <1>0, <2>1, <2>2, <2>3
<1> QED
  BY <1>1, <1>2, <1>3, <1>4, <1>5, <1>6, <1>7, <1>8, <1>9, <1>10, <1>11,
     <1>12, <1>13, <1>14, <1>15, <1>16, <1>17, <1>18, <1>19, <1>20, <1>21,
     <1>22, <1>23, <1>24, <1>25, <1>26, <1>27, <1>28, <1>29, <1>30, <1>31,
     <1>32, <1>33, <1>34, <1>35, <1>36, <1>37, <1>38, <1>39, <1>40, <1>41,
     <1>42, <1>43
     DEF Next, Request, Enqueue, TaskStep, Outage, Failure, Recovery

\* Every variable keeps its type: attempt and retry counters stay within their
\* settings, whatever fails (prepare_job_retry, claim_job).
THEOREM TypeCorrect == Spec => []TypeOK
<1>1. TypeInv => TypeOK
  BY DEF TypeInv, JobOK, ExecOK, RestOK, TypeOK
<1> QED
  BY <1>1, InitTypeInv, NextTypeInv, PTL DEF Spec
-----------------------------------------------------------------------------
(* Task ids.  A task that was not misled is carried by one message, one    *)
(* execution or one call at a time; an execution that has published its    *)
(* retry has handed its task on.                                           *)

Carry(w) == IF At(w, "retried") THEN NoTask ELSE TaskOf(w)

OneCarrier ==
  /\ \A m, n \in queue : m.task = n.task /\ m.task \notin misled => m = n
  /\ \A m \in queue, w \in Worker : m.task \notin misled => m.task # Carry(w)
  /\ \A v, w \in Worker :
       Carry(v) = Carry(w) /\ Carry(v) \notin misled \union {NoTask} => v = w
  /\ \A c \in Caller : enq[c].task # NoTask =>
       /\ \A m \in queue : m.task # enq[c].task
       /\ \A w \in Worker : TaskOf(w) # enq[c].task
       /\ \A d \in Caller : enq[d].task = enq[c].task => d = c

LEMMA QueueTask ==
  ASSUME TypeInv, NEW m \in queue
  PROVE  m \in Message /\ m.task \in Task /\ m.task # NoTask /\ m.job \in Job
BY JobStateAssumption DEF TypeInv, RestOK, Message

LEMMA IdleTask ==
  ASSUME TypeInv, NEW w \in Worker
  PROVE  /\ TaskOf(w) = NoTask <=> exec[w].pc = "idle"
         /\ TaskOf(w) \in Task \union {NoTask}
         /\ Idle.msg.task = NoTask
<1>1. Idle.msg.task = NoTask /\ Idle.pc = "idle"
  BY DEF Idle, Started, NoMessage
<1>2. exec[w] = Idle \/ exec[w] \in Execution
  BY DEF TypeInv, ExecOK
<1>3. exec[w] \in Execution => /\ exec[w].msg.task \in Task
                               /\ exec[w].pc # "idle"
  BY DEF Execution, Message, Step, Working, ReportStep, ImportStep
<1> QED
  BY <1>1, <1>2, <1>3, JobStateAssumption DEF TaskOf

LEMMA GotoTask ==
  ASSUME TypeInv, NEW w \in Worker, exec[w].pc # "idle", NEW p, Goto(w, p)
  PROVE  \A v \in Worker : TaskOf(v)' = TaskOf(v)
<1>1. exec[w] \in Execution
  BY Busy DEF TypeInv
<1> QED
  BY <1>1 DEF Goto, TaskOf, TypeInv, ExecOK, Execution

\* A task keeps its id as it goes on, until it has published its retry.
LEMMA GotoCarry ==
  ASSUME TypeInv, NEW w \in Worker, exec[w].pc \notin {"idle", "retried"},
         NEW p, Goto(w, p)
  PROVE  \A v \in Worker : /\ TaskOf(v)' = TaskOf(v)
                           /\ Carry(v)' \in {Carry(v), NoTask}
<1>1. \A v \in Worker : TaskOf(v)' = TaskOf(v)
  BY GotoTask
<1>2. \A v \in Worker : v # w => exec'[v] = exec[v]
  BY DEF Goto, TypeInv, ExecOK
<1>3. \A v \in Worker : Carry(v)' \in {Carry(v), NoTask}
  BY <1>1, <1>2 DEF Carry, At
<1> QED
  BY <1>1, <1>3

LEMMA SameCarry ==
  ASSUME exec' = exec
  PROVE  \A v \in Worker : TaskOf(v)' = TaskOf(v) /\ Carry(v)' = Carry(v)
BY DEF TaskOf, Carry, At

\* The message of a process that is free again is carried no more.
LEMMA FreeCarry ==
  ASSUME TypeInv, NEW w \in Worker, exec' = [exec EXCEPT ![w] = Idle]
  PROVE  /\ TaskOf(w)' = NoTask /\ Carry(w)' = NoTask
         /\ \A v \in Worker \ {w} :
              TaskOf(v)' = TaskOf(v) /\ Carry(v)' = Carry(v)
<1>1. exec'[w] = Idle /\ \A v \in Worker \ {w} : exec'[v] = exec[v]
  BY DEF TypeInv, ExecOK
<1> QED
  BY <1>1, IdleTask DEF TaskOf, Carry, At

LEMMA ReturnCarry ==
  ASSUME TypeInv, NEW c \in Caller, Return(c),
         Calling(c) \/ enq[c].task # NoTask
  PROVE  /\ \A v \in Worker : /\ TaskOf(v)' = TaskOf(v)
                              /\ Carry(v)' \in {Carry(v), NoTask}
         /\ enq'[c] = NoCall /\ \A d \in Caller \ {c} : enq'[d] = enq[d]
<1>1. enq'[c] = NoCall /\ \A d \in Caller \ {c} : enq'[d] = enq[d]
  BY DEF Return, TypeInv, RestOK
<1>2. CASE c \in Worker
  <2>1. exec[c].pc = "enqueue"
    BY <1>2 DEF TypeInv, CallsOK, Calling, NoCall
  <2> QED
    BY <1>1, <1>2, <2>1, GotoCarry DEF Return
<1>3. CASE c \notin Worker
  BY <1>1, <1>3, SameCarry DEF Return
<1> QED
  BY <1>2, <1>3

\* A step that also sets a flag.
LEMMA SetCarry ==
  ASSUME TypeInv, NEW w \in Worker, exec[w].pc \notin {"idle", "retried"},
         NEW p, NEW b,
         \/ exec' = [exec EXCEPT ![w].pc = p, ![w].transient = b]
         \/ exec' = [exec EXCEPT ![w].pc = p, ![w].stored = b]
  PROVE  \A v \in Worker : /\ TaskOf(v)' = TaskOf(v)
                           /\ Carry(v)' \in {Carry(v), NoTask}
<1>1. exec[w] \in Execution
  BY Busy DEF TypeInv
<1>2. \A v \in Worker : v # w => exec'[v] = exec[v]
  BY DEF TypeInv, ExecOK
<1>3. exec'[w].msg = exec[w].msg
  BY <1>1 DEF Execution, TypeInv, ExecOK
<1> QED
  BY <1>2, <1>3 DEF TaskOf, Carry, At

\* How a step may change what carries task ids: nothing new is carried, ...
CarrierKept ==
  /\ queue' \subseteq queue
  /\ \A w \in Worker : /\ TaskOf(w)' \in {TaskOf(w), NoTask}
                       /\ Carry(w)' \in {Carry(w), NoTask}
  /\ \A c \in Caller : enq'[c] = enq[c] \/ enq'[c].task = NoTask

\* ... a message leaves the queue for an execution, ...
CarrierStarts(m, v, p) ==
  /\ m \in queue
  /\ queue' = queue \ {m}
  /\ exec[v].pc = "idle"
  /\ Begin(v, m, p) /\ p # "retried"
  /\ enq' = enq

\* ... an execution leaves a message of its task behind, as it ends, hands its
\* task on or is misled, ...
CarrierReturns(v, m) ==
  /\ exec[v].pc # "idle"
  /\ m.task = TaskOf(v)
  /\ m.job = exec[v].msg.job /\ m.kind = exec[v].msg.kind
  /\ queue' = queue \union {m}
  /\ \/ exec[v].pc # "retried" /\ Carry(v)' = NoTask
     \/ TaskOf(v) \in misled'
  /\ \A w \in Worker : /\ TaskOf(w)' \in {TaskOf(w), NoTask}
                       /\ Carry(w)' \in {Carry(w), NoTask}
  /\ \A c \in Caller : enq'[c] = enq[c] \/ enq'[c].task = NoTask

\* ... a call hands its task id to a message, ...
CarrierSends(c) ==
  /\ enq[c].task # NoTask
  /\ queue' = queue \union {MessageOf(enq[c])}
  /\ Return(c)

\* ... or takes a fresh one.
CarrierMove ==
  /\ misled \subseteq misled'
  /\ \/ CarrierKept
     \/ \E m \in queue, v \in Worker : \E p : CarrierStarts(m, v, p)
     \/ \E v \in Worker : \E m : CarrierReturns(v, m)
     \/ \E c \in Caller : CarrierSends(c) \/ Reserve(c)

LEMMA NextCarrierMove ==
  ASSUME TypeInv, [Next]_vars
  PROVE  CarrierMove
<1>0. ASSUME NEW w \in Worker, At(w, "publish"), Goto(w, "retried"),
             queue' = queue \union {RetryOf(exec[w].msg)}, enq' = enq
      PROVE  \E m : CarrierReturns(w, m)
  <2> DEFINE again == RetryOf(exec[w].msg)
  <2>1. /\ again.task = TaskOf(w)
        /\ again.job = exec[w].msg.job /\ again.kind = exec[w].msg.kind
    BY <1>0, Busy DEF RetryOf, At, TaskOf, Message, TypeInv
  <2>2. Carry(w)' = NoTask
    BY <1>0, Busy DEF Carry, At, Goto, TypeInv, ExecOK, Execution
  <2> QED
    BY <1>0, <2>1, <2>2, GotoCarry DEF At, CarrierReturns
<1>1. ASSUME NEW j \in Job, CreateJob(j)
      PROVE  CarrierMove
  <2>1. \A v \in Worker : /\ TaskOf(v)' \in {TaskOf(v), NoTask}
                           /\ Carry(v)' \in {Carry(v), NoTask}
    BY <1>1, SameCarry DEF CreateJob
  <2>2. \A d \in Caller : enq'[d] = enq[d] \/ enq'[d].task = NoTask
    BY <1>1 DEF CreateJob, CallFor, NoCall, TypeInv, RestOK
  <2> QED
    BY <1>1, <2>1, <2>2 DEF CreateJob, CarrierMove, CarrierKept
<1>2. ASSUME NEW j \in Job, CancelImport(j)
      PROVE  CarrierMove
  <2>1. \A v \in Worker : /\ TaskOf(v)' \in {TaskOf(v), NoTask}
                           /\ Carry(v)' \in {Carry(v), NoTask}
    BY <1>2, SameCarry DEF CancelImport
  <2>2. \A d \in Caller : enq'[d] = enq[d] \/ enq'[d].task = NoTask
    BY <1>2 DEF CancelImport, TypeInv, RestOK
  <2> QED
    BY <1>2, <2>1, <2>2 DEF CancelImport, CarrierMove, CarrierKept
<1>3. ASSUME NEW j \in Job, CancelCleanup(j)
      PROVE  CarrierMove
  <2>1. \A v \in Worker : /\ TaskOf(v)' \in {TaskOf(v), NoTask}
                           /\ Carry(v)' \in {Carry(v), NoTask}
    BY <1>3, SameCarry DEF CancelCleanup
  <2>2. \A d \in Caller : enq'[d] = enq[d] \/ enq'[d].task = NoTask
    BY <1>3 DEF CancelCleanup, TypeInv, RestOK
  <2> QED
    BY <1>3, <2>1, <2>2 DEF CancelCleanup, CarrierMove, CarrierKept
<1>4. ASSUME NEW j \in Job, DestroyObject(j)
      PROVE  CarrierMove
  <2>1. \A v \in Worker : /\ TaskOf(v)' \in {TaskOf(v), NoTask}
                           /\ Carry(v)' \in {Carry(v), NoTask}
    BY <1>4, SameCarry DEF DestroyObject
  <2>2. \A d \in Caller : enq'[d] = enq[d] \/ enq'[d].task = NoTask
    BY <1>4 DEF DestroyObject, TypeInv, RestOK
  <2> QED
    BY <1>4, <2>1, <2>2 DEF DestroyObject, CarrierMove, CarrierKept
<1>5. ASSUME NEW j \in Job, RetireObject(j)
      PROVE  CarrierMove
  <2>1. \A v \in Worker : /\ TaskOf(v)' \in {TaskOf(v), NoTask}
                           /\ Carry(v)' \in {Carry(v), NoTask}
    BY <1>5, SameCarry DEF RetireObject
  <2>2. \A d \in Caller : enq'[d] = enq[d] \/ enq'[d].task = NoTask
    BY <1>5 DEF RetireObject, TypeInv, RestOK
  <2> QED
    BY <1>5, <2>1, <2>2 DEF RetireObject, CarrierMove, CarrierKept
<1>6. ASSUME NEW j \in Job, DeleteRow(j)
      PROVE  CarrierMove
  <2>1. \A v \in Worker : /\ TaskOf(v)' \in {TaskOf(v), NoTask}
                           /\ Carry(v)' \in {Carry(v), NoTask}
    BY <1>6, SameCarry DEF DeleteRow
  <2>2. \A d \in Caller : enq'[d] = enq[d] \/ enq'[d].task = NoTask
    BY <1>6 DEF DeleteRow, TypeInv, RestOK
  <2> QED
    BY <1>6, <2>1, <2>2 DEF DeleteRow, CarrierMove, CarrierKept
<1>7. ASSUME NEW c \in Caller, Reserve(c)
      PROVE  CarrierMove
  <2>1. misled' = misled
    BY <1>7 DEF Reserve
  <2> QED
    BY <1>7, <2>1 DEF CarrierMove
<1>8. ASSUME NEW c \in Caller, ReserveRefused(c)
      PROVE  CarrierMove
  BY <1>8, ReturnCarry DEF ReserveRefused, NoCall, CarrierMove, CarrierKept
<1>9. ASSUME NEW c \in Caller, ReserveMissing(c)
      PROVE  CarrierMove
  BY <1>9, ReturnCarry DEF ReserveMissing, NoCall, CarrierMove, CarrierKept
<1>10. ASSUME NEW c \in Caller, Send(c)
       PROVE  CarrierMove
  BY <1>10 DEF Send, CarrierMove, CarrierSends
<1>11. ASSUME NEW c \in Caller, SendFails(c)
       PROVE  CarrierMove
  <2>1. CASE queue' = queue
    BY <1>11, <2>1, ReturnCarry DEF SendFails, NoCall, CarrierMove, CarrierKept
  <2>2. CASE queue' # queue
    BY <1>11, <2>2 DEF SendFails, CarrierMove, CarrierSends
  <2> QED
    BY <2>1, <2>2
<1>12. ASSUME NEW c \in Caller, CallerCrash(c)
       PROVE  CarrierMove
  <2>1. \A v \in Worker : /\ TaskOf(v)' \in {TaskOf(v), NoTask}
                           /\ Carry(v)' \in {Carry(v), NoTask}
    BY <1>12, SameCarry DEF CallerCrash
  <2>2. \A d \in Caller : enq'[d] = enq[d] \/ enq'[d].task = NoTask
    BY <1>12 DEF CallerCrash, NoCall, TypeInv, RestOK
  <2> QED
    BY <1>12, <2>1, <2>2 DEF CallerCrash, CarrierMove, CarrierKept
<1>13. ASSUME NEW w \in Worker, NEW m \in queue, Deliver(w, m)
       PROVE  CarrierMove
  BY <1>13 DEF Deliver, Starts, CarrierMove, CarrierStarts
<1>14. ASSUME NEW w \in Worker, NEW m \in queue, DeliverFails(w, m)
       PROVE  CarrierMove
  BY <1>14 DEF DeliverFails, CarrierMove, CarrierStarts
<1>15. ASSUME NEW w \in Worker, Crash(w)
       PROVE  CarrierMove
  <2> DEFINE back == Again(exec[w].msg)
  <2>1. /\ back.task = TaskOf(w)
        /\ back.job = exec[w].msg.job /\ back.kind = exec[w].msg.kind
        /\ \A c \in Caller : enq'[c] = enq[c] \/ enq'[c].task = NoTask
    BY <1>15, Busy DEF Crash, Again, TaskOf, Message, TypeInv, RestOK, NoCall
  <2>2. \/ exec[w].pc # "retried" /\ Carry(w)' = NoTask
        \/ TaskOf(w) \in misled'
    BY <1>15, FreeCarry DEF Crash, TaskOf
  <2> QED
    BY <1>15, <2>1, <2>2, FreeCarry DEF Crash, CarrierMove, CarrierReturns
<1>16. ASSUME NEW w \in Worker, HardLimit(w)
       PROVE  CarrierMove
  <2>1. \A v \in Worker : /\ TaskOf(v)' \in {TaskOf(v), NoTask}
                           /\ Carry(v)' \in {Carry(v), NoTask}
    BY <1>16, FreeCarry DEF HardLimit
  <2>2. \A d \in Caller : enq'[d] = enq[d] \/ enq'[d].task = NoTask
    BY <1>16 DEF HardLimit, NoCall, TypeInv, RestOK
  <2> QED
    BY <1>16, <2>1, <2>2 DEF HardLimit, CarrierMove, CarrierKept
<1>17. ASSUME NEW w \in Worker, Redeliver(w)
       PROVE  CarrierMove
  <2> DEFINE back == Again(exec[w].msg)
  <2>1. /\ back.task = TaskOf(w)
        /\ back.job = exec[w].msg.job /\ back.kind = exec[w].msg.kind
    BY <1>17, Busy DEF Redeliver, Again, TaskOf, Message, TypeInv
  <2>2. TaskOf(w) \in misled'
    BY <1>17 DEF Redeliver, TaskOf
  <2> QED
    BY <1>17, <2>1, <2>2, SameCarry DEF Redeliver, CarrierMove, CarrierReturns
<1>18. ASSUME NEW w \in Worker, Phase(w)
       PROVE  CarrierMove
  <2>1. \A v \in Worker : /\ TaskOf(v)' \in {TaskOf(v), NoTask}
                           /\ Carry(v)' \in {Carry(v), NoTask}
    BY <1>18, GotoCarry DEF Phase, AfterLease, At, End
  <2>2. \A d \in Caller : enq'[d] = enq[d] \/ enq'[d].task = NoTask
    BY <1>18 DEF Phase, Goto, End, TypeInv, RestOK
  <2> QED
    BY <1>18, <2>1, <2>2 DEF Phase, CarrierMove, CarrierKept
<1>19. ASSUME NEW w \in Worker, SaveObject(w)
       PROVE  CarrierMove
  <2>1. \A v \in Worker : /\ TaskOf(v)' \in {TaskOf(v), NoTask}
                           /\ Carry(v)' \in {Carry(v), NoTask}
    BY <1>19, SetCarry DEF SaveObject, At, Working, ReportStep, ImportStep
  <2>2. \A d \in Caller : enq'[d] = enq[d] \/ enq'[d].task = NoTask
    BY <1>19 DEF SaveObject, At, TypeInv, RestOK
  <2> QED
    BY <1>19, <2>1, <2>2 DEF SaveObject, CarrierMove, CarrierKept
<1>20. ASSUME NEW w \in Worker, SaveUnacknowledged(w)
       PROVE  CarrierMove
  <2>1. \A v \in Worker : /\ TaskOf(v)' \in {TaskOf(v), NoTask}
                           /\ Carry(v)' \in {Carry(v), NoTask}
    BY <1>20, GotoCarry DEF SaveUnacknowledged, At, Goto
  <2>2. \A d \in Caller : enq'[d] = enq[d] \/ enq'[d].task = NoTask
    BY <1>20 DEF SaveUnacknowledged, At, TypeInv, RestOK
  <2> QED
    BY <1>20, <2>1, <2>2 DEF SaveUnacknowledged, CarrierMove, CarrierKept
<1>21. ASSUME NEW w \in Worker, Finish(w)
       PROVE  CarrierMove
  <2>1. \A v \in Worker : /\ TaskOf(v)' \in {TaskOf(v), NoTask}
                           /\ Carry(v)' \in {Carry(v), NoTask}
    BY <1>21, GotoCarry DEF Finish, At, End
  <2>2. \A d \in Caller : enq'[d] = enq[d] \/ enq'[d].task = NoTask
    BY <1>21 DEF Finish, Goto, End, At, TypeInv, RestOK
  <2> QED
    BY <1>21, <2>1, <2>2 DEF Finish, CarrierMove, CarrierKept
<1>22. ASSUME NEW w \in Worker, FinishUnacknowledged(w)
       PROVE  CarrierMove
  <2>1. \A v \in Worker : /\ TaskOf(v)' \in {TaskOf(v), NoTask}
                           /\ Carry(v)' \in {Carry(v), NoTask}
    BY <1>22, SetCarry DEF FinishUnacknowledged, At, Working, ReportStep, ImportStep
  <2>2. \A d \in Caller : enq'[d] = enq[d] \/ enq'[d].task = NoTask
    BY <1>22 DEF FinishUnacknowledged, At, TypeInv, RestOK
  <2> QED
    BY <1>22, <2>1, <2>2 DEF FinishUnacknowledged, CarrierMove, CarrierKept
<1>23. ASSUME NEW w \in Worker, DeleteObject(w)
       PROVE  CarrierMove
  <2>1. \A v \in Worker : /\ TaskOf(v)' \in {TaskOf(v), NoTask}
                           /\ Carry(v)' \in {Carry(v), NoTask}
    BY <1>23, GotoCarry DEF DeleteObject, AfterDelete, At, End
  <2>2. \A d \in Caller : enq'[d] = enq[d] \/ enq'[d].task = NoTask
    BY <1>23 DEF DeleteObject, AfterDelete, Goto, End, TypeInv, RestOK
  <2> QED
    BY <1>23, <2>1, <2>2 DEF DeleteObject, CarrierMove, CarrierKept
<1>24. ASSUME NEW w \in Worker, DeleteObjectFails(w)
       PROVE  CarrierMove
  <2>1. \A v \in Worker : /\ TaskOf(v)' \in {TaskOf(v), NoTask}
                           /\ Carry(v)' \in {Carry(v), NoTask}
    BY <1>24, GotoCarry DEF DeleteObjectFails, AfterDelete, At, End
  <2>2. \A d \in Caller : enq'[d] = enq[d] \/ enq'[d].task = NoTask
    BY <1>24 DEF DeleteObjectFails, AfterDelete, Goto, End, TypeInv, RestOK
  <2> QED
    BY <1>24, <2>1, <2>2 DEF DeleteObjectFails, CarrierMove, CarrierKept
<1>25. ASSUME NEW w \in Worker, LoadFile(w)
       PROVE  CarrierMove
  <2>1. \A v \in Worker : /\ TaskOf(v)' \in {TaskOf(v), NoTask}
                           /\ Carry(v)' \in {Carry(v), NoTask}
    BY <1>25, GotoCarry DEF LoadFile, End, At
  <2>2. \A d \in Caller : enq'[d] = enq[d] \/ enq'[d].task = NoTask
    BY <1>25 DEF LoadFile, Goto, At, TypeInv, RestOK
  <2> QED
    BY <1>25, <2>1, <2>2 DEF LoadFile, CarrierMove, CarrierKept
<1>26. ASSUME NEW w \in Worker, RowsDone(w)
       PROVE  CarrierMove
  <2>1. \A v \in Worker : /\ TaskOf(v)' \in {TaskOf(v), NoTask}
                           /\ Carry(v)' \in {Carry(v), NoTask}
    BY <1>26, GotoCarry DEF RowsDone, End, At
  <2>2. \A d \in Caller : enq'[d] = enq[d] \/ enq'[d].task = NoTask
    BY <1>26 DEF RowsDone, Goto, At, TypeInv, RestOK
  <2> QED
    BY <1>26, <2>1, <2>2 DEF RowsDone, CarrierMove, CarrierKept
<1>27. ASSUME NEW w \in Worker, Refresh(w)
       PROVE  CarrierMove
  <2>1. \A v \in Worker : /\ TaskOf(v)' \in {TaskOf(v), NoTask}
                           /\ Carry(v)' \in {Carry(v), NoTask}
    BY <1>27, GotoCarry DEF Refresh, End, At
  <2>2. \A d \in Caller : enq'[d] = enq[d] \/ enq'[d].task = NoTask
    BY <1>27 DEF Refresh, Goto, At, TypeInv, RestOK
  <2> QED
    BY <1>27, <2>1, <2>2 DEF Refresh, CarrierMove, CarrierKept
<1>28. ASSUME NEW w \in Worker, CheckRows(w)
       PROVE  CarrierMove
  <2>1. exec' = exec \/ Goto(w, "refresh") \/ Goto(w, "fail") \/ End(w)
    BY <1>28 DEF CheckRows
  <2>2. \A v \in Worker : /\ TaskOf(v)' \in {TaskOf(v), NoTask}
                           /\ Carry(v)' \in {Carry(v), NoTask}
    <3>1. CASE exec' = exec
      BY <3>1, SameCarry
    <3>2. CASE exec' # exec
      BY <1>28, <2>1, <3>2, GotoCarry DEF CheckRows, End, At
    <3> QED
      BY <3>1, <3>2
  <2> QED
    BY <1>28, <2>2 DEF CheckRows, CarrierMove, CarrierKept
<1>29. ASSUME NEW w \in Worker, Handoff(w)
       PROVE  CarrierMove
  <2>1. \A v \in Worker : /\ TaskOf(v)' \in {TaskOf(v), NoTask}
                           /\ Carry(v)' \in {Carry(v), NoTask}
    BY <1>29, GotoCarry DEF Handoff, At, End
  <2>2. \A d \in Caller : enq'[d] = enq[d] \/ enq'[d].task = NoTask
    BY <1>29 DEF Handoff, Goto, End, At, TypeInv, RestOK
  <2> QED
    BY <1>29, <2>1, <2>2 DEF Handoff, CarrierMove, CarrierKept
<1>30. ASSUME NEW w \in Worker, DropUpload(w)
       PROVE  CarrierMove
  <2>1. \A v \in Worker : /\ TaskOf(v)' \in {TaskOf(v), NoTask}
                           /\ Carry(v)' \in {Carry(v), NoTask}
    BY <1>30, GotoCarry DEF DropUpload, At, End
  <2>2. \A d \in Caller : enq'[d] = enq[d] \/ enq'[d].task = NoTask
    BY <1>30 DEF DropUpload, Goto, End, At, CallFor, NoCall, TypeInv, RestOK
  <2> QED
    BY <1>30, <2>1, <2>2 DEF DropUpload, CarrierMove, CarrierKept
<1>31. ASSUME NEW w \in Worker, PrepareRetry(w)
       PROVE  CarrierMove
  <2>1. \A v \in Worker : /\ TaskOf(v)' \in {TaskOf(v), NoTask}
                           /\ Carry(v)' \in {Carry(v), NoTask}
    BY <1>31, GotoCarry DEF PrepareRetry, At, End
  <2>2. \A d \in Caller : enq'[d] = enq[d] \/ enq'[d].task = NoTask
    BY <1>31 DEF PrepareRetry, Goto, At, TypeInv, RestOK
  <2> QED
    BY <1>31, <2>1, <2>2 DEF PrepareRetry, CarrierMove, CarrierKept
<1>32. ASSUME NEW w \in Worker, PrepareRetryFails(w)
       PROVE  CarrierMove
  <2>1. \A v \in Worker : /\ TaskOf(v)' \in {TaskOf(v), NoTask}
                           /\ Carry(v)' \in {Carry(v), NoTask}
    BY <1>32, GotoCarry DEF PrepareRetryFails, End, At
  <2>2. \A d \in Caller : enq'[d] = enq[d] \/ enq'[d].task = NoTask
    BY <1>32 DEF PrepareRetryFails, Goto, At, TypeInv, RestOK
  <2> QED
    BY <1>32, <2>1, <2>2 DEF PrepareRetryFails, CarrierMove, CarrierKept
<1>33. ASSUME NEW w \in Worker, PublishRetry(w)
       PROVE  CarrierMove
  BY <1>33, <1>0 DEF PublishRetry, CarrierMove
<1>34. ASSUME NEW w \in Worker, PublishRetryFails(w)
       PROVE  CarrierMove
  <2>1. CASE queue' = queue /\ End(w)
    BY <1>34, <2>1, GotoCarry
       DEF PublishRetryFails, End, At, CarrierMove, CarrierKept
  <2>2. CASE queue' = queue \union {RetryOf(exec[w].msg)} /\ Goto(w, "retried")
    BY <1>34, <2>2, <1>0 DEF PublishRetryFails, CarrierMove
  <2> QED
    BY <1>34, <2>1, <2>2 DEF PublishRetryFails
<1>35. ASSUME NEW w \in Worker, MarkFailed(w)
       PROVE  CarrierMove
  <2>1. \A v \in Worker : /\ TaskOf(v)' \in {TaskOf(v), NoTask}
                           /\ Carry(v)' \in {Carry(v), NoTask}
    BY <1>35, GotoCarry DEF MarkFailed, At, End
  <2>2. \A d \in Caller : enq'[d] = enq[d] \/ enq'[d].task = NoTask
    BY <1>35 DEF MarkFailed, Goto, End, At, TypeInv, RestOK
  <2> QED
    BY <1>35, <2>1, <2>2 DEF MarkFailed, CarrierMove, CarrierKept
<1>36. ASSUME NEW w \in Worker, MarkFailedFails(w)
       PROVE  CarrierMove
  <2>1. \A v \in Worker : /\ TaskOf(v)' \in {TaskOf(v), NoTask}
                           /\ Carry(v)' \in {Carry(v), NoTask}
    BY <1>36, GotoCarry DEF MarkFailedFails, End, At
  <2>2. \A d \in Caller : enq'[d] = enq[d] \/ enq'[d].task = NoTask
    BY <1>36 DEF MarkFailedFails, End, At, TypeInv, RestOK
  <2> QED
    BY <1>36, <2>1, <2>2 DEF MarkFailedFails, CarrierMove, CarrierKept
<1>37. ASSUME NEW w \in Worker, NEW b \in BOOLEAN, Raise(w, b)
       PROVE  CarrierMove
  <2>1. \A v \in Worker : /\ TaskOf(v)' \in {TaskOf(v), NoTask}
                           /\ Carry(v)' \in {Carry(v), NoTask}
    BY <1>37, SetCarry DEF Raise, At, Working, ReportStep, ImportStep
  <2>2. \A d \in Caller : enq'[d] = enq[d] \/ enq'[d].task = NoTask
    BY <1>37 DEF Raise, TypeInv, RestOK
  <2> QED
    BY <1>37, <2>1, <2>2 DEF Raise, CarrierMove, CarrierKept
<1>38. ASSUME SweepStart
       PROVE  CarrierMove
  <2>1. \A v \in Worker : /\ TaskOf(v)' \in {TaskOf(v), NoTask}
                           /\ Carry(v)' \in {Carry(v), NoTask}
    BY <1>38, SameCarry DEF SweepStart
  <2>2. \A d \in Caller : enq'[d] = enq[d] \/ enq'[d].task = NoTask
    BY <1>38 DEF SweepStart, TypeInv, RestOK
  <2> QED
    BY <1>38, <2>1, <2>2 DEF SweepStart, CarrierMove, CarrierKept
<1>39. ASSUME NEW j \in Job, SweepJob(j)
       PROVE  CarrierMove
  <2>1. \A v \in Worker : /\ TaskOf(v)' \in {TaskOf(v), NoTask}
                           /\ Carry(v)' \in {Carry(v), NoTask}
    BY <1>39, SameCarry DEF SweepJob
  <2>2. \A d \in Caller : enq'[d] = enq[d] \/ enq'[d].task = NoTask
    BY <1>39 DEF SweepJob, CallFor, NoCall, TypeInv, RestOK
  <2> QED
    BY <1>39, <2>1, <2>2 DEF SweepJob, CarrierMove, CarrierKept
<1>40. ASSUME SweepDrop
       PROVE  CarrierMove
  <2>1. \A v \in Worker : /\ TaskOf(v)' \in {TaskOf(v), NoTask}
                           /\ Carry(v)' \in {Carry(v), NoTask}
    BY <1>40, SameCarry DEF SweepDrop
  <2>2. \A d \in Caller : enq'[d] = enq[d] \/ enq'[d].task = NoTask
    BY <1>40 DEF SweepDrop, TypeInv, RestOK
  <2> QED
    BY <1>40, <2>1, <2>2 DEF SweepDrop, CarrierMove, CarrierKept
<1>41. ASSUME Tick
       PROVE  CarrierMove
  <2>1. \A v \in Worker : /\ TaskOf(v)' \in {TaskOf(v), NoTask}
                           /\ Carry(v)' \in {Carry(v), NoTask}
    BY <1>41, IdleTask DEF Tick, At, TaskOf, Carry, TypeInv, ExecOK
  <2>2. \A d \in Caller : enq'[d] = enq[d] \/ enq'[d].task = NoTask
    BY <1>41 DEF Tick, At, TypeInv, RestOK
  <2> QED
    BY <1>41, <2>1, <2>2 DEF Tick, CarrierMove, CarrierKept
<1>42. ASSUME UNCHANGED vars
       PROVE  CarrierMove
  <2>1. \A v \in Worker : /\ TaskOf(v)' \in {TaskOf(v), NoTask}
                           /\ Carry(v)' \in {Carry(v), NoTask}
    BY <1>42, SameCarry DEF vars
  <2>2. \A d \in Caller : enq'[d] = enq[d] \/ enq'[d].task = NoTask
    BY <1>42 DEF vars, TypeInv, RestOK
  <2> QED
    BY <1>42, <2>1, <2>2 DEF vars, CarrierMove, CarrierKept
<1>43. ASSUME NEW w \in Worker, Ack(w)
       PROVE  CarrierMove
  BY <1>43, FreeCarry DEF Ack, CarrierMove, CarrierKept
<1> QED
  BY <1>1, <1>2, <1>3, <1>4, <1>5, <1>6, <1>7, <1>8, <1>9, <1>10, <1>11,
     <1>12, <1>13, <1>14, <1>15, <1>16, <1>17, <1>18, <1>19, <1>20, <1>21,
     <1>22, <1>23, <1>24, <1>25, <1>26, <1>27, <1>28, <1>29, <1>30, <1>31,
     <1>32, <1>33, <1>34, <1>35, <1>36, <1>37, <1>38, <1>39, <1>40, <1>41,
     <1>42, <1>43
     DEF Next, Request, Enqueue, TaskStep, Outage, Failure, Recovery

LEMMA NextOneCarrier ==
  ASSUME TypeInv, OneCarrier, CarrierMove
  PROVE  OneCarrier'
<1>0. misled \subseteq misled'
  BY DEF CarrierMove
<1>1. CASE CarrierKept
  BY <1>0, <1>1, QueueTask DEF OneCarrier, CarrierKept
<1>2. ASSUME NEW m \in queue, NEW v \in Worker, NEW p, CarrierStarts(m, v, p)
      PROVE  OneCarrier'
  <2>1. /\ TaskOf(v)' = m.task /\ Carry(v)' = m.task
        /\ \A w \in Worker \ {v} : TaskOf(w)' = TaskOf(w) /\ Carry(w)' = Carry(w)
    BY <1>2 DEF CarrierStarts, Begin, TaskOf, Carry, At, Started, TypeInv, ExecOK
  <2>2. m.task # NoTask
    BY QueueTask
  <2> QED
    BY <1>0, <1>2, <2>1, <2>2 DEF CarrierStarts, OneCarrier
<1>3. ASSUME NEW v \in Worker, NEW m, CarrierReturns(v, m)
      PROVE  OneCarrier'
  <2>1. TaskOf(v) # NoTask
    BY <1>3, IdleTask DEF CarrierReturns
  <2>2. \A n \in queue : n.task # NoTask
    BY QueueTask
  <2>3. exec[v].pc # "retried" => Carry(v) = TaskOf(v)
    BY DEF Carry, At
  <2> QED
    BY <1>0, <1>3, <2>1, <2>2, <2>3 DEF CarrierReturns, OneCarrier
<1>4. ASSUME NEW c \in Caller, CarrierSends(c)
      PROVE  OneCarrier'
  <2>1. /\ MessageOf(enq[c]).task = enq[c].task
        /\ enq'[c].task = NoTask
        /\ \A d \in Caller \ {c} : enq'[d].task = enq[d].task
    BY <1>4, ReturnCarry DEF CarrierSends, MessageOf, NoCall
  <2>2. \A w \in Worker : /\ TaskOf(w)' = TaskOf(w)
                          /\ Carry(w)' \in {Carry(w), NoTask}
    BY <1>4, ReturnCarry DEF CarrierSends
  <2>3. \A w \in Worker : Carry(w) \in {TaskOf(w), NoTask}
    BY DEF Carry
  <2> QED
    BY <1>0, <1>4, <2>1, <2>2, <2>3, QueueTask DEF CarrierSends, OneCarrier
<1>5. ASSUME NEW c \in Caller, Reserve(c)
      PROVE  OneCarrier'
  <2>1. PICK t \in Task \ InUse :
          enq' = [enq EXCEPT ![c].task = t,
                             ![c].kind = TaskFor(job[enq[c].job])]
    BY <1>5 DEF Reserve
  <2>2. enq'[c].task = t /\ \A d \in Caller \ {c} : enq'[d].task = enq[d].task
    <3>1. enq[c] \in Call
      BY <1>5, InCall DEF TypeInv, Reserve
    <3> QED
      BY <2>1, <3>1 DEF TypeInv, RestOK, Call
  <2>3. /\ \A m \in queue : m.task # t
        /\ \A w \in Worker : TaskOf(w) # t
        /\ \A d \in Caller : enq[d].task # t
    BY DEF InUse, TaskOf
  <2>4. /\ queue' = queue /\ misled' = misled
        /\ \A w \in Worker : TaskOf(w)' = TaskOf(w) /\ Carry(w)' = Carry(w)
    BY <1>5, SameCarry DEF Reserve
  <2> QED
    BY <2>2, <2>3, <2>4 DEF OneCarrier
<1> QED
  BY <1>1, <1>2, <1>3, <1>4, <1>5 DEF CarrierMove

-----------------------------------------------------------------------------
(* Leases.  A working task owns its row with a heartbeat no older than the *)
(* task itself, so that neither a claim nor the sweep finds it stale,      *)
(* unless a user cancelled or deleted the job, or the task was misled.     *)

Held(r, t, age) ==
  \/ Owns(r, t) /\ r.hb \in Age /\ r.hb <= age
  \/ r.status \in {"cancelled", "deleted"}

LeaseOK == \A w \in Worker :
  exec[w].pc \in Working /\ TaskOf(w) \notin misled
    => Held(RowOf(w), TaskOf(w), exec[w].age)

\* What others may do to a row whose lease is held.
LEMMA HeldRow ==
  ASSUME NEW r \in Row, NEW t \in Task, NEW age \in 0..TimeLimit,
         Held(r, t, age)
  PROVE  /\ ~MayReserve(r)
         /\ \A since \in Nat : ~Recoverable(r, since)
         /\ Held(Cancelled(r), t, age)
         /\ \A u \in Task : Held(Touched(r, u), t, age)
         /\ \A u \in Task : Held(ReservationUndone(r, u), t, age)
         /\ Held(RetryPrepared(r), t, age)
         /\ Exists(r) => Held(Aged(r), t, age + 1)
         /\ \A u \in Task : Owns(r, u) => u = t
         /\ \A u \in Task, b \in BOOLEAN :
              Exists(r) /\ u # t => ClaimedRow(r, u, b) = r
<1>1. ~MayReserve(r)
  BY DEF Held, MayReserve, Owns
<1>2. ASSUME NEW since \in Nat PROVE ~Recoverable(r, since)
  <2>1. CASE Owns(r, t) /\ r.hb \in Age /\ r.hb <= age
    <3>1. LastActivity(r) = r.hb
      BY <2>1, Counters DEF LastActivity
    <3>2. r.hb - since < StaleAfter
      BY <2>1, TimingAssumption, ReportJobsAssumption, JobStateAssumption DEF Age
    <3>3. r.status = "running"
      BY <2>1 DEF Owns
    <3> QED
      BY <3>1, <3>2, <3>3, JobStateAssumption, <2>1
         DEF Recoverable, ImportHandoff, Age
  <2>2. CASE r.status \in {"cancelled", "deleted"}
    BY <2>2 DEF Recoverable, ImportHandoff
  <2> QED
    BY <2>1, <2>2 DEF Held
<1>3. Held(Cancelled(r), t, age)
  BY DEF Held, Cancelled, Row
<1>4. ASSUME NEW u \in Task PROVE Held(Touched(r, u), t, age)
  BY Counters DEF Held, Touched, Owns, Row
<1>5. ASSUME NEW u \in Task PROVE Held(ReservationUndone(r, u), t, age)
  BY DEF Held, ReservationUndone, Owns
<1>6. Held(RetryPrepared(r), t, age)
  BY Counters DEF Held, RetryPrepared, Owns, Row
<1>7. ASSUME Exists(r) PROVE Held(Aged(r), t, age + 1)
  <2>1. /\ Aged(r).status = r.status /\ Aged(r).owner = r.owner
        /\ Aged(r).hb = Older(r.hb)
    BY DEF Aged, Row
  <2>2. r.hb \in Age /\ r.hb <= age => Older(r.hb) \in Age /\ Older(r.hb) <= age + 1
    BY JobStateAssumption DEF Older, Age, Never
  <2> QED
    BY <2>1, <2>2 DEF Held, Owns
<1>8. ASSUME NEW u \in Task, Owns(r, u) PROVE u = t
  BY <1>8 DEF Held, Owns
<1>9. ASSUME NEW u \in Task, NEW b \in BOOLEAN, Exists(r), u # t
      PROVE  ClaimedRow(r, u, b) = r
  <2>1. CASE r.status = "cancelled"
    <3>1. ClaimReason(r, u, b) = "terminal"
      BY <2>1 DEF ClaimReason, ImportHandoff, Owns, Reserved
    <3> QED
      BY <3>1 DEF ClaimedRow
  <2>2. CASE Owns(r, t) /\ r.hb \in Age /\ r.hb <= age
    <3>1. ~IsStale(r)
      <4>1. LastActivity(r) = r.hb
        BY <2>2, Counters DEF LastActivity
      <4> QED
        BY <2>2, <4>1, TimingAssumption, ReportJobsAssumption, JobStateAssumption
           DEF IsStale, Age
    <3>2. r.status = "running" /\ r.owner = t
      BY <2>2 DEF Owns
    <3>3. ClaimReason(r, u, b) = "duplicate"
      BY <1>9, <3>1, <3>2, JobStateAssumption
         DEF ClaimReason, ImportHandoff, Owns, Reserved
    <3> QED
      BY <3>3 DEF ClaimedRow
  <2> QED
    BY <1>9, <2>1, <2>2 DEF Held, Exists
<1> QED
  BY <1>1, <1>2, <1>3, <1>4, <1>5, <1>6, <1>7, <1>8, <1>9

\* A successful claim.
LEMMA ClaimHolds ==
  ASSUME NEW r \in Row, NEW t \in Task, NEW b \in BOOLEAN,
         IsClaim(ClaimReason(r, t, b))
  PROVE  Held(ClaimedRow(r, t, b), t, 0)
<1>1. CASE ClaimReason(r, t, b) = "claimed"
  <2>1. ClaimedRow(r, t, b) = [r EXCEPT !.status = "running", !.owner = t,
                                        !.hb = 0, !.attempts = @ + 1]
    BY <1>1 DEF ClaimedRow
  <2> QED
    BY <2>1, Counters DEF Held, Owns, Row, Age
<1>2. CASE ClaimReason(r, t, b) = "redelivery"
  <2>1. Owns(r, t)
    BY <1>2 DEF ClaimReason
  <2>2. /\ ClaimedRow(r, t, b).status = r.status
        /\ ClaimedRow(r, t, b).owner = r.owner
        /\ ClaimedRow(r, t, b).hb = 0
    BY <1>2 DEF ClaimedRow, Row
  <2> QED
    BY <2>1, <2>2, Counters DEF Held, Owns
<1> QED
  BY <1>1, <1>2 DEF IsClaim

\* No task starts to work, and those that go on working are the same.
WorkKept == \A v \in Worker : exec'[v].pc \in Working =>
  /\ exec[v].pc \in Working
  /\ exec'[v].msg = exec[v].msg
  /\ exec'[v].age = exec[v].age

LEMMA GotoWork ==
  ASSUME TypeInv, NEW w \in Worker, exec[w].pc # "idle", NEW p, Goto(w, p),
         p \in Working => exec[w].pc \in Working
  PROVE  WorkKept
<1>1. exec[w] \in Execution
  BY Busy DEF TypeInv
<1> QED
  BY <1>1 DEF Goto, WorkKept, TypeInv, ExecOK, Execution

LEMMA EndWork ==
  ASSUME TypeInv, NEW w \in Worker, exec' = [exec EXCEPT ![w] = Idle]
  PROVE  WorkKept /\ exec'[w].pc \notin Working
<1>1. Idle.pc \notin Working
  BY DEF Idle, Started, Working, ReportStep, ImportStep
<1> QED
  BY <1>1 DEF WorkKept, TypeInv, ExecOK

LEMMA ReturnWork ==
  ASSUME TypeInv, NEW c \in Caller, Return(c),
         Calling(c) \/ enq[c].task # NoTask
  PROVE  WorkKept
<1>1. CASE c \in Worker
  <2>1. exec[c].pc = "enqueue"
    BY <1>1 DEF TypeInv, CallsOK, Calling, NoCall
  <2> QED
    BY <1>1, <2>1, GotoWork DEF Return, Working, ReportStep, ImportStep
<1>2. CASE c \notin Worker
  BY <1>2 DEF Return, WorkKept
<1> QED
  BY <1>1, <1>2

LEMMA Worker_Row ==
  ASSUME TypeInv, NEW v \in Worker, exec[v].pc \in Working
  PROVE  /\ exec[v].pc # "idle"
         /\ exec[v].msg.job \in Job
         /\ TaskOf(v) \in Task
         /\ RowOf(v) \in Row
         /\ exec[v].age \in 0..TimeLimit
<1>1. exec[v].pc # "idle"
  BY DEF Working, ReportStep, ImportStep
<1> QED
  BY <1>1, Busy DEF TypeInv, JobOK, RowOf, TaskOf, Execution

\* Two executions of a task that was not misled are one.
LEMMA OneWorker ==
  ASSUME OneCarrier, NEW v \in Worker, NEW w \in Worker,
         TaskOf(v) = TaskOf(w), TaskOf(v) \in Task, TaskOf(v) \notin misled,
         exec[v].pc # "retried", exec[w].pc # "retried"
  PROVE  v = w
BY JobStateAssumption DEF OneCarrier, Carry, At

LEMMA WorkFrame ==
  ASSUME TypeInv, LeaseOK, WorkKept, misled \subseteq misled', job' = job
  PROVE  LeaseOK'
BY DEF LeaseOK, WorkKept, RowOf, TaskOf

\* Replacing row j by r leaves the leases on it held.
Preserves(j, r) == \A v \in Worker :
  /\ exec[v].pc \in Working /\ exec'[v].pc \in Working /\ exec[v].msg.job = j
  /\ TaskOf(v) \in Task \ misled /\ exec[v].age \in 0..TimeLimit
  /\ job[j] \in Row
  /\ Held(job[j], TaskOf(v), exec[v].age)
  => Held(r, TaskOf(v), exec[v].age)

LEMMA WorkRow ==
  ASSUME TypeInv, LeaseOK, WorkKept, misled \subseteq misled',
         NEW j \in Job, NEW r,
         job' = [job EXCEPT ![j] = r], Preserves(j, r)
  PROVE  LeaseOK'
<1> SUFFICES ASSUME NEW v \in Worker, exec'[v].pc \in Working,
                    TaskOf(v)' \notin misled'
             PROVE  Held(RowOf(v)', TaskOf(v)', exec'[v].age)
  BY DEF LeaseOK
<1>1. /\ exec[v].pc \in Working /\ exec'[v].msg = exec[v].msg
      /\ exec'[v].age = exec[v].age /\ TaskOf(v)' = TaskOf(v)
      /\ TaskOf(v) \notin misled
  BY DEF WorkKept, TaskOf
<1>2. Held(RowOf(v), TaskOf(v), exec[v].age)
  BY <1>1 DEF LeaseOK
<1>3. CASE exec[v].msg.job = j
  <2>1. Held(r, TaskOf(v), exec[v].age)
    BY <1>1, <1>2, <1>3, Worker_Row DEF RowOf, Preserves
  <2> QED
    BY <1>1, <1>3, <2>1 DEF RowOf, TypeInv, JobOK
<1>4. CASE exec[v].msg.job # j
  BY <1>1, <1>2, <1>4, Worker_Row DEF RowOf, TypeInv, JobOK
<1> QED
  BY <1>3, <1>4

LEMMA NextLeaseOK ==
  ASSUME TypeInv, OneCarrier, LeaseOK, [Next]_vars
  PROVE  LeaseOK'
<1>0. misled \subseteq misled'
  BY NextCarrierMove DEF CarrierMove
<1>1. ASSUME NEW j \in Job, CreateJob(j)
      PROVE  LeaseOK'
  <2>1. WorkKept
    BY <1>1 DEF CreateJob, WorkKept
  <2> QED
    BY <1>1, <2>1, <1>0, WorkRow DEF CreateJob, Preserves, Held, Owns
<1>2. ASSUME NEW j \in Job, CancelImport(j)
      PROVE  LeaseOK'
  <2>1. WorkKept
    BY <1>2 DEF CancelImport, WorkKept
  <2> QED
    <3>1. Preserves(j, Cancelled(job[j]))
      BY HeldRow DEF Preserves
    <3> QED
      BY <1>2, <2>1, <3>1, <1>0, WorkRow DEF CancelImport
<1>3. ASSUME NEW j \in Job, CancelCleanup(j)
      PROVE  LeaseOK'
  <2>1. WorkKept
    BY <1>3 DEF CancelCleanup, WorkKept
  <2> QED
    BY <1>3, <2>1, <1>0, WorkFrame DEF CancelCleanup
<1>4. ASSUME NEW j \in Job, DestroyObject(j)
      PROVE  LeaseOK'
  <2>1. WorkKept
    BY <1>4 DEF DestroyObject, WorkKept
  <2> QED
    BY <1>4, <2>1, <1>0, WorkFrame DEF DestroyObject
<1>5. ASSUME NEW j \in Job, RetireObject(j)
      PROVE  LeaseOK'
  <2>1. WorkKept
    BY <1>5 DEF RetireObject, WorkKept
  <2> QED
    BY <1>5, <2>1, <1>0, WorkFrame DEF RetireObject
<1>6. ASSUME NEW j \in Job, DeleteRow(j)
      PROVE  LeaseOK'
  <2>1. WorkKept
    BY <1>6 DEF DeleteRow, WorkKept
  <2> DEFINE gone == [NewRow(j) EXCEPT !.status = "deleted"]
  <2>2. gone.status = "deleted"
    BY DEF NewRow
  <2>3. \A t, a : Held(gone, t, a)
    BY <2>2 DEF Held
  <2>4. job' = job \/ job' = [job EXCEPT ![j] = gone]
    BY <1>6 DEF DeleteRow
  <2> HIDE DEF gone
  <2> QED
    BY <2>1, <2>3, <2>4, <1>0, WorkRow, WorkFrame DEF Preserves
<1>7. ASSUME NEW c \in Caller, Reserve(c)
      PROVE  LeaseOK'
  <2>1. WorkKept
    BY <1>7 DEF Reserve, WorkKept
  <2>2. enq[c].job \in Job
    BY <1>7, InCall DEF Reserve, TypeInv
  <2> DEFINE j == enq[c].job
  <2>3. PICK t \in Task : job' = [job EXCEPT ![j] = ReservedRow(job[j], t)]
    BY <1>7 DEF Reserve
  <2>4. MayReserve(job[j])
    BY <1>7 DEF Reserve
  <2> HIDE DEF j
  <2> QED
    <3>1. Preserves(j, ReservedRow(job[j], t))
      BY <2>4, HeldRow DEF Preserves
    <3> QED
      BY <2>1, <2>2, <2>3, <3>1, <1>0, WorkRow DEF j
<1>8. ASSUME NEW c \in Caller, ReserveRefused(c)
      PROVE  LeaseOK'
  <2>1. WorkKept
    BY <1>8, ReturnWork DEF ReserveRefused
  <2> QED
    BY <1>8, <2>1, <1>0, WorkFrame DEF ReserveRefused
<1>9. ASSUME NEW c \in Caller, ReserveMissing(c)
      PROVE  LeaseOK'
  <2>1. WorkKept
    BY <1>9, ReturnWork DEF ReserveMissing
  <2> QED
    BY <1>9, <2>1, <1>0, WorkFrame DEF ReserveMissing
<1>10. ASSUME NEW c \in Caller, Send(c)
       PROVE  LeaseOK'
  <2>1. WorkKept
    BY <1>10, ReturnWork DEF Send
  <2> QED
    BY <1>10, <2>1, <1>0, WorkFrame DEF Send
<1>11. ASSUME NEW c \in Caller, SendFails(c)
       PROVE  LeaseOK'
  <2>1. WorkKept
    BY <1>11, ReturnWork DEF SendFails
  <2>2. enq[c].job \in Job /\ enq[c].task \in Task
    BY <1>11, InCall DEF SendFails, TypeInv
  <2>3. job' = [job EXCEPT ![enq[c].job] =
                  ReservationUndone(job[enq[c].job], enq[c].task)]
    BY <1>11 DEF SendFails
  <2> QED
    <3>1. Preserves(enq[c].job,
                    ReservationUndone(job[enq[c].job], enq[c].task))
      BY <2>2, HeldRow DEF Preserves
    <3> QED
      BY <2>1, <2>2, <2>3, <3>1, <1>0, WorkRow
<1>12. ASSUME NEW c \in Caller, CallerCrash(c)
       PROVE  LeaseOK'
  <2>1. WorkKept
    BY <1>12 DEF CallerCrash, WorkKept
  <2> QED
    BY <1>12, <2>1, <1>0, WorkFrame DEF CallerCrash
<1>13. ASSUME NEW w \in Worker, NEW m \in queue, Deliver(w, m)
       PROVE  LeaseOK'
  <2> DEFINE j == m.job
             r == ClaimedRow(job[j], m.task, m.redelivered)
  <2>1. /\ m \in Message /\ m.task \in Task /\ j \in Job
        /\ m.redelivered \in BOOLEAN
    BY QueueTask DEF Message
  <2>2. exec[w].pc = "idle"
    BY <1>13 DEF Deliver
  <2>3. ASSUME NEW p, Begin(w, m, p),
               \/ job' = job /\ p \notin Working
               \/ /\ Exists(job[j])
                  /\ job' = [job EXCEPT ![j] = r]
                  /\ \/ p \notin Working
                     \/ IsClaim(ClaimReason(job[j], m.task, m.redelivered))
        PROVE  LeaseOK'
    <3> SUFFICES ASSUME NEW v \in Worker, exec'[v].pc \in Working,
                        TaskOf(v)' \notin misled'
                 PROVE  Held(RowOf(v)', TaskOf(v)', exec'[v].age)
      BY DEF LeaseOK
    <3>1. exec'[w] = Started(m, p) /\ \A u \in Worker \ {w} : exec'[u] = exec[u]
      BY <2>3 DEF Begin, TypeInv, ExecOK
    <3>2. CASE v = w
      <4>1. p \in Working
        BY <3>1, <3>2 DEF Started
      <4>2. /\ IsClaim(ClaimReason(job[j], m.task, m.redelivered))
            /\ job' = [job EXCEPT ![j] = r]
        BY <2>3, <4>1
      <4>3. Held(r, m.task, 0)
        BY <2>1, <4>2, ClaimHolds DEF TypeInv, JobOK
      <4>4. RowOf(v)' = r /\ TaskOf(v)' = m.task /\ exec'[v].age = 0
        BY <2>1, <4>2, <3>1, <3>2 DEF RowOf, TaskOf, Started, TypeInv, JobOK
      <4> QED
        BY <4>3, <4>4
    <3>3. CASE v # w
      <4>1. exec'[v] = exec[v] /\ TaskOf(v)' = TaskOf(v) /\ TaskOf(v) \notin misled
        BY <1>0, <3>1, <3>3 DEF TaskOf
      <4>2. /\ exec[v].msg.job \in Job /\ TaskOf(v) \in Task /\ RowOf(v) \in Row
            /\ exec[v].age \in 0..TimeLimit /\ Held(RowOf(v), TaskOf(v), exec[v].age)
        BY <4>1, Worker_Row DEF LeaseOK
      <4>3. m.task # TaskOf(v)
        BY <4>1 DEF OneCarrier, Carry, At, Working, ReportStep, ImportStep
      <4>4. RowOf(v)' = RowOf(v)
        <5>1. CASE exec[v].msg.job = j
          <6>1. Exists(job[j]) => r = RowOf(v)
            BY <2>1, <4>2, <4>3, <5>1, HeldRow DEF RowOf
          <6> QED
            BY <2>3, <4>1, <4>2, <5>1, <6>1 DEF RowOf, TypeInv, JobOK
        <5>2. CASE exec[v].msg.job # j
          BY <2>3, <4>1, <4>2, <5>2 DEF RowOf, TypeInv, JobOK
        <5> QED
          BY <5>1, <5>2
      <4> QED
        BY <4>1, <4>2, <4>4 DEF TaskOf
    <3> QED
      BY <3>2, <3>3
  <2> HIDE DEF r
  <2>4. \/ job' = job /\ Begin(w, m, "ack")
        \/ /\ Exists(job[j])
           /\ job' = [job EXCEPT ![j] = r]
           /\ \/ Begin(w, m, "ack")
              \/ Begin(w, m, "drop")
              \/ /\ Begin(w, m, Starts(m, job[j]))
                 /\ IsClaim(ClaimReason(job[j], m.task, m.redelivered))
    BY <1>13 DEF Deliver, r
  <2>5. {"drop", "ack"} \cap Working = {}
    BY DEF Working, ReportStep, ImportStep
  <2> QED
    BY <2>3, <2>4, <2>5
<1>14. ASSUME NEW w \in Worker, NEW m \in queue, DeliverFails(w, m)
       PROVE  LeaseOK'
  <2>1. WorkKept
    BY <1>14 DEF DeliverFails, Begin, WorkKept, Started, TypeInv, ExecOK,
              Working, ReportStep, ImportStep
  <2> QED
    BY <1>14, <1>0, <2>1, WorkFrame DEF DeliverFails
<1>15. ASSUME NEW w \in Worker, Crash(w)
       PROVE  LeaseOK'
  <2>1. WorkKept
    BY <1>15, EndWork DEF Crash
  <2> QED
    BY <1>15, <2>1, <1>0, WorkFrame DEF Crash
<1>16. ASSUME NEW w \in Worker, HardLimit(w)
       PROVE  LeaseOK'
  <2>1. WorkKept
    BY <1>16, EndWork DEF HardLimit
  <2> QED
    BY <1>16, <2>1, <1>0, WorkFrame DEF HardLimit
<1>17. ASSUME NEW w \in Worker, Redeliver(w)
       PROVE  LeaseOK'
  <2>1. WorkKept
    BY <1>17 DEF Redeliver, WorkKept
  <2> QED
    BY <1>17, <2>1, <1>0, WorkFrame DEF Redeliver
<1>18. ASSUME NEW w \in Worker, Phase(w)
       PROVE  LeaseOK'
  <2>1. WorkKept
    BY <1>18, GotoWork
       DEF Phase, AfterLease, End, Working, ReportStep, ImportStep
  <2>2. exec[w].pc # "idle"
    BY <1>18 DEF Phase, AfterLease
  <2>3. TaskOf(w) \in Task /\ exec[w].msg.job \in Job
    BY <2>2, Busy DEF TypeInv, TaskOf
  <2>4. job' = [job EXCEPT ![exec[w].msg.job] =
                  Touched(job[exec[w].msg.job], TaskOf(w))]
    BY <1>18 DEF Phase
  <2> QED
    <3>1. Preserves(exec[w].msg.job,
                    Touched(job[exec[w].msg.job], TaskOf(w)))
      BY <2>3, HeldRow DEF Preserves
    <3> QED
      BY <2>1, <2>3, <2>4, <3>1, <1>0, WorkRow
<1>19. ASSUME NEW w \in Worker, SaveObject(w)
       PROVE  LeaseOK'
  <2>1. exec[w] \in Execution
    BY <1>19, Busy DEF SaveObject, At, TypeInv
  <2>2. WorkKept
    BY <1>19, <2>1 DEF SaveObject, At, WorkKept, TypeInv, ExecOK, Execution,
                    Working, ReportStep, ImportStep
  <2> QED
    BY <1>19, <2>2, <1>0, WorkFrame DEF SaveObject
<1>20. ASSUME NEW w \in Worker, SaveUnacknowledged(w)
       PROVE  LeaseOK'
  <2>1. WorkKept
    BY <1>20, GotoWork DEF SaveUnacknowledged, At, Goto, Settle, Working,
                        ReportStep, ImportStep
  <2> QED
    BY <1>20, <2>1, <1>0, WorkFrame DEF SaveUnacknowledged
<1>21. ASSUME NEW w \in Worker, Finish(w)
       PROVE  LeaseOK'
  <2>1. WorkKept
    BY <1>21, GotoWork
       DEF Finish, At, Goto, End, Working, ReportStep, ImportStep
  <2>2. /\ exec[w].pc \notin {"idle", "retried"}
        /\ HasLease(w) => exec'[w].pc \notin Working
    BY <1>21, Busy
       DEF Finish, At, Goto, End, TypeInv, ExecOK, Execution,
           Working, ReportStep, ImportStep
  <2>3. TaskOf(w) \in Task /\ exec[w].msg.job \in Job
    BY <2>2, Busy DEF TypeInv, TaskOf
  <2>4. \/ job' = job
        \/ /\ HasLease(w)
           /\ job' = [job EXCEPT ![exec[w].msg.job] = Completed(job[exec[w].msg.job], TaskOf(w))]
    BY <1>21 DEF Finish
  <2>5. ASSUME NEW v \in Worker, exec'[v].pc \in Working,
               exec[v].msg.job = exec[w].msg.job,
               exec[v].pc \in Working,
               TaskOf(v) \in Task \ misled, exec[v].age \in 0..TimeLimit,
               Held(job[exec[w].msg.job], TaskOf(v), exec[v].age),
               job[exec[w].msg.job] \in Row, HasLease(w)
        PROVE  FALSE
    <3>1. TaskOf(w) = TaskOf(v)
      BY <2>3, <2>5, HeldRow DEF HasLease, RowOf
    <3>2. v = w
      BY <2>2, <2>5, <3>1, OneWorker DEF Working, ReportStep, ImportStep
    <3> QED
      BY <2>2, <2>5, <3>2
  <2> QED
    <3>1. HasLease(w) => Preserves(exec[w].msg.job, Completed(job[exec[w].msg.job], TaskOf(w)))
      BY <2>5 DEF Preserves
    <3> QED
      BY <2>1, <2>3, <2>4, <3>1, <1>0, WorkRow, WorkFrame
<1>22. ASSUME NEW w \in Worker, FinishUnacknowledged(w)
       PROVE  LeaseOK'
  <2>1. WorkKept
    BY <1>22, Busy
       DEF FinishUnacknowledged, At, WorkKept, TypeInv, ExecOK,
           Execution, Working, ReportStep, ImportStep
  <2>2. /\ exec[w].pc \notin {"idle", "retried"}
        /\ HasLease(w) => exec'[w].pc \notin Working
    BY <1>22, Busy
       DEF FinishUnacknowledged, At, Goto, End, TypeInv, ExecOK, Execution,
           Working, ReportStep, ImportStep
  <2>3. TaskOf(w) \in Task /\ exec[w].msg.job \in Job
    BY <2>2, Busy DEF TypeInv, TaskOf
  <2>4. \/ job' = job
        \/ /\ HasLease(w)
           /\ job' = [job EXCEPT ![exec[w].msg.job] = Completed(job[exec[w].msg.job], TaskOf(w))]
    BY <1>22 DEF FinishUnacknowledged
  <2>5. ASSUME NEW v \in Worker, exec'[v].pc \in Working,
               exec[v].msg.job = exec[w].msg.job,
               exec[v].pc \in Working,
               TaskOf(v) \in Task \ misled, exec[v].age \in 0..TimeLimit,
               Held(job[exec[w].msg.job], TaskOf(v), exec[v].age),
               job[exec[w].msg.job] \in Row, HasLease(w)
        PROVE  FALSE
    <3>1. TaskOf(w) = TaskOf(v)
      BY <2>3, <2>5, HeldRow DEF HasLease, RowOf
    <3>2. v = w
      BY <2>2, <2>5, <3>1, OneWorker DEF Working, ReportStep, ImportStep
    <3> QED
      BY <2>2, <2>5, <3>2
  <2> QED
    <3>1. HasLease(w) => Preserves(exec[w].msg.job, Completed(job[exec[w].msg.job], TaskOf(w)))
      BY <2>5 DEF Preserves
    <3> QED
      BY <2>1, <2>3, <2>4, <3>1, <1>0, WorkRow, WorkFrame
<1>23. ASSUME NEW w \in Worker, DeleteObject(w)
       PROVE  LeaseOK'
  <2>1. WorkKept
    BY <1>23, GotoWork
       DEF DeleteObject, At, Goto, End, AfterDelete, Settle, Working,
           ReportStep, ImportStep
  <2> QED
    BY <1>23, <2>1, <1>0, WorkFrame DEF DeleteObject
<1>24. ASSUME NEW w \in Worker, DeleteObjectFails(w)
       PROVE  LeaseOK'
  <2>1. WorkKept
    BY <1>24, GotoWork
       DEF DeleteObjectFails, At, Goto, End, AfterDelete, Settle,
           Working, ReportStep, ImportStep
  <2> QED
    BY <1>24, <2>1, <1>0, WorkFrame DEF DeleteObjectFails
<1>25. ASSUME NEW w \in Worker, LoadFile(w)
       PROVE  LeaseOK'
  <2>1. WorkKept
    BY <1>25, GotoWork
       DEF LoadFile, At, Goto, End, Working, ReportStep, ImportStep
  <2> QED
    BY <1>25, <2>1, <1>0, WorkFrame DEF LoadFile
<1>26. ASSUME NEW w \in Worker, RowsDone(w)
       PROVE  LeaseOK'
  <2>1. WorkKept
    BY <1>26, GotoWork
       DEF RowsDone, At, Goto, End, Working, ReportStep, ImportStep
  <2> QED
    BY <1>26, <2>1, <1>0, WorkFrame DEF RowsDone
<1>27. ASSUME NEW w \in Worker, Refresh(w)
       PROVE  LeaseOK'
  <2>1. WorkKept
    BY <1>27, GotoWork
       DEF Refresh, At, Goto, End, Working, ReportStep, ImportStep
  <2> QED
    BY <1>27, <2>1, <1>0, WorkFrame DEF Refresh
<1>28. ASSUME NEW w \in Worker, CheckRows(w)
       PROVE  LeaseOK'
  <2>1. WorkKept
    <3>1. exec' = exec \/ Goto(w, "refresh") \/ Goto(w, "fail") \/ End(w)
      BY <1>28 DEF CheckRows
    <3>2. exec' = exec => WorkKept
      BY DEF WorkKept
    <3> QED
      BY <1>28, <3>1, <3>2, GotoWork
         DEF CheckRows, At, End, Working, ImportStep
  <2>2. TaskOf(w) \in Task /\ exec[w].msg.job \in Job
    BY <1>28, Busy DEF CheckRows, At, TypeInv, TaskOf
  <2>3. job' = [job EXCEPT ![exec[w].msg.job] =
                  Touched(job[exec[w].msg.job], TaskOf(w))]
    BY <1>28 DEF CheckRows
  <2> QED
    <3>1. Preserves(exec[w].msg.job,
                    Touched(job[exec[w].msg.job], TaskOf(w)))
      BY <2>2, HeldRow DEF Preserves
    <3> QED
      BY <2>1, <2>2, <2>3, <3>1, <1>0, WorkRow
<1>29. ASSUME NEW w \in Worker, Handoff(w)
       PROVE  LeaseOK'
  <2>1. WorkKept
    BY <1>29, GotoWork
       DEF Handoff, At, Goto, End, Working, ReportStep, ImportStep
  <2>2. /\ exec[w].pc \notin {"idle", "retried"}
        /\ HasLease(w) => exec'[w].pc \notin Working
    BY <1>29, Busy
       DEF Handoff, At, Goto, End, TypeInv, ExecOK, Execution,
           Working, ReportStep, ImportStep
  <2>3. TaskOf(w) \in Task /\ exec[w].msg.job \in Job
    BY <2>2, Busy DEF TypeInv, TaskOf
  <2>4. \/ job' = job
        \/ /\ HasLease(w)
           /\ job' = [job EXCEPT ![exec[w].msg.job] = HandedOff(job[exec[w].msg.job])]
    BY <1>29 DEF Handoff
  <2>5. ASSUME NEW v \in Worker, exec'[v].pc \in Working,
               exec[v].msg.job = exec[w].msg.job,
               exec[v].pc \in Working,
               TaskOf(v) \in Task \ misled, exec[v].age \in 0..TimeLimit,
               Held(job[exec[w].msg.job], TaskOf(v), exec[v].age),
               job[exec[w].msg.job] \in Row, HasLease(w)
        PROVE  FALSE
    <3>1. TaskOf(w) = TaskOf(v)
      BY <2>3, <2>5, HeldRow DEF HasLease, RowOf
    <3>2. v = w
      BY <2>2, <2>5, <3>1, OneWorker DEF Working, ReportStep, ImportStep
    <3> QED
      BY <2>2, <2>5, <3>2
  <2> QED
    <3>1. HasLease(w) => Preserves(exec[w].msg.job, HandedOff(job[exec[w].msg.job]))
      BY <2>5 DEF Preserves
    <3> QED
      BY <2>1, <2>3, <2>4, <3>1, <1>0, WorkRow, WorkFrame
<1>30. ASSUME NEW w \in Worker, DropUpload(w)
       PROVE  LeaseOK'
  <2>1. WorkKept
    BY <1>30, GotoWork
       DEF DropUpload, At, Goto, End, Working, ReportStep, ImportStep
  <2> QED
    BY <1>30, <2>1, <1>0, WorkFrame DEF DropUpload
<1>31. ASSUME NEW w \in Worker, PrepareRetry(w)
       PROVE  LeaseOK'
  <2>1. WorkKept
    BY <1>31, GotoWork DEF PrepareRetry, At, Working, ReportStep, ImportStep
  <2>2. exec[w].msg.job \in Job
    BY <1>31, Busy DEF PrepareRetry, At, TypeInv
  <2>3. \/ job' = job
        \/ job' = [job EXCEPT ![exec[w].msg.job] =
                     RetryPrepared(job[exec[w].msg.job])]
    BY <1>31 DEF PrepareRetry
  <2> QED
    <3>1. Preserves(exec[w].msg.job, RetryPrepared(job[exec[w].msg.job]))
      BY HeldRow DEF Preserves
    <3> QED
      BY <2>1, <2>2, <2>3, <3>1, <1>0, WorkRow, WorkFrame
<1>32. ASSUME NEW w \in Worker, PrepareRetryFails(w)
       PROVE  LeaseOK'
  <2>1. WorkKept
    BY <1>32, GotoWork
       DEF PrepareRetryFails, At, Goto, End, Working, ReportStep,
           ImportStep
  <2> QED
    BY <1>32, <2>1, <1>0, WorkFrame DEF PrepareRetryFails
<1>33. ASSUME NEW w \in Worker, PublishRetry(w)
       PROVE  LeaseOK'
  <2>1. WorkKept
    BY <1>33, GotoWork
       DEF PublishRetry, At, Goto, End, Working, ReportStep, ImportStep
  <2> QED
    BY <1>33, <2>1, <1>0, WorkFrame DEF PublishRetry
<1>34. ASSUME NEW w \in Worker, PublishRetryFails(w)
       PROVE  LeaseOK'
  <2>1. WorkKept
    BY <1>34, GotoWork
       DEF PublishRetryFails, At, Goto, End, Working, ReportStep,
           ImportStep
  <2> QED
    BY <1>34, <2>1, <1>0, WorkFrame DEF PublishRetryFails
<1>35. ASSUME NEW w \in Worker, MarkFailed(w)
       PROVE  LeaseOK'
  <2>1. WorkKept
    BY <1>35, GotoWork
       DEF MarkFailed, At, Goto, End, Working, ReportStep, ImportStep
  <2>2. /\ exec[w].pc \notin {"idle", "retried"}
        /\ HasLease(w) => exec'[w].pc \notin Working
    BY <1>35, Busy
       DEF MarkFailed, At, Goto, End, TypeInv, ExecOK, Execution,
           Working, ReportStep, ImportStep
  <2>3. TaskOf(w) \in Task /\ exec[w].msg.job \in Job
    BY <2>2, Busy DEF TypeInv, TaskOf
  <2>4. \/ job' = job
        \/ /\ HasLease(w)
           /\ job' = [job EXCEPT ![exec[w].msg.job] = MarkedFailed(job[exec[w].msg.job], TaskOf(w), exec[w].msg.kind)]
    BY <1>35
       DEF MarkFailed, MarkedFailed, HasLease, RowOf, TaskOf, TypeInv,
           JobOK
  <2>5. ASSUME NEW v \in Worker, exec'[v].pc \in Working,
               exec[v].msg.job = exec[w].msg.job,
               exec[v].pc \in Working,
               TaskOf(v) \in Task \ misled, exec[v].age \in 0..TimeLimit,
               Held(job[exec[w].msg.job], TaskOf(v), exec[v].age),
               job[exec[w].msg.job] \in Row, HasLease(w)
        PROVE  FALSE
    <3>1. TaskOf(w) = TaskOf(v)
      BY <2>3, <2>5, HeldRow DEF HasLease, RowOf
    <3>2. v = w
      BY <2>2, <2>5, <3>1, OneWorker DEF Working, ReportStep, ImportStep
    <3> QED
      BY <2>2, <2>5, <3>2
  <2> QED
    <3>1. HasLease(w) => Preserves(exec[w].msg.job, MarkedFailed(job[exec[w].msg.job], TaskOf(w), exec[w].msg.kind))
      BY <2>5 DEF Preserves
    <3> QED
      BY <2>1, <2>3, <2>4, <3>1, <1>0, WorkRow, WorkFrame
<1>36. ASSUME NEW w \in Worker, MarkFailedFails(w)
       PROVE  LeaseOK'
  <2>1. WorkKept
    BY <1>36, GotoWork
       DEF MarkFailedFails, At, Goto, End, Working, ReportStep,
           ImportStep
  <2> QED
    BY <1>36, <2>1, <1>0, WorkFrame DEF MarkFailedFails
<1>37. ASSUME NEW w \in Worker, NEW b \in BOOLEAN, Raise(w, b)
       PROVE  LeaseOK'
  <2>1. exec[w] \in Execution
    BY <1>37, Busy DEF Raise, Working, ReportStep, ImportStep, TypeInv
  <2>2. WorkKept
    BY <1>37, <2>1 DEF Raise, WorkKept, TypeInv, ExecOK, Execution
  <2> QED
    BY <1>37, <2>2, <1>0, WorkFrame DEF Raise
<1>38. ASSUME SweepStart
       PROVE  LeaseOK'
  <2>1. WorkKept
    BY <1>38 DEF SweepStart, WorkKept
  <2> QED
    BY <1>38, <2>1, <1>0, WorkFrame DEF SweepStart
<1>39. ASSUME NEW j \in Job, SweepJob(j)
       PROVE  LeaseOK'
  <2>1. WorkKept
    BY <1>39 DEF SweepJob, WorkKept
  <2>2. sweep.since \in Nat
    BY DEF TypeInv, RestOK, Sweep
  <2>3. \/ job' = job
        \/ /\ Recoverable(job[j], sweep.since)
           /\ job' = [job EXCEPT ![j] = RecoveredRow(job[j])]
    BY <1>39 DEF SweepJob
  <2> QED
    <3>1. Recoverable(job[j], sweep.since) =>
            Preserves(j, RecoveredRow(job[j]))
      BY <2>2, HeldRow DEF Preserves
    <3> QED
      BY <2>1, <2>3, <3>1, <1>0, WorkRow, WorkFrame
<1>40. ASSUME SweepDrop
       PROVE  LeaseOK'
  <2>1. WorkKept
    BY <1>40 DEF SweepDrop, WorkKept
  <2> QED
    BY <1>40, <2>1, <1>0, WorkFrame DEF SweepDrop
<1>41. ASSUME Tick
       PROVE  LeaseOK'
  <2> SUFFICES ASSUME NEW v \in Worker, exec'[v].pc \in Working,
                      TaskOf(v)' \notin misled'
               PROVE  Held(RowOf(v)', TaskOf(v)', exec'[v].age)
    BY DEF LeaseOK
  <2>1. exec'[v] = IF exec[v].pc = "idle" THEN exec[v]
                   ELSE [exec[v] EXCEPT !.age = @ + 1]
    BY <1>41 DEF Tick, At
  <2>2. exec[v].pc # "idle"
    BY <2>1 DEF Working, ReportStep, ImportStep
  <2>3. exec[v] \in Execution
    BY <2>2, Busy DEF TypeInv
  <2>4. /\ exec'[v].pc = exec[v].pc /\ exec'[v].msg = exec[v].msg
        /\ exec'[v].age = exec[v].age + 1
    BY <2>1, <2>2, <2>3 DEF Execution
  <2>5. /\ exec[v].msg.job \in Job /\ TaskOf(v) \in Task /\ RowOf(v) \in Row
        /\ exec[v].age \in 0..TimeLimit /\ Held(RowOf(v), TaskOf(v), exec[v].age)
    BY <1>41, <2>4, Worker_Row DEF Tick, TaskOf, LeaseOK
  <2>6. RowOf(v)' = IF Exists(RowOf(v)) THEN Aged(RowOf(v)) ELSE RowOf(v)
    BY <1>41, <2>4, <2>5 DEF Tick, RowOf
  <2>7. TaskOf(v)' = TaskOf(v)
    BY <2>4 DEF TaskOf
  <2>8. CASE Exists(RowOf(v))
    BY <2>4, <2>5, <2>6, <2>7, <2>8, HeldRow
  <2>9. CASE ~Exists(RowOf(v))
    <3>1. RowOf(v).status \in {"cancelled", "deleted"}
      BY <2>5, <2>9 DEF Held, Owns, Exists
    <3> QED
      BY <2>6, <2>9, <3>1 DEF Held
  <2> QED
    BY <2>8, <2>9
<1>42. ASSUME UNCHANGED vars
       PROVE  LeaseOK'
  <2>1. WorkKept
    BY <1>42 DEF vars, WorkKept
  <2> QED
    BY <1>42, <2>1, <1>0, WorkFrame DEF vars
<1>43. ASSUME NEW w \in Worker, Ack(w)
       PROVE  LeaseOK'
  <2>1. WorkKept
    BY <1>43, EndWork DEF Ack
  <2> QED
    BY <1>43, <1>0, <2>1, WorkFrame DEF Ack
<1> QED
  BY <1>1, <1>2, <1>3, <1>4, <1>5, <1>6, <1>7, <1>8, <1>9, <1>10, <1>11,
     <1>12, <1>13, <1>14, <1>15, <1>16, <1>17, <1>18, <1>19, <1>20, <1>21,
     <1>22, <1>23, <1>24, <1>25, <1>26, <1>27, <1>28, <1>29, <1>30, <1>31,
     <1>32, <1>33, <1>34, <1>35, <1>36, <1>37, <1>38, <1>39, <1>40, <1>41,
     <1>42, <1>43
     DEF Next, Request, Enqueue, TaskStep, Outage, Failure, Recovery

LeaseInv == TypeInv /\ OneCarrier /\ LeaseOK

LEMMA LeaseInvariant == Spec => []LeaseInv
<1>1. Init => LeaseInv
  <2> SUFFICES ASSUME Init PROVE LeaseInv
    OBVIOUS
  <2>1. TypeInv
    BY InitTypeInv
  <2>2. OneCarrier
    BY DEF Init, OneCarrier, TaskOf, Carry, At, Idle, Started, NoMessage, NoCall
  <2>3. LeaseOK
    BY DEF Init, LeaseOK, Idle, Started, Working, ReportStep, ImportStep
  <2> QED
    BY <2>1, <2>2, <2>3 DEF LeaseInv
<1>2. LeaseInv /\ [Next]_vars => LeaseInv'
  BY NextTypeInv, NextCarrierMove, NextOneCarrier, NextLeaseOK DEF LeaseInv
<1> QED
  BY <1>1, <1>2, PTL DEF Spec

\* A lease is exclusive: two executions never work on a job under it, unless a
\* second message of its task went round, delivered again by the broker or left
\* by a worker that was lost between its retry and its acknowledgement
\* (claim_job).
THEOREM LeaseIsExclusive == Spec => []LeaseExclusive
<1>1. LeaseInv => LeaseExclusive
  <2> SUFFICES ASSUME LeaseInv, NEW v \in Worker, NEW w \in Worker,
                      exec[v].pc \in Working, exec[w].pc \in Working,
                      exec[v].msg.job = exec[w].msg.job,
                      HasLease(v), HasLease(w), TaskOf(w) \notin misled
               PROVE  v = w
    BY DEF LeaseExclusive
  <2>1. TaskOf(v) = TaskOf(w)
    BY DEF HasLease, RowOf, Owns
  <2>2. TaskOf(v) \in Task
    BY Worker_Row DEF LeaseInv
  <2> QED
    BY <2>1, <2>2, OneWorker DEF LeaseInv, Working, ReportStep, ImportStep
<1> QED
  BY <1>1, LeaseInvariant, PTL

\* No execution loses its lease to a claim, a retry or the sweep while it works,
\* because its heartbeat is younger than JOB_STALE_AFTER_SECONDS until the hard
\* time limit ends it, and because no other execution has its task unless a
\* second message of the task went round (core/checks.py, _is_recoverable).
THEOREM WorkingKeepsLease == Spec => []WorkingOwnsLease
<1>1. LeaseInv => WorkingOwnsLease
  BY DEF LeaseInv, LeaseOK, Held, WorkingOwnsLease, HasLease
<1> QED
  BY <1>1, LeaseInvariant, PTL

-----------------------------------------------------------------------------
(* What a job's row and its files say together.                            *)

(* What a row says to users changes in few ways.                           *)

Unsettled == {"importing", "reporting"}

\* A claim, a heartbeat, a retry, a failure, a reservation or the sweep.
RowMoves(r, s) ==
  \/ s = r
  \/ /\ PhaseOf(r) \in Unsettled
     /\ PhaseOf(s) \in {PhaseOf(r), "failed"}
     /\ s.import = r.import /\ s.file = r.file
     /\ s.payload = r.payload \/ (s.payload /\ s.status = "failed")
     /\ s.status = "done" => r.status = "done"

LEMMA RunningPhase ==
  ASSUME NEW r \in Row, r.status \in {"pending", "running"}
  PROVE  PhaseOf(r) \in Unsettled
BY DEF PhaseOf, Unsettled

LEMMA FailedMoves ==
  ASSUME NEW r \in Row, PhaseOf(r) \in Unsettled
  PROVE  RowMoves(r, Failed(r))
BY DEF RowMoves, Failed, PhaseOf, Row

LEMMA RowsMove ==
  ASSUME NEW r \in Row, NEW t \in Task
  PROVE  /\ RowMoves(r, Touched(r, t))
         /\ RowMoves(r, ReservationUndone(r, t))
         /\ MayReserve(r) => RowMoves(r, ReservedRow(r, t))
         /\ Owns(r, t) => RowMoves(r, RetryPrepared(r))
         /\ \A kind : RowMoves(r, MarkedFailed(r, t, kind))
<1>1. RowMoves(r, Touched(r, t))
  BY DEF RowMoves, Touched, Owns, PhaseOf, Row, Unsettled
<1>2. RowMoves(r, ReservationUndone(r, t))
  BY DEF RowMoves, ReservationUndone, PhaseOf, Row, Unsettled
<1>3. MayReserve(r) => RowMoves(r, ReservedRow(r, t))
  BY DEF RowMoves, ReservedRow, MayReserve, PhaseOf, Row, Unsettled
<1>4. Owns(r, t) => RowMoves(r, RetryPrepared(r))
  BY DEF RowMoves, RetryPrepared, Owns, PhaseOf, Row, Unsettled
<1>5. ASSUME NEW kind PROVE RowMoves(r, MarkedFailed(r, t, kind))
  <2>1. CASE Owns(r, t)
    <3>1. PhaseOf(r) \in Unsettled
      BY <2>1, RunningPhase DEF Owns
    <3>2. /\ MarkedFailed(r, t, kind).status = "failed"
          /\ MarkedFailed(r, t, kind).import = r.import
          /\ MarkedFailed(r, t, kind).file = r.file
      BY <2>1 DEF MarkedFailed, Failed, Row
    <3>3. \/ MarkedFailed(r, t, kind).payload = r.payload
          \/ MarkedFailed(r, t, kind).payload
      BY <2>1 DEF MarkedFailed, Failed, Row
    <3> QED
      BY <3>1, <3>2, <3>3 DEF RowMoves, PhaseOf
  <2>2. CASE ~Owns(r, t)
    BY <2>2 DEF MarkedFailed, RowMoves
  <2> QED
    BY <2>1, <2>2
<1> QED
  BY <1>1, <1>2, <1>3, <1>4, <1>5

LEMMA RecoveryMoves ==
  ASSUME NEW r \in Row, NEW since, Recoverable(r, since)
  PROVE  RowMoves(r, RecoveredRow(r))
<1>1. \/ r.status \in {"pending", "running"}
      \/ r.status = "done" /\ r.payload /\ r.file = NoTask
  BY DEF Recoverable, ImportHandoff
<1>2. PhaseOf(r) \in Unsettled
  BY <1>1 DEF PhaseOf, Unsettled
<1>3. CASE r.attempts >= MaxAttempts
  BY <1>2, <1>3, FailedMoves DEF RecoveredRow
<1>4. CASE ~(r.attempts >= MaxAttempts)
  BY <1>1, <1>2, <1>4 DEF RecoveredRow, RowMoves, PhaseOf, Row, Unsettled
<1> QED
  BY <1>3, <1>4

LEMMA ClaimMoves ==
  ASSUME NEW r \in Row, NEW t \in Task, NEW b \in BOOLEAN, Exists(r)
  PROVE  RowMoves(r, ClaimedRow(r, t, b))
<1>1. CASE ClaimReason(r, t, b) \in {"claimed", "redelivery", "attempts_exhausted"}
  <2>1. \/ r.status \in {"pending", "running"}
        \/ r.status = "done" /\ r.payload /\ r.file = NoTask
    BY <1>1 DEF ClaimReason, Exists, ImportHandoff, Owns, Reserved, Row, Status
  <2>2. PhaseOf(r) \in Unsettled
    BY <2>1 DEF PhaseOf, Unsettled
  <2>3. CASE ClaimReason(r, t, b) = "claimed"
    <3>1. ClaimedRow(r, t, b) = [r EXCEPT !.status = "running", !.owner = t,
                                          !.hb = 0, !.attempts = @ + 1]
      BY <2>3 DEF ClaimedRow
    <3> QED
      BY <2>1, <2>2, <3>1 DEF RowMoves, PhaseOf, Row, Unsettled
  <2>4. CASE ClaimReason(r, t, b) = "redelivery"
    <3>1. /\ ClaimedRow(r, t, b).status = r.status
          /\ ClaimedRow(r, t, b).import = r.import
          /\ ClaimedRow(r, t, b).payload = r.payload
          /\ ClaimedRow(r, t, b).file = r.file
      BY <2>4 DEF ClaimedRow, Row
    <3> QED
      BY <2>2, <3>1 DEF RowMoves, PhaseOf
  <2>5. CASE ClaimReason(r, t, b) = "attempts_exhausted"
    <3>1. ClaimedRow(r, t, b) = Failed(r)
      BY <2>5 DEF ClaimedRow
    <3> QED
      BY <2>2, <3>1, FailedMoves
  <2> QED
    BY <1>1, <2>3, <2>4, <2>5
<1>2. CASE ClaimReason(r, t, b)
             \notin {"claimed", "redelivery", "attempts_exhausted"}
  BY <1>2 DEF ClaimedRow, RowMoves
<1> QED
  BY <1>1, <1>2

-----------------------------------------------------------------------------
(* Every step changes rows and objects in one of these ways.               *)

RowChange(j, s) ==
  /\ RowMoves(job[j], s)
  /\ job' = [job EXCEPT ![j] = s]
  /\ UNCHANGED <<store, deleting, misled>>

ObjectAdded(w) ==
  /\ SaveObject(w) \/ SaveUnacknowledged(w)
  /\ exec[w].pc = "save"
  /\ store' = [store EXCEPT ![exec[w].msg.job] = @ \union {TaskOf(w)}]
  /\ UNCHANGED <<job, deleting, misled>>

ObjectDropped(w) ==
  /\ exec[w].pc \in {"discard", "undo"}
  /\ store' = [store EXCEPT ![exec[w].msg.job] = @ \ {TaskOf(w)}]
  /\ UNCHANGED <<job, deleting, misled>>

\* Tasks are misled by steps that change nothing else, or by a finish.
BookMove ==
  \/ /\ UNCHANGED <<job, store, deleting>>
     /\ misled' = misled \/ \E t \in Task : misled' = misled \union {t}
  \/ \E j \in Job :
       \/ \E s : RowChange(j, s)
       \/ CreateJob(j) \/ CancelImport(j)
       \/ DestroyObject(j) \/ RetireObject(j) \/ DeleteRow(j)
  \/ \E w \in Worker : \/ Finish(w) \/ FinishUnacknowledged(w) \/ Handoff(w)
                       \/ ObjectAdded(w) \/ ObjectDropped(w)
  \/ Tick

LEMMA NextBookMove ==
  ASSUME TypeInv, [Next]_vars
  PROVE  BookMove
<1>1. ASSUME NEW j \in Job, CreateJob(j)
      PROVE  BookMove
  BY <1>1 DEF BookMove
<1>2. ASSUME NEW j \in Job, CancelImport(j)
      PROVE  BookMove
  BY <1>2 DEF BookMove
<1>3. ASSUME NEW j \in Job, CancelCleanup(j)
      PROVE  BookMove
  BY <1>3 DEF CancelCleanup, BookMove
<1>4. ASSUME NEW j \in Job, DestroyObject(j)
      PROVE  BookMove
  BY <1>4 DEF BookMove
<1>5. ASSUME NEW j \in Job, RetireObject(j)
      PROVE  BookMove
  BY <1>5 DEF BookMove
<1>6. ASSUME NEW j \in Job, DeleteRow(j)
      PROVE  BookMove
  BY <1>6 DEF BookMove
<1>7. ASSUME NEW c \in Caller, Reserve(c)
      PROVE  BookMove
  <2>1. enq[c].job \in Job
    BY <1>7, InCall DEF Reserve, TypeInv
  <2>2. PICK t \in Task :
          job' = [job EXCEPT ![enq[c].job] = ReservedRow(job[enq[c].job], t)]
    BY <1>7 DEF Reserve
  <2>3. RowMoves(job[enq[c].job], ReservedRow(job[enq[c].job], t))
    BY <1>7, <2>1, RowsMove DEF Reserve, TypeInv, JobOK
  <2> QED
    BY <1>7, <2>1, <2>2, <2>3 DEF Reserve, BookMove, RowChange
<1>8. ASSUME NEW c \in Caller, ReserveRefused(c)
      PROVE  BookMove
  BY <1>8 DEF ReserveRefused, BookMove
<1>9. ASSUME NEW c \in Caller, ReserveMissing(c)
      PROVE  BookMove
  BY <1>9 DEF ReserveMissing, BookMove
<1>10. ASSUME NEW c \in Caller, Send(c)
       PROVE  BookMove
  BY <1>10 DEF Send, BookMove
<1>11. ASSUME NEW c \in Caller, SendFails(c)
       PROVE  BookMove
  <2>1. enq[c].job \in Job /\ enq[c].task \in Task
    BY <1>11, InCall DEF SendFails, TypeInv
  <2>2. RowMoves(job[enq[c].job],
                 ReservationUndone(job[enq[c].job], enq[c].task))
    BY <2>1, RowsMove DEF TypeInv, JobOK
  <2> QED
    BY <1>11, <2>1, <2>2 DEF SendFails, BookMove, RowChange
<1>12. ASSUME NEW c \in Caller, CallerCrash(c)
       PROVE  BookMove
  BY <1>12 DEF CallerCrash, BookMove
<1>13. ASSUME NEW w \in Worker, NEW m \in queue, Deliver(w, m)
       PROVE  BookMove
  <2>1. m \in Message /\ m.task \in Task /\ m.job \in Job /\ m.redelivered \in BOOLEAN
    BY QueueTask DEF Message
  <2>2. Exists(job[m.job]) =>
          RowMoves(job[m.job], ClaimedRow(job[m.job], m.task, m.redelivered))
    BY <2>1, ClaimMoves DEF TypeInv, JobOK
  <2> QED
    BY <1>13, <2>1, <2>2 DEF Deliver, BookMove, RowChange
<1>14. ASSUME NEW w \in Worker, NEW m \in queue, DeliverFails(w, m)
       PROVE  BookMove
  BY <1>14 DEF DeliverFails, BookMove
<1>15. ASSUME NEW w \in Worker, Crash(w)
       PROVE  BookMove
  BY <1>15, Busy DEF Crash, BookMove, TypeInv
<1>16. ASSUME NEW w \in Worker, HardLimit(w)
       PROVE  BookMove
  BY <1>16 DEF HardLimit, BookMove
<1>17. ASSUME NEW w \in Worker, Redeliver(w)
       PROVE  BookMove
  BY <1>17, Busy DEF Redeliver, BookMove, TypeInv
<1>18. ASSUME NEW w \in Worker, Phase(w)
       PROVE  BookMove
  <2>1. exec[w].msg.job \in Job /\ TaskOf(w) \in Task
    BY <1>18, Busy DEF Phase, At, TaskOf, TypeInv, AfterLease
  <2>2. RowMoves(job[exec[w].msg.job],
                 Touched(job[exec[w].msg.job], TaskOf(w)))
    BY <1>18, <2>1, RowsMove DEF TypeInv, JobOK
  <2> QED
    BY <1>18, <2>1, <2>2 DEF Phase, BookMove, RowChange
<1>19. ASSUME NEW w \in Worker, SaveObject(w)
       PROVE  BookMove
  BY <1>19 DEF SaveObject, At, BookMove, ObjectAdded
<1>20. ASSUME NEW w \in Worker, SaveUnacknowledged(w)
       PROVE  BookMove
  BY <1>20 DEF SaveUnacknowledged, At, BookMove, ObjectAdded
<1>21. ASSUME NEW w \in Worker, Finish(w)
       PROVE  BookMove
  BY <1>21 DEF BookMove
<1>22. ASSUME NEW w \in Worker, FinishUnacknowledged(w)
       PROVE  BookMove
  BY <1>22 DEF BookMove
<1>23. ASSUME NEW w \in Worker, DeleteObject(w)
       PROVE  BookMove
  BY <1>23 DEF DeleteObject, BookMove, ObjectDropped
<1>24. ASSUME NEW w \in Worker, DeleteObjectFails(w)
       PROVE  BookMove
  BY <1>24 DEF DeleteObjectFails, BookMove
<1>25. ASSUME NEW w \in Worker, LoadFile(w)
       PROVE  BookMove
  BY <1>25 DEF LoadFile, BookMove
<1>26. ASSUME NEW w \in Worker, RowsDone(w)
       PROVE  BookMove
  BY <1>26 DEF RowsDone, BookMove
<1>27. ASSUME NEW w \in Worker, Refresh(w)
       PROVE  BookMove
  BY <1>27 DEF Refresh, BookMove
<1>28. ASSUME NEW w \in Worker, CheckRows(w)
       PROVE  BookMove
  <2>1. exec[w].msg.job \in Job /\ TaskOf(w) \in Task
    BY <1>28, Busy DEF CheckRows, At, TaskOf, TypeInv
  <2>2. RowMoves(job[exec[w].msg.job],
                 Touched(job[exec[w].msg.job], TaskOf(w)))
    BY <1>28, <2>1, RowsMove DEF TypeInv, JobOK
  <2> QED
    BY <1>28, <2>1, <2>2 DEF CheckRows, BookMove, RowChange
<1>29. ASSUME NEW w \in Worker, Handoff(w)
       PROVE  BookMove
  BY <1>29 DEF BookMove
<1>30. ASSUME NEW w \in Worker, DropUpload(w)
       PROVE  BookMove
  BY <1>30 DEF DropUpload, BookMove
<1>31. ASSUME NEW w \in Worker, PrepareRetry(w)
       PROVE  BookMove
  <2>1. exec[w].msg.job \in Job /\ TaskOf(w) \in Task
    BY <1>31, Busy DEF PrepareRetry, At, TaskOf, TypeInv
  <2>2. Owns(RowOf(w), TaskOf(w)) =>
          RowMoves(job[exec[w].msg.job], RetryPrepared(job[exec[w].msg.job]))
    BY <2>1, RowsMove DEF RowOf, TypeInv, JobOK
  <2> QED
    BY <1>31, <2>1, <2>2 DEF PrepareRetry, MayRetry, BookMove, RowChange
<1>32. ASSUME NEW w \in Worker, PrepareRetryFails(w)
       PROVE  BookMove
  BY <1>32 DEF PrepareRetryFails, BookMove
<1>33. ASSUME NEW w \in Worker, PublishRetry(w)
       PROVE  BookMove
  BY <1>33 DEF PublishRetry, BookMove
<1>34. ASSUME NEW w \in Worker, PublishRetryFails(w)
       PROVE  BookMove
  BY <1>34 DEF PublishRetryFails, BookMove
<1>35. ASSUME NEW w \in Worker, MarkFailed(w)
       PROVE  BookMove
  <2>1. exec[w].msg.job \in Job /\ TaskOf(w) \in Task
    BY <1>35, Busy DEF MarkFailed, At, TaskOf, TypeInv
  <2>2. RowMoves(job[exec[w].msg.job],
                 MarkedFailed(job[exec[w].msg.job], TaskOf(w),
                              exec[w].msg.kind))
    BY <1>35, <2>1, RowsMove DEF TypeInv, JobOK
  <2> QED
    BY <1>35, <2>1, <2>2 DEF MarkFailed, TaskOf, BookMove, RowChange
<1>36. ASSUME NEW w \in Worker, MarkFailedFails(w)
       PROVE  BookMove
  BY <1>36 DEF MarkFailedFails, BookMove
<1>37. ASSUME NEW w \in Worker, NEW b \in BOOLEAN, Raise(w, b)
       PROVE  BookMove
  BY <1>37 DEF Raise, BookMove
<1>38. ASSUME SweepStart
       PROVE  BookMove
  BY <1>38 DEF SweepStart, BookMove
<1>39. ASSUME NEW j \in Job, SweepJob(j)
       PROVE  BookMove
  <2>1. Recoverable(job[j], sweep.since) =>
          RowMoves(job[j], RecoveredRow(job[j]))
    BY RecoveryMoves DEF TypeInv, JobOK
  <2> QED
    BY <1>39, <2>1 DEF SweepJob, BookMove, RowChange
<1>40. ASSUME SweepDrop
       PROVE  BookMove
  BY <1>40 DEF SweepDrop, BookMove
<1>41. ASSUME Tick
       PROVE  BookMove
  BY <1>41 DEF BookMove
<1>42. ASSUME UNCHANGED vars
       PROVE  BookMove
  BY <1>42 DEF vars, BookMove
<1>43. ASSUME NEW w \in Worker, Ack(w)
       PROVE  BookMove
  BY <1>43 DEF Ack, BookMove
<1> QED
  BY <1>1, <1>2, <1>3, <1>4, <1>5, <1>6, <1>7, <1>8, <1>9, <1>10, <1>11,
     <1>12, <1>13, <1>14, <1>15, <1>16, <1>17, <1>18, <1>19, <1>20, <1>21,
     <1>22, <1>23, <1>24, <1>25, <1>26, <1>27, <1>28, <1>29, <1>30, <1>31,
     <1>32, <1>33, <1>34, <1>35, <1>36, <1>37, <1>38, <1>39, <1>40, <1>41,
     <1>42, <1>43
     DEF Next, Request, Enqueue, TaskStep, Outage, Failure, Recovery

-----------------------------------------------------------------------------
(* Every step moves an execution in one of these ways: it is free again, it *)
(* goes on with its message, or it starts with a waiting one.               *)

\* The steps a task may go on to from another, as far as they matter below: a
\* task that is done only waits, and one that is not building a report never
\* comes to build one.
Follows(q, p) ==
  /\ q \notin {"idle", "retried", "ack"}
  /\ q = "publish" => p \in {"retried", "ack"}
  /\ p # "finish"
  /\ p \in ReportStep => q \in ReportStep

Continues(v) ==
  /\ exec[v].pc # "idle"
  /\ exec'[v].msg = exec[v].msg
  /\ \/ exec'[v].pc = exec[v].pc
     \/ Follows(exec[v].pc, exec'[v].pc)
     \/ exec'[v].pc = "finish" /\ SaveObject(v)

Begins(v) ==
  /\ exec'[v].msg \in queue
  /\ exec'[v].pc # "finish"
  /\ exec'[v].pc \in ReportStep => exec'[v].msg.kind = "report"
  /\ \/ exec'[v].pc \in {"publish", "ack"}
     \/ job[exec'[v].msg.job].status # "done"
     \/ job[exec'[v].msg.job].file = NoTask

ExecMove ==
  \A v \in Worker : exec'[v] \in {exec[v], Idle} \/ Continues(v) \/ Begins(v)

LEMMA StayMove ==
  ASSUME UNCHANGED exec
  PROVE  ExecMove
BY DEF ExecMove

LEMMA EndMove ==
  ASSUME TypeInv, NEW w \in Worker, exec' = [exec EXCEPT ![w] = Idle]
  PROVE  ExecMove
BY DEF ExecMove, TypeInv, ExecOK

LEMMA FlagMove ==
  ASSUME TypeInv, NEW w \in Worker, NEW p, NEW b, Follows(exec[w].pc, p),
         \/ exec' = [exec EXCEPT ![w].pc = p]
         \/ exec' = [exec EXCEPT ![w].pc = p, ![w].transient = b]
  PROVE  ExecMove
<1>1. exec[w] \in Execution /\ exec[w].pc # "idle"
  BY Busy DEF TypeInv, Follows
<1>2. exec'[w].pc = p /\ exec'[w].msg = exec[w].msg
  BY <1>1 DEF TypeInv, ExecOK, Execution
<1>3. \A v \in Worker \ {w} : exec'[v] = exec[v]
  BY DEF TypeInv, ExecOK
<1> QED
  BY <1>1, <1>2, <1>3 DEF ExecMove, Continues

LEMMA GotoMove ==
  ASSUME TypeInv, NEW w \in Worker, NEW p, Follows(exec[w].pc, p), Goto(w, p)
  PROVE  ExecMove
BY FlagMove DEF Goto

LEMMA ReturnMove ==
  ASSUME TypeInv, NEW c \in Caller, Return(c),
         Calling(c) \/ enq[c].task # NoTask
  PROVE  ExecMove
<1>1. CASE c \in Worker
  <2>1. exec[c].pc = "enqueue"
    BY <1>1 DEF TypeInv, CallsOK, Calling, NoCall
  <2> QED
    BY <1>1, <2>1, GotoMove DEF Return, Follows, ReportStep
<1>2. CASE c \notin Worker
  BY <1>2, StayMove DEF Return
<1> QED
  BY <1>1, <1>2

LEMMA StartMove ==
  ASSUME TypeInv, NEW w \in Worker, NEW m \in queue, NEW p, p # "finish",
         p \in ReportStep => m.kind = "report",
         \/ p \in {"publish", "ack"}
         \/ job[m.job].status # "done"
         \/ job[m.job].file = NoTask,
         Begin(w, m, p)
  PROVE  ExecMove
<1>1. exec'[w].pc = p /\ exec'[w].msg = m
  BY DEF TypeInv, ExecOK, Started, Begin
<1>2. \A v \in Worker \ {w} : exec'[v] = exec[v]
  BY DEF TypeInv, ExecOK, Begin
<1> QED
  BY <1>1, <1>2 DEF ExecMove, Begins

\* A published job is not claimed again.
LEMMA PublishedRefused ==
  ASSUME NEW r \in Row, NEW t, NEW b, r.status = "done", r.file # NoTask
  PROVE  /\ ~IsClaim(ClaimReason(r, t, b))
         /\ ClaimedRow(r, t, b) = r
<1>1. ClaimReason(r, t, b) = "completed"
  BY DEF ClaimReason, ImportHandoff, Owns, Reserved
<1> QED
  BY <1>1 DEF IsClaim, ClaimedRow

LEMMA NextExecMove ==
  ASSUME TypeInv, [Next]_vars
  PROVE  ExecMove
<1>1. ASSUME NEW j \in Job, CreateJob(j)
      PROVE  ExecMove
  BY <1>1, StayMove DEF CreateJob
<1>2. ASSUME NEW j \in Job, CancelImport(j)
      PROVE  ExecMove
  BY <1>2, StayMove DEF CancelImport
<1>3. ASSUME NEW j \in Job, CancelCleanup(j)
      PROVE  ExecMove
  BY <1>3, StayMove DEF CancelCleanup
<1>4. ASSUME NEW j \in Job, DestroyObject(j)
      PROVE  ExecMove
  BY <1>4, StayMove DEF DestroyObject
<1>5. ASSUME NEW j \in Job, RetireObject(j)
      PROVE  ExecMove
  BY <1>5, StayMove DEF RetireObject
<1>6. ASSUME NEW j \in Job, DeleteRow(j)
      PROVE  ExecMove
  BY <1>6, StayMove DEF DeleteRow
<1>7. ASSUME NEW c \in Caller, Reserve(c)
      PROVE  ExecMove
  BY <1>7, StayMove DEF Reserve
<1>8. ASSUME NEW c \in Caller, ReserveRefused(c)
      PROVE  ExecMove
  BY <1>8, ReturnMove DEF ReserveRefused
<1>9. ASSUME NEW c \in Caller, ReserveMissing(c)
      PROVE  ExecMove
  BY <1>9, ReturnMove DEF ReserveMissing
<1>10. ASSUME NEW c \in Caller, Send(c)
       PROVE  ExecMove
  BY <1>10, ReturnMove DEF Send
<1>11. ASSUME NEW c \in Caller, SendFails(c)
       PROVE  ExecMove
  BY <1>11, ReturnMove DEF SendFails
<1>12. ASSUME NEW c \in Caller, CallerCrash(c)
       PROVE  ExecMove
  BY <1>12, StayMove DEF CallerCrash
<1>13. ASSUME NEW w \in Worker, NEW m \in queue, Deliver(w, m)
       PROVE  ExecMove
  <2> DEFINE r == job[m.job]
             reason == ClaimReason(r, m.task, m.redelivered)
             row == ClaimedRow(r, m.task, m.redelivered)
  <2>1. m.job \in Job /\ r \in Row
    BY QueueTask DEF TypeInv, JobOK
  <2>2. r.status = "done" /\ r.file # NoTask => ~IsClaim(reason) /\ row = r
    BY <2>1, PublishedRefused
  <2>3. \/ Begin(w, m, "ack")
        \/ Begin(w, m, Starts(m, r)) /\ IsClaim(reason)
        \/ Begin(w, m, "drop") /\ row.status \in {"cancelled", "failed"}
    BY <1>13 DEF Deliver, DropsUpload
  <2>4. /\ Starts(m, r) # "finish"
        /\ Starts(m, r) \in ReportStep => m.kind = "report"
    BY DEF Starts, ReportStep
  <2> HIDE DEF reason, row
  <2>5. CASE Begin(w, m, "ack")
    BY <2>5, StartMove DEF ReportStep
  <2>6. CASE Begin(w, m, Starts(m, r)) /\ IsClaim(reason)
    BY <2>2, <2>4, <2>6, StartMove
  <2>7. CASE Begin(w, m, "drop") /\ row.status \in {"cancelled", "failed"}
    BY <2>2, <2>7, StartMove DEF ReportStep
  <2> QED
    BY <2>3, <2>5, <2>6, <2>7
<1>14. ASSUME NEW w \in Worker, NEW m \in queue, DeliverFails(w, m)
       PROVE  ExecMove
  BY <1>14, StartMove DEF DeliverFails, ReportStep
<1>15. ASSUME NEW w \in Worker, Crash(w)
       PROVE  ExecMove
  BY <1>15, EndMove DEF Crash
<1>16. ASSUME NEW w \in Worker, HardLimit(w)
       PROVE  ExecMove
  BY <1>16, EndMove DEF HardLimit
<1>17. ASSUME NEW w \in Worker, Redeliver(w)
       PROVE  ExecMove
  BY <1>17, StayMove DEF Redeliver
<1>18. ASSUME NEW w \in Worker, Phase(w)
       PROVE  ExecMove
  <2>1. \E p \in {"ack", "render", "workbook", "save"} : Goto(w, p) /\ Follows(exec[w].pc, p)
    BY <1>18 DEF Phase, At, End, Follows, ReportStep, AfterLease
  <2> QED
    BY <2>1, GotoMove
<1>19. ASSUME NEW w \in Worker, SaveObject(w)
       PROVE  ExecMove
  <2>1. exec[w] \in Execution /\ exec[w].pc = "save"
    BY <1>19, Busy DEF SaveObject, At, TypeInv
  <2>2. exec'[w].msg = exec[w].msg /\ exec'[w].pc = "finish"
    BY <1>19, <2>1 DEF SaveObject, TypeInv, ExecOK, Execution
  <2>3. \A v \in Worker \ {w} : exec'[v] = exec[v]
    BY <1>19 DEF SaveObject, TypeInv, ExecOK
  <2> QED
    BY <1>19, <2>1, <2>2, <2>3 DEF ExecMove, Continues
<1>20. ASSUME NEW w \in Worker, SaveUnacknowledged(w)
       PROVE  ExecMove
  <2>1. Follows(exec[w].pc, Settle(w, TRUE))
    BY <1>20 DEF SaveUnacknowledged, At, Settle, Follows, ReportStep
  <2> QED
    BY <1>20, <2>1, FlagMove DEF SaveUnacknowledged
<1>21. ASSUME NEW w \in Worker, Finish(w)
       PROVE  ExecMove
  <2>1. \E p \in {"ack", "discard", "undo"} : Goto(w, p) /\ Follows(exec[w].pc, p)
    BY <1>21 DEF Finish, At, End, Follows, ReportStep
  <2> QED
    BY <2>1, GotoMove
<1>22. ASSUME NEW w \in Worker, FinishUnacknowledged(w)
       PROVE  ExecMove
  <2>1. Follows(exec[w].pc, "undo")
    BY <1>22 DEF FinishUnacknowledged, At, Follows, ReportStep
  <2> QED
    BY <1>22, <2>1, FlagMove DEF FinishUnacknowledged
<1>23. ASSUME NEW w \in Worker, DeleteObject(w)
       PROVE  ExecMove
  <2>1. \E p \in {"ack", "retry", "fail"} : Goto(w, p) /\ Follows(exec[w].pc, p)
    BY <1>23 DEF DeleteObject, At, End, Follows, ReportStep, AfterDelete, Settle
  <2> QED
    BY <2>1, GotoMove
<1>24. ASSUME NEW w \in Worker, DeleteObjectFails(w)
       PROVE  ExecMove
  <2>1. \E p \in {"ack", "retry", "fail"} : Goto(w, p) /\ Follows(exec[w].pc, p)
    BY <1>24 DEF DeleteObjectFails, At, End, Follows, ReportStep, AfterDelete, Settle
  <2> QED
    BY <2>1, GotoMove
<1>25. ASSUME NEW w \in Worker, LoadFile(w)
       PROVE  ExecMove
  <2>1. \E p \in {"rows", "fail"} : Goto(w, p) /\ Follows(exec[w].pc, p)
    BY <1>25 DEF LoadFile, At, End, Follows, ReportStep
  <2> QED
    BY <2>1, GotoMove
<1>26. ASSUME NEW w \in Worker, RowsDone(w)
       PROVE  ExecMove
  <2>1. \E p \in {"refresh"} : Goto(w, p) /\ Follows(exec[w].pc, p)
    BY <1>26 DEF RowsDone, At, End, Follows, ReportStep
  <2> QED
    BY <2>1, GotoMove
<1>27. ASSUME NEW w \in Worker, Refresh(w)
       PROVE  ExecMove
  <2>1. \E p \in {"drop", "fail", "handoff"} : Goto(w, p) /\ Follows(exec[w].pc, p)
    BY <1>27 DEF Refresh, At, End, Follows, ReportStep
  <2> QED
    BY <2>1, GotoMove
<1>28. ASSUME NEW w \in Worker, CheckRows(w)
       PROVE  ExecMove
  <2>1. exec' = exec \/ \E p \in {"refresh", "fail", "ack"} : Goto(w, p)
    BY <1>28 DEF CheckRows, End
  <2>2. \A p \in {"refresh", "fail", "ack"} : Follows(exec[w].pc, p)
    BY <1>28 DEF CheckRows, At, Follows, ReportStep
  <2> QED
    BY <2>1, <2>2, GotoMove, StayMove
<1>29. ASSUME NEW w \in Worker, Handoff(w)
       PROVE  ExecMove
  <2>1. \E p \in {"ack", "handed"} : Goto(w, p) /\ Follows(exec[w].pc, p)
    BY <1>29 DEF Handoff, At, End, Follows, ReportStep
  <2> QED
    BY <2>1, GotoMove
<1>30. ASSUME NEW w \in Worker, DropUpload(w)
       PROVE  ExecMove
  <2>1. \E p \in {"ack", "enqueue"} : Goto(w, p) /\ Follows(exec[w].pc, p)
    BY <1>30 DEF DropUpload, At, End, Follows, ReportStep
  <2> QED
    BY <2>1, GotoMove
<1>31. ASSUME NEW w \in Worker, PrepareRetry(w)
       PROVE  ExecMove
  <2>1. \E p \in {"publish", "fail"} : Goto(w, p) /\ Follows(exec[w].pc, p)
    BY <1>31 DEF PrepareRetry, At, End, Follows, ReportStep
  <2> QED
    BY <2>1, GotoMove
<1>32. ASSUME NEW w \in Worker, PrepareRetryFails(w)
       PROVE  ExecMove
  <2>1. \E p \in {"publish"} : Goto(w, p) /\ Follows(exec[w].pc, p)
    BY <1>32 DEF PrepareRetryFails, At, End, Follows, ReportStep
  <2> QED
    BY <2>1, GotoMove
<1>33. ASSUME NEW w \in Worker, PublishRetry(w)
       PROVE  ExecMove
  <2>1. \E p \in {"retried"} : Goto(w, p) /\ Follows(exec[w].pc, p)
    BY <1>33 DEF PublishRetry, At, End, Follows, ReportStep
  <2> QED
    BY <2>1, GotoMove
<1>34. ASSUME NEW w \in Worker, PublishRetryFails(w)
       PROVE  ExecMove
  <2>1. \E p \in {"retried", "ack"} : Goto(w, p) /\ Follows(exec[w].pc, p)
    BY <1>34 DEF PublishRetryFails, At, End, Follows, ReportStep
  <2> QED
    BY <2>1, GotoMove
<1>35. ASSUME NEW w \in Worker, MarkFailed(w)
       PROVE  ExecMove
  <2>1. \E p \in {"drop", "ack"} : Goto(w, p) /\ Follows(exec[w].pc, p)
    BY <1>35 DEF MarkFailed, At, End, Follows, ReportStep
  <2> QED
    BY <2>1, GotoMove
<1>36. ASSUME NEW w \in Worker, MarkFailedFails(w)
       PROVE  ExecMove
  <2>1. \E p \in {"ack"} : Goto(w, p) /\ Follows(exec[w].pc, p)
    BY <1>36 DEF MarkFailedFails, At, End, Follows, ReportStep
  <2> QED
    BY <2>1, GotoMove
<1>37. ASSUME NEW w \in Worker, NEW b \in BOOLEAN, Raise(w, b)
       PROVE  ExecMove
  <2>1. \E p \in {"undo", "retry", "fail"}, t \in BOOLEAN :
          exec' = [exec EXCEPT ![w].pc = p, ![w].transient = t]
    BY <1>37 DEF Raise, Settle
  <2>2. \A p \in {"undo", "retry", "fail"} : Follows(exec[w].pc, p)
    BY <1>37 DEF Raise, Follows, Working, ReportStep, ImportStep
  <2> QED
    BY <2>1, <2>2, FlagMove
<1>38. ASSUME SweepStart
       PROVE  ExecMove
  BY <1>38, StayMove DEF SweepStart
<1>39. ASSUME NEW j \in Job, SweepJob(j)
       PROVE  ExecMove
  BY <1>39, StayMove DEF SweepJob
<1>40. ASSUME SweepDrop
       PROVE  ExecMove
  BY <1>40, StayMove DEF SweepDrop
<1>41. ASSUME Tick
       PROVE  ExecMove
  <2>1. \A v \in Worker : \/ exec'[v] = exec[v]
                          \/ /\ exec[v].pc # "idle"
                             /\ exec'[v] = [exec[v] EXCEPT !.age = @ + 1]
    BY <1>41 DEF Tick, At
  <2>2. \A v \in Worker : \/ exec'[v] = exec[v]
                          \/ /\ exec[v].pc # "idle"
                             /\ exec'[v].pc = exec[v].pc
                             /\ exec'[v].msg = exec[v].msg
    <3>1. \A v \in Worker : exec[v] \in Execution \/ exec[v] = Idle
      BY DEF TypeInv, ExecOK
    <3> QED
      BY <2>1, <3>1 DEF Execution, Idle, Started
  <2> QED
    BY <2>2 DEF ExecMove, Continues
<1>42. ASSUME UNCHANGED vars
       PROVE  ExecMove
  BY <1>42, StayMove DEF vars
<1>43. ASSUME NEW w \in Worker, Ack(w)
       PROVE  ExecMove
  BY <1>43, EndMove DEF Ack
<1> QED
  BY <1>1, <1>2, <1>3, <1>4, <1>5, <1>6, <1>7, <1>8, <1>9, <1>10, <1>11,
     <1>12, <1>13, <1>14, <1>15, <1>16, <1>17, <1>18, <1>19, <1>20, <1>21,
     <1>22, <1>23, <1>24, <1>25, <1>26, <1>27, <1>28, <1>29, <1>30, <1>31,
     <1>32, <1>33, <1>34, <1>35, <1>36, <1>37, <1>38, <1>39, <1>40, <1>41,
     <1>42, <1>43
     DEF Next, Request, Enqueue, TaskStep, Outage, Failure, Recovery

-----------------------------------------------------------------------------
(* Invariants of the refinement.                                           *)

\* A task belongs to one job, that of its messages, executions and calls, and of
\* the workbook that is named after it.
Mention(t, j) ==
  \/ \E m \in queue : m.task = t /\ m.job = j
  \/ \E w \in Worker : TaskOf(w) = t /\ exec[w].msg.job = j
  \/ \E c \in Caller : enq[c].task = t /\ enq[c].job = j
  \/ job[j].file = t

OneJob == \A t \in Task : \A i, j \in Job : Mention(t, i) /\ Mention(t, j) => i = j

FileDone == \A j \in Job : job[j].file # NoTask => job[j].status = "done"

\* The task of a published workbook is done with it, unless it was misled.
PublishedQuiet ==
  \A j \in Job : job[j].file \notin misled \union {NoTask} =>
    /\ \A w \in Worker :
         TaskOf(w) = job[j].file => exec[w].pc \in {"publish", "retried", "ack"}
    /\ \A c \in Caller : enq[c].task # job[j].file

\* An execution about to finish has stored its workbook.
SavedOK ==
  \A w \in Worker : exec[w].pc = "finish" /\ TaskOf(w) \notin misled =>
    TaskOf(w) \in store[exec[w].msg.job]

RowShape ==
  \A j \in Job : /\ job[j].import = (j \in Imports)
                 /\ job[j].status = "absent" => ~job[j].payload

\* A report is only made of a job whose rows, if it has any, are committed.
Ready(r) == ~r.import \/ r.payload \/ r.status = "deleted"

KindOK ==
  /\ \A m \in queue : m.kind = "report" => Ready(job[m.job])
  /\ \A w \in Worker :
       /\ exec[w].pc \in ReportStep => exec[w].msg.kind = "report"
       /\ exec[w].pc # "idle" /\ exec[w].msg.kind = "report" => Ready(RowOf(w))
  /\ \A c \in Caller :
       enq[c].task # NoTask /\ enq[c].kind = "report" => Ready(job[enq[c].job])

RefInv == /\ TypeInv /\ OneCarrier /\ OneJob /\ PublishedQuiet /\ SavedOK
          /\ RowShape /\ FileDone /\ KindOK /\ DoneFileStored

Submitted(r) == [r EXCEPT !.status = "pending"]

LEMMA RowFields ==
  ASSUME NEW r \in Row, NEW t
  PROVE  /\ /\ Cancelled(r).status = "cancelled"
            /\ Cancelled(r).import = r.import
            /\ Cancelled(r).payload = r.payload
            /\ Cancelled(r).file = r.file
         /\ /\ Completed(r, t).status = "done"
            /\ Completed(r, t).import = r.import
            /\ Completed(r, t).payload = r.payload
            /\ Completed(r, t).file = t
         /\ /\ HandedOff(r).status = "pending"
            /\ HandedOff(r).import = r.import
            /\ HandedOff(r).payload
            /\ HandedOff(r).file = r.file
         /\ /\ Submitted(r).status = "pending"
            /\ Submitted(r).import = r.import
            /\ Submitted(r).payload = r.payload
            /\ Submitted(r).file = r.file
         /\ /\ Aged(r).status = r.status
            /\ Aged(r).import = r.import
            /\ Aged(r).payload = r.payload
            /\ Aged(r).file = r.file
BY DEF Row, Cancelled, Completed, HandedOff, Aged, Submitted

\* The one row that each of these actions changes.
LEMMA RowChanged ==
  ASSUME TypeInv
  PROVE  /\ \A k \in Job : CreateJob(k) =>
              /\ job[k].status = "absent"
              /\ job' = [job EXCEPT ![k] = Submitted(job[k])]
         /\ \A k \in Job : CancelImport(k) =>
              /\ job[k].status \in {"pending", "running"}
              /\ job' = [job EXCEPT ![k] = Cancelled(job[k])]
         /\ \A w \in Worker : Finish(w) =>
              /\ exec[w].msg.job \in Job
              /\ \/ job' = job
                 \/ /\ job[exec[w].msg.job].status = "running"
                    /\ job' = [job EXCEPT ![exec[w].msg.job] =
                          Completed(job[exec[w].msg.job], TaskOf(w))]
         /\ \A w \in Worker : Handoff(w) =>
              /\ exec[w].msg.job \in Job
              /\ \/ job' = job
                 \/ /\ job[exec[w].msg.job].status = "running"
                    /\ job' = [job EXCEPT ![exec[w].msg.job] =
                          HandedOff(job[exec[w].msg.job])]
<1>1. \A w \in Worker : Finish(w) \/ Handoff(w) => exec[w].msg.job \in Job
  BY Busy DEF Finish, Handoff, At, TypeInv
<1> QED
  BY <1>1
     DEF CreateJob, CancelImport, Finish, Handoff, HasLease, RowOf, Owns,
         Submitted

LEMMA UnacknowledgedRow ==
  ASSUME TypeInv, NEW w \in Worker, FinishUnacknowledged(w)
  PROVE  /\ exec[w].msg.job \in Job
         /\ job[exec[w].msg.job].status = "running"
         /\ job' = [job EXCEPT ![exec[w].msg.job] =
                         Completed(job[exec[w].msg.job], TaskOf(w))]
BY Busy DEF FinishUnacknowledged, HasLease, RowOf, Owns, At, TypeInv

\* A lost or cleared workbook name aside, only a finishing task sets one.
LEMMA FileMove ==
  ASSUME TypeInv, BookMove, NEW j \in Job, job'[j].file # job[j].file,
         job'[j].file # NoTask
  PROVE  \E w \in Worker : /\ Finish(w) \/ FinishUnacknowledged(w)
                           /\ HasLease(w)
                           /\ j = exec[w].msg.job
                           /\ job'[j].file = TaskOf(w)
                           /\ job'[j].status = "done"
<1>1. ASSUME NEW k \in Job, NEW s, RowChange(k, s) PROVE FALSE
  BY <1>1 DEF RowChange, RowMoves, TypeInv, JobOK
<1>2. ASSUME NEW k \in Job,
             \/ CreateJob(k) \/ CancelImport(k)
             \/ DestroyObject(k) \/ RetireObject(k)
      PROVE  FALSE
  BY <1>2, RowChanged, RowFields DEF DestroyObject, RetireObject, TypeInv, JobOK
<1>3. ASSUME NEW k \in Job, DeleteRow(k) PROVE FALSE
  <2>1. [NewRow(k) EXCEPT !.status = "deleted"].file = NoTask
    BY DEF NewRow
  <2> QED
    BY <1>3, <2>1 DEF DeleteRow, TypeInv, JobOK
<1>4. ASSUME NEW w \in Worker, Handoff(w) PROVE FALSE
  BY <1>4, RowChanged, RowFields DEF TypeInv, JobOK
<1>5. ASSUME NEW w \in Worker, ObjectAdded(w) \/ ObjectDropped(w) PROVE FALSE
  BY <1>5 DEF ObjectAdded, ObjectDropped
<1>6. ASSUME Tick PROVE FALSE
  BY <1>6 DEF Tick, Aged, TypeInv, JobOK, Row
<1>7. ASSUME NEW w \in Worker, Finish(w)
      PROVE  /\ HasLease(w) /\ j = exec[w].msg.job
             /\ job'[j].file = TaskOf(w) /\ job'[j].status = "done"
  <2>1. exec[w].msg.job \in Job
    BY <1>7, Busy DEF Finish, At, TypeInv
  <2> QED
    BY <1>7, <2>1 DEF Finish, Completed, TypeInv, JobOK, Row
<1>8. ASSUME NEW w \in Worker, FinishUnacknowledged(w)
      PROVE  /\ HasLease(w) /\ j = exec[w].msg.job
             /\ job'[j].file = TaskOf(w) /\ job'[j].status = "done"
  <2>1. HasLease(w)
    BY <1>8 DEF FinishUnacknowledged
  <2>2. j = exec[w].msg.job
    BY <1>8, UnacknowledgedRow DEF TypeInv, JobOK
  <2> QED
    BY <1>8, <2>1, <2>2, UnacknowledgedRow, RowFields DEF TypeInv, JobOK
<1> QED
  BY <1>1, <1>2, <1>3, <1>4, <1>5, <1>6, <1>7, <1>8 DEF BookMove

\* A workbook that a job names is only replaced when the job's row goes.
LEMMA FileStays ==
  ASSUME TypeInv, FileDone, BookMove, NEW j \in Job, job[j].file # NoTask
  PROVE  \/ job'[j].file = job[j].file /\ job'[j].status = "done"
         \/ DeleteRow(j)
<1>1. job[j].status = "done"
  BY DEF FileDone
<1>2. ASSUME NEW k \in Job, NEW s, RowChange(k, s) PROVE job'[j] = job[j]
  <2>1. k = j => s = job[k]
    BY <1>1, <1>2 DEF RowChange, RowMoves, PhaseOf, Unsettled
  <2> QED
    BY <1>2, <2>1 DEF RowChange, TypeInv, JobOK
<1>3. ASSUME NEW k \in Job, CreateJob(k) \/ CancelImport(k)
      PROVE  job'[j] = job[j]
  BY <1>1, <1>3, RowChanged DEF TypeInv, JobOK
<1>4. ASSUME NEW k \in Job, DeleteRow(k), k # j PROVE job'[j] = job[j]
  BY <1>4 DEF DeleteRow, TypeInv, JobOK
<1>5. ASSUME NEW w \in Worker, Finish(w) \/ Handoff(w) PROVE job'[j] = job[j]
  BY <1>1, <1>5, RowChanged DEF TypeInv, JobOK
<1>6. ASSUME NEW w \in Worker, FinishUnacknowledged(w) PROVE job'[j] = job[j]
  BY <1>1, <1>6, UnacknowledgedRow DEF TypeInv, JobOK
<1>7. ASSUME Tick
      PROVE  job'[j].file = job[j].file /\ job'[j].status = job[j].status
  BY <1>7 DEF Tick, Aged, TypeInv, JobOK, Row
<1> QED
  BY <1>1, <1>2, <1>3, <1>4, <1>5, <1>6, <1>7
     DEF BookMove, DestroyObject, RetireObject, ObjectAdded,
         ObjectDropped

LEMMA NextFileDone ==
  ASSUME TypeInv, FileDone, BookMove
  PROVE  FileDone'
<1> SUFFICES ASSUME NEW j \in Job, job'[j].file # NoTask
             PROVE  job'[j].status = "done"
  BY DEF FileDone
<1>1. CASE job[j].file = NoTask
  BY <1>1, FileMove
<1>2. ASSUME DeleteRow(j), job[j].file # NoTask PROVE job'[j] = job[j]
  <2>1. [NewRow(j) EXCEPT !.status = "deleted"].file = NoTask
    BY DEF NewRow
  <2> QED
    BY <1>2, <2>1 DEF DeleteRow, TypeInv, JobOK
<1> QED
  BY <1>1, <1>2, FileStays DEF FileDone

\* No task comes to be mentioned for a job but a fresh one.
LEMMA MentionKept ==
  ASSUME TypeInv, TypeInv', CarrierMove, BookMove, ExecMove,
         NEW t \in Task, NEW j \in Job, Mention(t, j)'
  PROVE  \/ Mention(t, j)
         \/ t \notin InUse /\ \E c \in Caller : Reserve(c) /\ enq'[c].task = t /\ enq'[c].job = j
<1>0. t # NoTask
  BY JobStateAssumption
<1>1. ASSUME NEW m \in queue', m.task = t, m.job = j
      PROVE  Mention(t, j)
  <2>1. m \in queue => Mention(t, j)
    BY <1>1 DEF Mention
  <2>2. ASSUME NEW v \in Worker, NEW n, CarrierReturns(v, n)
        PROVE  Mention(t, j)
    BY <1>1, <2>1, <2>2 DEF CarrierReturns, Mention
  <2>3. ASSUME NEW c \in Caller, CarrierSends(c)
        PROVE  Mention(t, j)
    BY <1>1, <2>1, <2>3 DEF CarrierSends, MessageOf, Mention
  <2> QED
    BY <2>1, <2>2, <2>3 DEF CarrierMove, CarrierKept, CarrierStarts, Reserve
<1>2. ASSUME NEW w \in Worker, TaskOf(w)' = t, exec'[w].msg.job = j
      PROVE  Mention(t, j)
  <2>1. exec'[w] # Idle
    BY <1>0, <1>2, IdleTask DEF TaskOf
  <2>2. exec'[w].msg = exec[w].msg \/ exec'[w].msg \in queue
    BY <2>1 DEF ExecMove, Continues, Begins
  <2> QED
    BY <1>2, <2>2 DEF TaskOf, Mention
<1>3. ASSUME NEW c \in Caller, enq'[c].task = t, enq'[c].job = j
      PROVE  \/ Mention(t, j)
             \/ t \notin InUse /\ Reserve(c)
  <2>1. CASE enq'[c] = enq[c]
    BY <1>3, <2>1 DEF Mention
  <2>2. CASE enq'[c] # enq[c]
    <3>1. ASSUME NEW d \in Caller, CarrierSends(d) PROVE FALSE
      BY <1>0, <1>3, <2>2, <3>1, ReturnCarry DEF CarrierSends, NoCall
    <3>2. PICK d \in Caller : Reserve(d)
      BY <1>0, <1>3, <2>2, <3>1 DEF CarrierMove, CarrierKept, CarrierStarts, CarrierReturns
    <3>3. PICK u \in Task \ InUse :
            enq' = [enq EXCEPT ![d].task = u,
                               ![d].kind = TaskFor(job[enq[d].job])]
      BY <3>2 DEF Reserve
    <3>4. d = c
      BY <2>2, <3>3 DEF TypeInv, RestOK
    <3>5. enq[c] \in Call
      BY <3>2, <3>4, InCall DEF TypeInv, Reserve
    <3>6. enq'[c].task = u
      BY <3>3, <3>4, <3>5 DEF TypeInv, RestOK, Call
    <3> QED
      BY <1>3, <3>2, <3>4, <3>6
  <2> QED
    BY <2>1, <2>2
<1>4. ASSUME job'[j].file = t
      PROVE  Mention(t, j)
  <2>1. CASE job[j].file = t
    BY <2>1 DEF Mention
  <2>2. CASE job[j].file # t
    BY <1>0, <1>4, <2>2, FileMove DEF Mention
  <2> QED
    BY <2>1, <2>2
<1> QED
  BY <1>1, <1>2, <1>3, <1>4 DEF Mention

LEMMA FreshUnmentioned ==
  ASSUME NEW t \in Task \ InUse, NEW j \in Job
  PROVE  ~Mention(t, j)
BY DEF Mention, InUse, TaskOf

\* Only one caller is given a task id at a time.
LEMMA OneReserve ==
  ASSUME TypeInv, NEW c \in Caller, NEW d \in Caller, NEW t \in Task \ InUse,
         Reserve(c), enq'[c].task = t, enq'[d].task = t
  PROVE  c = d
<1>1. PICK u : enq' = [enq EXCEPT ![c].task = u,
                                  ![c].kind = TaskFor(job[enq[c].job])]
  BY DEF Reserve
<1>2. c # d => enq'[d] = enq[d]
  BY <1>1 DEF TypeInv, RestOK
<1> QED
  BY <1>2 DEF InUse

LEMMA NextOneJob ==
  ASSUME TypeInv, TypeInv', OneJob, CarrierMove, BookMove, ExecMove
  PROVE  OneJob'
<1> SUFFICES ASSUME NEW t \in Task, NEW i \in Job, NEW j \in Job,
                    Mention(t, i)', Mention(t, j)'
             PROVE  i = j
  BY DEF OneJob
<1>1. CASE t \in InUse
  BY <1>1, MentionKept DEF OneJob
<1>2. CASE t \notin InUse
  <2>1. ~Mention(t, i) /\ ~Mention(t, j)
    BY <1>2, FreshUnmentioned
  <2>2. PICK c \in Caller : Reserve(c) /\ enq'[c].task = t /\ enq'[c].job = i
    BY <2>1, MentionKept
  <2>3. PICK d \in Caller : Reserve(d) /\ enq'[d].task = t /\ enq'[d].job = j
    BY <2>1, MentionKept
  <2> QED
    BY <1>2, <2>2, <2>3, OneReserve
<1> QED
  BY <1>1, <1>2

\* How an execution of a task that has published comes about.
LEMMA QuietExecution ==
  ASSUME TypeInv, TypeInv', OneJob, FileDone, PublishedQuiet, ExecMove,
         NEW j \in Job, job[j].file \notin misled \union {NoTask},
         NEW w \in Worker, TaskOf(w)' = job[j].file
  PROVE  exec'[w].pc \in {"publish", "retried", "ack"}
<1>1. exec'[w] # Idle
  BY IdleTask DEF TaskOf
<1>2. CASE exec'[w] = exec[w]
  BY <1>2 DEF PublishedQuiet, TaskOf
<1>3. CASE Continues(w)
  <2>1. exec[w].pc \in {"publish", "retried", "ack"}
    BY <1>3 DEF Continues, PublishedQuiet, TaskOf
  <2> QED
    BY <1>3, <2>1 DEF Continues, Follows, SaveObject, At
<1>4. CASE Begins(w)
  <2>1. exec'[w].msg \in queue /\ exec'[w].msg.task = job[j].file
    BY <1>4 DEF Begins, TaskOf
  <2>2. exec'[w].msg.job \in Job /\ job[j].file \in Task
    BY <2>1, QueueTask
  <2>3. exec'[w].msg.job = j
    BY <2>1, <2>2 DEF OneJob, Mention
  <2> QED
    BY <1>4, <2>3 DEF Begins, FileDone
<1> QED
  BY <1>1, <1>2, <1>3, <1>4 DEF ExecMove

LEMMA NextPublishedQuiet ==
  ASSUME TypeInv, TypeInv', OneCarrier, OneJob, FileDone, PublishedQuiet,
         CarrierMove, BookMove, ExecMove
  PROVE  PublishedQuiet'
<1> SUFFICES ASSUME NEW j \in Job, NEW t, t = job'[j].file,
                    t \notin misled' \union {NoTask}
             PROVE  /\ \A w \in Worker : TaskOf(w)' = t =>
                         exec'[w].pc \in {"publish", "retried", "ack"}
                    /\ \A c \in Caller : enq'[c].task # t
  BY DEF PublishedQuiet
<1>1. t \in Task /\ t \notin misled
  BY DEF CarrierMove, TypeInv, JobOK, Row
<1>2. CASE job[j].file = t
  <2>1. ASSUME NEW c \in Caller PROVE enq'[c].task # t
    <3>1. enq[c].task # t
      BY <1>1, <1>2 DEF PublishedQuiet
    <3>2. ASSUME NEW d \in Caller, CarrierSends(d) PROVE enq'[c].task # t
      BY <1>2, <3>1, <3>2, ReturnCarry DEF CarrierSends, NoCall
    <3>3. ASSUME NEW d \in Caller, Reserve(d) PROVE enq'[c].task # t
      <4>1. PICK u \in Task \ InUse :
              enq' = [enq EXCEPT ![d].task = u,
                                 ![d].kind = TaskFor(job[enq[d].job])]
        BY <3>3 DEF Reserve
      <4>2. u # t
        BY <1>2, <4>1 DEF InUse
      <4>3. enq[d] \in Call
        BY <3>3, InCall DEF TypeInv, Reserve
      <4> QED
        BY <3>1, <4>1, <4>2, <4>3 DEF TypeInv, RestOK, Call
    <3> QED
      BY <3>1, <3>2, <3>3
         DEF CarrierMove, CarrierKept, CarrierStarts, CarrierReturns
  <2> QED
    BY <1>1, <1>2, <2>1, QuietExecution
<1>3. CASE job[j].file # t
  <2>1. PICK w \in Worker : /\ Finish(w) \/ FinishUnacknowledged(w)
                            /\ HasLease(w) /\ t = TaskOf(w)
    BY <1>3, FileMove
  <2>2. Finish(w)
    BY <2>1 DEF FinishUnacknowledged
  <2>3. exec[w].pc = "finish" /\ exec[w] \in Execution
    BY <2>2, Busy DEF Finish, At, TypeInv
  <2>4. enq' = enq /\ exec' = [exec EXCEPT ![w].pc = "ack"]
    BY <2>1, <2>2 DEF Finish, End, Goto
  <2>5. \A c \in Caller : enq'[c].task # t
    BY <1>1, <2>1, <2>4, JobStateAssumption DEF OneCarrier
  <2>6. exec'[w].pc = "ack"
    BY <2>3, <2>4 DEF TypeInv, ExecOK, Execution
  <2>7. ASSUME NEW v \in Worker, v # w, TaskOf(v)' = t
        PROVE  exec'[v].pc = "retried"
    <3>1. exec'[v] = exec[v] /\ TaskOf(v) = t
      BY <2>4, <2>7 DEF TypeInv, ExecOK, TaskOf
    <3> QED
      BY <1>1, <2>1, <2>3, <2>7, <3>1, OneWorker
  <2> QED
    BY <2>5, <2>6, <2>7
<1> QED
  BY <1>2, <1>3

\* What is stored for an execution stays until its own task drops it.
LEMMA ObjectKept ==
  ASSUME TypeInv, OneCarrier, PublishedQuiet, BookMove,
         NEW v \in Worker, exec[v].pc = "finish", TaskOf(v) \notin misled,
         NEW j \in Job, TaskOf(v) \in store[j]
  PROVE  TaskOf(v) \in store'[j]
<1>1. TaskOf(v) \in Task /\ TaskOf(v) # NoTask
  BY Busy, JobStateAssumption DEF TaskOf, TypeInv
<1>2. \A k \in Job : job[k].file # TaskOf(v)
  BY <1>1 DEF PublishedQuiet
<1>3. ASSUME NEW w \in Worker, ObjectDropped(w)
      PROVE  TaskOf(v) \in store'[j]
  <2>1. v # w /\ exec[w].pc # "retried"
    BY <1>3 DEF ObjectDropped
  <2>2. TaskOf(w) # TaskOf(v)
    BY <1>1, <2>1, OneWorker
  <2> QED
    BY <1>3, <2>2 DEF ObjectDropped, TypeInv, RestOK
<1>4. ASSUME NEW w \in Worker, ObjectAdded(w)
      PROVE  TaskOf(v) \in store'[j]
  BY <1>4 DEF ObjectAdded, TypeInv, RestOK
<1>5. ASSUME NEW k \in Job, DestroyObject(k) \/ RetireObject(k)
      PROVE  TaskOf(v) \in store'[j]
  BY <1>2, <1>5 DEF DestroyObject, RetireObject, TypeInv, RestOK
<1> QED
  BY <1>3, <1>4, <1>5
     DEF BookMove, RowChange, CreateJob, CancelImport, DeleteRow, Finish,
         FinishUnacknowledged, Handoff, Tick

LEMMA NextSavedOK ==
  ASSUME TypeInv, TypeInv', OneCarrier, PublishedQuiet, SavedOK, CarrierMove,
         BookMove, ExecMove
  PROVE  SavedOK'
<1> SUFFICES ASSUME NEW v \in Worker, exec'[v].pc = "finish",
                    TaskOf(v)' \notin misled'
             PROVE  TaskOf(v)' \in store'[exec'[v].msg.job]
  BY DEF SavedOK
<1>1. /\ exec[v].pc # "idle" /\ exec'[v].msg = exec[v].msg
      /\ exec[v].pc = "finish" \/ SaveObject(v)
  <2>1. exec'[v] # Idle
    BY DEF Idle, Started
  <2>2. exec'[v] = exec[v] \/ Continues(v)
    BY <2>1 DEF ExecMove, Begins
  <2> QED
    BY <2>2 DEF Continues, Follows
<1>2. /\ exec[v].msg.job \in Job /\ TaskOf(v)' = TaskOf(v)
      /\ TaskOf(v) \notin misled
  BY <1>1, Busy DEF TypeInv, TaskOf, CarrierMove
<1>3. CASE exec[v].pc = "finish"
  BY <1>1, <1>2, <1>3, ObjectKept DEF SavedOK
<1>4. CASE SaveObject(v)
  BY <1>1, <1>2, <1>4 DEF SaveObject, TypeInv, RestOK
<1> QED
  BY <1>1, <1>3, <1>4

LEMMA NextRowShape ==
  ASSUME TypeInv, RowShape, BookMove
  PROVE  RowShape'
<1>1. ASSUME NEW k \in Job, NEW s, RowChange(k, s) PROVE RowShape'
  <2>1. s.import = job[k].import /\ (s.status = "absent" => s = job[k])
    BY <1>1 DEF RowChange, RowMoves, PhaseOf, Unsettled
  <2> QED
    BY <1>1, <2>1 DEF RowChange, RowShape, TypeInv, JobOK
<1>2. ASSUME NEW k \in Job, CreateJob(k) \/ CancelImport(k) PROVE RowShape'
  BY <1>2, RowChanged, RowFields DEF RowShape, TypeInv, JobOK
<1>3. ASSUME NEW k \in Job, DestroyObject(k) \/ RetireObject(k) PROVE RowShape'
  BY <1>3 DEF DestroyObject, RetireObject, RowShape
<1>4. ASSUME NEW k \in Job, DeleteRow(k) PROVE RowShape'
  <2>1. /\ [NewRow(k) EXCEPT !.status = "deleted"].import = (k \in Imports)
        /\ [NewRow(k) EXCEPT !.status = "deleted"].status = "deleted"
    BY DEF NewRow
  <2> QED
    BY <1>4, <2>1 DEF DeleteRow, RowShape, TypeInv, JobOK
<1>5. ASSUME NEW w \in Worker, Finish(w) PROVE RowShape'
  BY <1>5, RowChanged, RowFields DEF RowShape, TypeInv, JobOK
<1>6. ASSUME NEW w \in Worker, Handoff(w) PROVE RowShape'
  BY <1>6, RowChanged, RowFields DEF RowShape, TypeInv, JobOK
<1>7. ASSUME NEW w \in Worker, ObjectAdded(w) \/ ObjectDropped(w)
      PROVE  RowShape'
  BY <1>7 DEF ObjectAdded, ObjectDropped, RowShape
<1>8. ASSUME Tick PROVE RowShape'
  <2>1. \A j \in Job : /\ job[j] \in Row
                       /\ job'[j] = job[j] \/ job'[j] = Aged(job[j])
    BY <1>8 DEF Tick, TypeInv, JobOK
  <2>2. \A j \in Job : /\ job'[j].import = job[j].import
                       /\ job'[j].status = job[j].status
                       /\ job'[j].payload = job[j].payload
    BY <2>1 DEF Aged, Row
  <2> QED
    BY <2>2 DEF RowShape
<1>9. ASSUME NEW w \in Worker, FinishUnacknowledged(w) PROVE RowShape'
  BY <1>9, UnacknowledgedRow, RowFields DEF RowShape, TypeInv, JobOK
<1> QED
  BY <1>1, <1>2, <1>3, <1>4, <1>5, <1>6, <1>7, <1>8, <1>9
     DEF BookMove, RowShape

LEMMA ReadyKept ==
  ASSUME TypeInv, RowShape, BookMove, NEW j \in Job, Ready(job[j])
  PROVE  Ready(job'[j])
<1>1. ASSUME NEW k \in Job, NEW s, RowChange(k, s) PROVE Ready(job'[j])
  <2>1. \/ s = job[k]
        \/ /\ s.import = job[k].import /\ (job[k].payload => s.payload)
           /\ job[k].status # "deleted"
    BY <1>1 DEF RowChange, RowMoves, PhaseOf, Unsettled
  <2> QED
    BY <1>1, <2>1 DEF RowChange, Ready, TypeInv, JobOK
<1>2. ASSUME NEW k \in Job, CreateJob(k) \/ CancelImport(k)
      PROVE  Ready(job'[j])
  BY <1>2, RowChanged, RowFields DEF Ready, TypeInv, JobOK
<1>3. ASSUME NEW k \in Job, DeleteRow(k) PROVE Ready(job'[j])
  <2>1. [NewRow(k) EXCEPT !.status = "deleted"].status = "deleted"
    BY DEF NewRow
  <2> QED
    BY <1>3, <2>1 DEF DeleteRow, Ready, TypeInv, JobOK
<1>4. ASSUME NEW w \in Worker, Finish(w) PROVE Ready(job'[j])
  BY <1>4, RowChanged, RowFields DEF Ready, TypeInv, JobOK
<1>5. ASSUME NEW w \in Worker, Handoff(w) PROVE Ready(job'[j])
  BY <1>5, RowChanged, RowFields DEF Ready, TypeInv, JobOK
<1>6. ASSUME Tick PROVE Ready(job'[j])
  BY <1>6 DEF Tick, Aged, Ready, TypeInv, JobOK, Row
<1>7. ASSUME NEW w \in Worker, FinishUnacknowledged(w)
      PROVE  Ready(job'[j])
  BY <1>7, UnacknowledgedRow, RowFields DEF Ready, TypeInv, JobOK
<1> QED
  BY <1>1, <1>2, <1>3, <1>4, <1>5, <1>6, <1>7
     DEF BookMove, DestroyObject, RetireObject, ObjectAdded, ObjectDropped

LEMMA NextKindOK ==
  ASSUME TypeInv, TypeInv', RowShape, KindOK, CarrierMove, BookMove,
         ExecMove
  PROVE  KindOK'
<1>1. ASSUME NEW m \in queue', m.kind = "report"
      PROVE  Ready(job'[m.job])
  <2>1. m.job \in Job
    BY DEF TypeInv, RestOK, Message
  <2>2. CASE m \in queue
    BY <1>1, <2>1, <2>2, ReadyKept DEF KindOK
  <2>3. ASSUME NEW v \in Worker, CarrierReturns(v, m)
        PROVE  Ready(job'[m.job])
    BY <1>1, <2>1, <2>3, ReadyKept DEF KindOK, CarrierReturns, RowOf
  <2>4. ASSUME NEW c \in Caller, enq[c].task # NoTask, m = MessageOf(enq[c])
        PROVE  Ready(job'[m.job])
    BY <1>1, <2>1, <2>4, ReadyKept DEF KindOK, MessageOf
  <2>5. \/ m \in queue
        \/ \E v \in Worker : CarrierReturns(v, m)
        \/ \E c \in Caller : enq[c].task # NoTask /\ m = MessageOf(enq[c])
    <3>1. CASE CarrierKept
      BY <3>1 DEF CarrierKept
    <3>2. ASSUME NEW n \in queue, NEW v \in Worker, NEW p,
                 CarrierStarts(n, v, p)
          PROVE  m \in queue
      BY <3>2 DEF CarrierStarts
    <3>3. ASSUME NEW v \in Worker, NEW n, CarrierReturns(v, n)
          PROVE  m \in queue \/ CarrierReturns(v, m)
      BY <3>3 DEF CarrierReturns
    <3>4. ASSUME NEW c \in Caller, CarrierSends(c)
          PROVE  m \in queue \/ (enq[c].task # NoTask /\ m = MessageOf(enq[c]))
      BY <3>4 DEF CarrierSends
    <3>5. ASSUME NEW c \in Caller, Reserve(c)
          PROVE  m \in queue
      BY <3>5 DEF Reserve
    <3> QED
      BY <3>1, <3>2, <3>3, <3>4, <3>5 DEF CarrierMove
  <2> QED
    BY <2>2, <2>3, <2>4, <2>5
<1>2. ASSUME NEW w \in Worker, exec'[w].pc \in ReportStep
      PROVE  exec'[w].msg.kind = "report"
  <2>1. exec'[w] # Idle
    BY <1>2 DEF Idle, Started, ReportStep
  <2>2. CASE Begins(w)
    BY <1>2, <2>2 DEF Begins
  <2>3. CASE exec'[w] = exec[w]
    BY <1>2, <2>3 DEF KindOK
  <2>4. CASE Continues(w)
    <3>1. exec[w].pc \in ReportStep
      BY <1>2, <2>4 DEF Continues, Follows, SaveObject, At, ReportStep
    <3> QED
      BY <2>4, <3>1 DEF Continues, KindOK
  <2> QED
    BY <2>1, <2>2, <2>3, <2>4 DEF ExecMove
<1>3. ASSUME NEW w \in Worker, exec'[w].pc # "idle",
             exec'[w].msg.kind = "report"
      PROVE  Ready(job'[exec'[w].msg.job])
  <2>1. exec'[w] = exec[w] \/ Continues(w) \/ Begins(w)
    BY <1>3 DEF ExecMove, Idle, Started
  <2>2. CASE exec'[w] = exec[w] \/ Continues(w)
    BY <1>3, <2>2, Busy, ReadyKept DEF Continues, KindOK, RowOf, TypeInv
  <2>3. CASE Begins(w)
    BY <1>3, <2>3, QueueTask, ReadyKept DEF Begins, KindOK
  <2> QED
    BY <2>1, <2>2, <2>3
<1>4. ASSUME NEW c \in Caller, enq'[c].task # NoTask, enq'[c].kind = "report"
      PROVE  Ready(job'[enq'[c].job])
  <2>1. enq'[c] = enq[c] => Ready(job'[enq'[c].job])
    BY <1>4, InCall, ReadyKept DEF KindOK, TypeInv
  <2>2. \/ enq'[c] = enq[c]
        \/ Reserve(c)
    <3>1. CASE CarrierKept
      BY <1>4, <3>1 DEF CarrierKept
    <3>2. ASSUME NEW n \in queue, NEW v \in Worker, NEW p,
                 CarrierStarts(n, v, p)
          PROVE  enq'[c] = enq[c]
      BY <3>2 DEF CarrierStarts
    <3>3. ASSUME NEW v \in Worker, NEW n, CarrierReturns(v, n)
          PROVE  enq'[c] = enq[c]
      BY <1>4, <3>3 DEF CarrierReturns
    <3>4. ASSUME NEW d \in Caller, CarrierSends(d)
          PROVE  enq'[c] = enq[c]
      BY <1>4, <3>4, ReturnCarry DEF CarrierSends, NoCall
    <3>5. ASSUME NEW d \in Caller, Reserve(d)
          PROVE  enq'[c] = enq[c] \/ d = c
      BY <3>5 DEF Reserve, TypeInv, RestOK
    <3> QED
      BY <3>1, <3>2, <3>3, <3>4, <3>5 DEF CarrierMove
  <2>3. CASE Reserve(c)
    <3>1. enq[c] \in Call /\ enq[c].job \in Job
      BY <2>3, InCall DEF Reserve, TypeInv
    <3>2. /\ enq'[c].job = enq[c].job
          /\ enq'[c].kind = TaskFor(job[enq[c].job])
      BY <2>3, <3>1 DEF Reserve, TypeInv, RestOK, Call
    <3>3. Ready(job[enq[c].job])
      BY <1>4, <3>2 DEF TaskFor, Ready
    <3> QED
      BY <3>1, <3>2, <3>3, ReadyKept
  <2> QED
    BY <2>1, <2>2, <2>3
<1> QED
  BY <1>1, <1>2, <1>3, <1>4 DEF KindOK, RowOf

LEMMA NextDoneFileStored ==
  ASSUME TypeInv, TypeInv', OneCarrier, PublishedQuiet, SavedOK,
         DoneFileStored, CarrierMove, BookMove
  PROVE  DoneFileStored'
<1> SUFFICES ASSUME NEW j \in Job, job'[j].status = "done",
                    job'[j].file # NoTask, deleting'[j] = "no",
                    job'[j].file \notin misled'
             PROVE  job'[j].file \in store'[j]
  BY DEF DoneFileStored
<1>0. job'[j].file \notin misled
  BY DEF CarrierMove
<1> DEFINE Kept == /\ job[j].status = "done" /\ job'[j].file = job[j].file
                   /\ deleting[j] = "no"
<1>1. ASSUME Kept, store'[j] = store[j] PROVE job'[j].file \in store'[j]
  BY <1>0, <1>1 DEF DoneFileStored
<1>2. ASSUME NEW k \in Job, NEW s, RowChange(k, s)
      PROVE  job'[j].file \in store'[j]
  <2>1. job'[j] = job[j]
    BY <1>2 DEF RowChange, RowMoves, PhaseOf, Unsettled, TypeInv, JobOK
  <2> QED
    BY <1>1, <1>2, <2>1 DEF RowChange
<1>3. ASSUME NEW k \in Job, CreateJob(k) \/ CancelImport(k)
      PROVE  job'[j].file \in store'[j]
  <2>1. job'[j] = job[j]
    BY <1>3 DEF CreateJob, CancelImport, Cancelled, TypeInv, JobOK, Row
  <2> QED
    BY <1>1, <1>3, <2>1 DEF CreateJob, CancelImport
<1>4. ASSUME NEW k \in Job, DestroyObject(k) \/ RetireObject(k)
      PROVE  job'[j].file \in store'[j]
  BY <1>0, <1>4 DEF DestroyObject, RetireObject, DoneFileStored, TypeInv, RestOK
<1>5. ASSUME NEW k \in Job, DeleteRow(k)
      PROVE  job'[j].file \in store'[j]
  <2>1. [NewRow(k) EXCEPT !.status = "deleted"].status = "deleted"
    BY DEF NewRow
  <2>2. job'[j] = job[j]
    BY <1>5, <2>1 DEF DeleteRow, TypeInv, JobOK
  <2>3. deleting[j] = "no"
    BY <1>5, <2>1, <2>2 DEF DeleteRow, TypeInv, JobOK, RestOK
  <2> QED
    BY <1>1, <1>5, <2>2, <2>3 DEF DeleteRow
<1>6. ASSUME NEW w \in Worker, Finish(w)
      PROVE  job'[j].file \in store'[j]
  <2>1. exec[w].msg.job \in Job
    BY <1>6, Busy DEF Finish, At, TypeInv
  <2>2. CASE HasLease(w) /\ j = exec[w].msg.job
    <3>1. job'[j].file = TaskOf(w)
      BY <1>6, <2>1, <2>2, RowFields DEF Finish, TypeInv, JobOK
    <3> QED
      BY <1>0, <1>6, <2>2, <3>1 DEF Finish, At, SavedOK
  <2>3. CASE ~(HasLease(w) /\ j = exec[w].msg.job)
    <3>1. job'[j] = job[j]
      BY <1>6, <2>3 DEF Finish, TypeInv, JobOK
    <3> QED
      BY <1>1, <1>6, <3>1 DEF Finish
  <2> QED
    BY <2>2, <2>3
<1>7. ASSUME NEW w \in Worker, Handoff(w)
      PROVE  job'[j].file \in store'[j]
  <2>1. job'[j] = job[j]
    BY <1>7 DEF Handoff, HandedOff, TypeInv, JobOK, Row
  <2> QED
    BY <1>1, <1>7, <2>1 DEF Handoff
<1>8. ASSUME NEW w \in Worker, ObjectAdded(w)
      PROVE  job'[j].file \in store'[j]
  BY <1>0, <1>8 DEF ObjectAdded, DoneFileStored, TypeInv, RestOK
<1>9. ASSUME NEW w \in Worker, ObjectDropped(w)
      PROVE  job'[j].file \in store'[j]
  <2>1. job[j].file # TaskOf(w)
    BY <1>0, <1>9 DEF ObjectDropped, PublishedQuiet
  <2> QED
    BY <1>0, <1>9, <2>1 DEF ObjectDropped, DoneFileStored, TypeInv, RestOK
<1>10. ASSUME Tick PROVE job'[j].file \in store'[j]
  <2>1. job'[j].status = job[j].status /\ job'[j].file = job[j].file
    BY <1>10 DEF Tick, Aged, TypeInv, JobOK, Row
  <2> QED
    BY <1>1, <1>10, <2>1 DEF Tick
<1>11. ASSUME NEW w \in Worker, FinishUnacknowledged(w)
       PROVE  job'[j].file \in store'[j]
  <2>1. j # exec[w].msg.job
    BY <1>11, UnacknowledgedRow, RowFields DEF FinishUnacknowledged, TypeInv, JobOK
  <2>2. job'[j] = job[j]
    BY <1>11, <2>1, UnacknowledgedRow DEF TypeInv, JobOK
  <2> QED
    BY <1>1, <1>11, <2>2 DEF FinishUnacknowledged
<1> QED
  BY <1>1, <1>2, <1>3, <1>4, <1>5, <1>6, <1>7, <1>8, <1>9, <1>10, <1>11
     DEF BookMove

LEMMA RefInvariant == Spec => []RefInv
<1>1. Init => RefInv
  <2> SUFFICES ASSUME Init PROVE RefInv
    OBVIOUS
  <2>1. TypeInv
    BY InitTypeInv
  <2>2. OneCarrier
    BY DEF Init, OneCarrier, TaskOf, Carry, At, Idle, Started, NoMessage, NoCall
  <2>3. \A j \in Job : /\ job[j].file = NoTask
                       /\ job[j].import = (j \in Imports)
                       /\ job[j].status = "absent" => ~job[j].payload
    <3>1. PICK old \in SUBSET Legacy :
            job = [j \in Job |-> IF j \in old THEN LegacyRow(j) ELSE NewRow(j)]
      BY DEF Init
    <3> QED
      BY <3>1, ReportJobsAssumption DEF LegacyRow, NewRow
  <2>4. PublishedQuiet /\ RowShape /\ FileDone /\ DoneFileStored
    BY <2>3 DEF PublishedQuiet, RowShape, FileDone, DoneFileStored
  <2>5. SavedOK /\ KindOK
    BY DEF Init, SavedOK, KindOK, Idle, Started, NoCall, ReportStep
  <2>6. OneJob
    <3>1. \A t \in Task, j \in Job : ~Mention(t, j)
      BY <2>3, JobStateAssumption
         DEF Init, Mention, TaskOf, Idle, Started, NoMessage, NoCall
    <3> QED
      BY <3>1 DEF OneJob
  <2> QED
    BY <2>1, <2>2, <2>4, <2>5, <2>6 DEF RefInv
<1>2. RefInv /\ [Next]_vars => RefInv'
  <2> SUFFICES ASSUME RefInv, [Next]_vars PROVE RefInv'
    OBVIOUS
  <2>1. TypeInv /\ TypeInv'
    BY NextTypeInv DEF RefInv
  <2>2. CarrierMove /\ BookMove /\ ExecMove
    BY <2>1, NextCarrierMove, NextBookMove, NextExecMove
  <2>3. OneCarrier' /\ OneJob' /\ FileDone' /\ RowShape'
    BY <2>1, <2>2, NextOneCarrier, NextOneJob, NextFileDone, NextRowShape DEF RefInv
  <2>4. PublishedQuiet' /\ SavedOK' /\ DoneFileStored'
    BY <2>1, <2>2, NextPublishedQuiet, NextSavedOK, NextDoneFileStored DEF RefInv
  <2>5. KindOK'
    BY <2>1, <2>2, NextKindOK DEF RefInv
  <2> QED
    BY <2>1, <2>3, <2>4, <2>5 DEF RefInv
<1> QED
  BY <1>1, <1>2, PTL DEF Spec

\* A published workbook stays in storage until its deletion begins, whatever
\* fails, unless its own task was misled: a second message of it went round, or
\* the commit that published it was reported as failed (generate_report_task,
\* delete_report).
THEOREM WorkbookKept == Spec => []DoneFileStored
<1>1. RefInv => DoneFileStored
  BY DEF RefInv
<1> QED
  BY <1>1, RefInvariant, PTL

-----------------------------------------------------------------------------
(* The refinement: every step is a step of JobLifecycle or none.           *)

Booked(j) == job[j].status = "done" /\ job[j].file \in store[j]

\* A step that leaves the phases, the deletions and the objects that users
\* see as they are.
LEMMA Stutter ==
  ASSUME \A j \in Job : /\ PhaseOf(job'[j]) = PhaseOf(job[j])
                        /\ job'[j].file = job[j].file
                        /\ Booked(j)' = Booked(j),
         deleting' = deleting, misled' = misled
  PROVE  UNCHANGED <<phaseOf, leavingOf, workbookOf, exposedOf>>
<1>1. phaseOf' = phaseOf
  BY DEF phaseOf
<1>2. leavingOf' = leavingOf
  BY DEF leavingOf
<1>3. workbookOf' = workbookOf
  BY DEF workbookOf, Booked
<1>4. exposedOf' = exposedOf
  BY DEF exposedOf
<1> QED
  BY <1>1, <1>2, <1>3, <1>4

\* A job is exposed by its workbook's task, and stays so with its workbook.
LEMMA SameExposed ==
  ASSUME \A j \in Job : job'[j].file = job[j].file, misled' = misled
  PROVE  exposedOf' = exposedOf
BY DEF exposedOf

\* One job moves to another phase.
LEMMA PhaseMoved ==
  ASSUME TypeInv, NEW k \in Job, NEW s, job' = [job EXCEPT ![k] = s]
  PROVE  phaseOf' = [phaseOf EXCEPT ![k] = PhaseOf(s)]
BY DEF phaseOf, TypeInv, JobOK

\* No job that is not published has a workbook.
LEMMA Unbooked ==
  ASSUME TypeInv, NEW j \in Job, PhaseOf(job[j]) # "published"
  PROVE  ~Booked(j)
BY JobStateAssumption DEF Booked, PhaseOf, TypeInv, RestOK

LEMMA RowRefines ==
  ASSUME TypeInv, TypeInv', NEW k \in Job, NEW s, RowChange(k, s)
  PROVE  Lifecycle!Next \/ UNCHANGED <<phaseOf, leavingOf, workbookOf, exposedOf>>
<1>1. \A j \in Job \ {k} : job'[j] = job[j]
  BY DEF RowChange, TypeInv, JobOK
<1>2. job'[k] = s
  BY DEF RowChange, TypeInv, JobOK
<1>3. \A j \in Job : job'[j].file = job[j].file
  BY <1>1, <1>2 DEF RowChange, RowMoves
<1>4. exposedOf' = exposedOf
  BY <1>3, SameExposed DEF RowChange
<1>5. CASE PhaseOf(s) = PhaseOf(job[k])
  <2>1. Booked(k)' = Booked(k)
    <3>1. CASE s = job[k]
      BY <1>2, <3>1 DEF RowChange, Booked
    <3>2. CASE s # job[k]
      <4>1. PhaseOf(job[k]) # "published" /\ PhaseOf(job'[k]) # "published"
        BY <1>2, <1>5, <3>2 DEF RowChange, RowMoves, Unsettled
      <4> QED
        <5>1. ~Booked(k)
          BY <4>1, Unbooked
        <5>2. ~Booked(k)'
          BY <4>1, JobStateAssumption
             DEF Booked, PhaseOf, TypeInv, RestOK
        <5> QED
          BY <5>1, <5>2 DEF Booked
    <3> QED
      BY <3>1, <3>2
  <2>2. \A j \in Job : Booked(j)' = Booked(j)
    BY <1>1, <2>1 DEF RowChange, Booked
  <2> QED
    BY <1>1, <1>2, <1>5, <1>3, <2>2, Stutter DEF RowChange
<1>6. CASE PhaseOf(s) # PhaseOf(job[k])
  <2>1. PhaseOf(job[k]) \in Unsettled /\ PhaseOf(s) = "failed"
    BY <1>6 DEF RowChange, RowMoves
  <2>2. phaseOf[k] \in {"importing", "reporting"}
        /\ phaseOf' = [phaseOf EXCEPT ![k] = "failed"]
    BY <2>1, PhaseMoved DEF RowChange, phaseOf, Unsettled
  <2>3. ~Booked(k)
    BY <2>1, Unbooked DEF Unsettled
  <2>4. ~Booked(k)'
    BY <1>2, <2>1 DEF Booked, PhaseOf
  <2>5. workbookOf' = workbookOf
    BY <1>1, <2>3, <2>4 DEF RowChange, Booked, workbookOf
  <2>6. leavingOf' = leavingOf
    BY DEF RowChange, leavingOf
  <2>7. Lifecycle!Fail(k)
    BY <1>4, <2>2, <2>5, <2>6 DEF Lifecycle!Fail, Lifecycle!Move, Lifecycle!Active
  <2> QED
    BY <2>7 DEF Lifecycle!Next
<1> QED
  BY <1>5, <1>6

LEMMA CreateRefines ==
  ASSUME TypeInv, RowShape, NEW k \in Job, CreateJob(k)
  PROVE  Lifecycle!Next
<1>1. /\ job[k].status = "absent" /\ job' = [job EXCEPT ![k] = Submitted(job[k])]
      /\ store' = store /\ deleting' = deleting /\ misled' = misled
  BY RowChanged DEF CreateJob
<1>2. /\ Submitted(job[k]).status = "pending"
      /\ Submitted(job[k]).import = (k \in Imports)
      /\ ~Submitted(job[k]).payload
      /\ Submitted(job[k]).file = job[k].file
  BY <1>1, RowFields DEF RowShape, TypeInv, JobOK
<1>3. PhaseOf(Submitted(job[k]))
        = IF k \in Imports THEN "importing" ELSE "reporting"
  BY <1>2 DEF PhaseOf
<1>4. phaseOf' = [phaseOf EXCEPT ![k] =
                    IF k \in Imports THEN "importing" ELSE "reporting"]
  BY <1>1, <1>3, PhaseMoved
<1>5. phaseOf[k] = "absent"
  BY <1>1 DEF phaseOf, PhaseOf
<1>6. workbookOf' = workbookOf
  BY <1>1, <1>2 DEF workbookOf, TypeInv, JobOK
<1>7. leavingOf' = leavingOf
  BY <1>1 DEF leavingOf
<1>8. exposedOf' = exposedOf
  BY <1>1, <1>2, SameExposed DEF TypeInv, JobOK
<1>9. Lifecycle!Submit(k)
  BY <1>8, <1>4, <1>5, <1>6, <1>7 DEF Lifecycle!Submit, Lifecycle!Move
<1> QED
  BY <1>9 DEF Lifecycle!Next

LEMMA CancelRefines ==
  ASSUME TypeInv, NEW k \in Job, CancelImport(k)
  PROVE  Lifecycle!Next
<1>1. /\ job[k].status \in {"pending", "running"}
      /\ job' = [job EXCEPT ![k] = Cancelled(job[k])]
      /\ store' = store /\ deleting' = deleting /\ k \in Imports
      /\ misled' = misled
  BY RowChanged DEF CancelImport
<1>2. Cancelled(job[k]).status = "cancelled" /\ Cancelled(job[k]).file = job[k].file
  BY RowFields DEF TypeInv, JobOK
<1>3. phaseOf' = [phaseOf EXCEPT ![k] = "cancelled"]
  BY <1>1, <1>2, PhaseMoved DEF PhaseOf
<1>4. phaseOf[k] \in {"importing", "reporting"}
  BY <1>1 DEF phaseOf, PhaseOf
<1>5. workbookOf' = workbookOf
  BY <1>1, <1>2 DEF workbookOf, TypeInv, JobOK
<1>6. leavingOf' = leavingOf
  BY <1>1 DEF leavingOf
<1>7. exposedOf' = exposedOf
  BY <1>1, <1>2, SameExposed DEF TypeInv, JobOK
<1>8. Lifecycle!Cancel(k)
  BY <1>7, <1>1, <1>3, <1>4, <1>5, <1>6
     DEF Lifecycle!Cancel, Lifecycle!Move, Lifecycle!Active
<1> QED
  BY <1>8 DEF Lifecycle!Next

LEMMA WithdrawRefines ==
  ASSUME TypeInv, NEW k \in Job, DestroyObject(k) \/ RetireObject(k)
  PROVE  Lifecycle!Next
<1>1. /\ job' = job /\ misled' = misled
      /\ store' = [store EXCEPT ![k] = @ \ {job[k].file}]
      /\ deleting[k] = "no" /\ deleting'[k] # "no"
      /\ \A j \in Job \ {k} : deleting'[j] = deleting[j]
      /\ Exists(job[k])
  BY DEF DestroyObject, RetireObject, Exists, TypeInv, RestOK
<1>2. phaseOf' = phaseOf
  BY <1>1 DEF phaseOf
<1>3. phaseOf[k] \in {"importing", "reporting", "published", "failed",
                      "cancelled"}
  BY <1>1 DEF phaseOf, PhaseOf, Exists, TypeInv, JobOK, Row
<1>4. leavingOf' = leavingOf \union {k}
  BY <1>1 DEF leavingOf
<1>5. workbookOf' = workbookOf \ {k}
  BY <1>1 DEF workbookOf, TypeInv, RestOK
<1>6. exposedOf' = exposedOf
  BY <1>1 DEF exposedOf
<1>7. Lifecycle!Withdraw(k)
  BY <1>6, <1>2, <1>3, <1>4, <1>5
     DEF Lifecycle!Withdraw, Lifecycle!Active, Lifecycle!Settled
<1> QED
  BY <1>7 DEF Lifecycle!Next

LEMMA RemoveRefines ==
  ASSUME TypeInv, NEW k \in Job, DeleteRow(k)
  PROVE  Lifecycle!Next
<1> DEFINE gone == [NewRow(k) EXCEPT !.status = "deleted"]
<1>1. gone.status = "deleted" /\ gone.file = NoTask
  BY DEF NewRow
<1>2. /\ store' = store /\ misled' = misled
      /\ deleting[k] # "no" /\ deleting'[k] = "no"
      /\ \A j \in Job \ {k} : deleting'[j] = deleting[j]
      /\ \/ job' = [job EXCEPT ![k] = gone]
         \/ /\ job' = job
            /\ job[k].status \notin {"done", "failed", "cancelled"}
  BY DEF DeleteRow, TypeInv, RestOK
<1> HIDE DEF gone
<1>3. k \in leavingOf /\ leavingOf' = leavingOf \ {k}
  BY <1>2 DEF leavingOf
<1>4. CASE job' = [job EXCEPT ![k] = gone]
  <2>1. phaseOf' = [phaseOf EXCEPT ![k] = "deleted"]
    BY <1>1, <1>4, PhaseMoved DEF PhaseOf
  <2>2. workbookOf' = workbookOf \ {k}
    BY <1>1, <1>2, <1>4 DEF workbookOf, TypeInv, JobOK
  <2>3. exposedOf' = exposedOf \ {k}
    BY <1>1, <1>2, <1>4, JobStateAssumption DEF exposedOf, TypeInv, JobOK, RestOK
  <2>4. Lifecycle!Remove(k)
    BY <1>3, <2>1, <2>2, <2>3 DEF Lifecycle!Remove, Lifecycle!Move
  <2> QED
    BY <2>4 DEF Lifecycle!Next
<1>5. CASE job' = job /\ job[k].status \notin {"done", "failed", "cancelled"}
  <2>1. phaseOf' = phaseOf /\ workbookOf' = workbookOf /\ exposedOf' = exposedOf
    BY <1>2, <1>5 DEF phaseOf, workbookOf, exposedOf
  <2>2. phaseOf[k] \notin {"published", "failed", "cancelled"}
    BY <1>5 DEF phaseOf, PhaseOf
  <2>3. Lifecycle!Remove(k)
    BY <1>3, <2>1, <2>2 DEF Lifecycle!Remove, Lifecycle!Settled
  <2> QED
    BY <2>3 DEF Lifecycle!Next
<1> QED
  BY <1>2, <1>4, <1>5

\* A workbook that is published by a task that was not misled is in storage.
LEMMA PublishRefines ==
  ASSUME TypeInv, SavedOK, KindOK, FileDone, OneJob, NEW w \in Worker,
         NEW k \in Job, k = exec[w].msg.job, exec[w].pc = "finish",
         job[k].status = "running",
         job' = [job EXCEPT ![k] = Completed(job[k], TaskOf(w))],
         store' = store, deleting' = deleting,
         misled' \in {misled, misled \union {TaskOf(w)}}
  PROVE  Lifecycle!Next
<1>1. /\ Completed(job[k], TaskOf(w)).status = "done"
      /\ Completed(job[k], TaskOf(w)).file = TaskOf(w)
  BY RowFields DEF TypeInv, JobOK
<1>2. /\ TaskOf(w) # NoTask /\ TaskOf(w) \in Task
      /\ TaskOf(w) \notin misled => TaskOf(w) \in store[k]
  BY Busy, JobStateAssumption DEF TaskOf, TypeInv, SavedOK
<1>3. phaseOf' = [phaseOf EXCEPT ![k] = "published"]
  BY <1>1, <1>2, PhaseMoved DEF PhaseOf
<1>4. Ready(job[k])
  BY DEF KindOK, ReportStep, RowOf
<1>5. phaseOf[k] = "reporting"
  BY <1>4 DEF Ready, phaseOf, PhaseOf
<1>6. workbookOf' = IF TaskOf(w) \in store[k] THEN workbookOf \union {k}
                    ELSE workbookOf \ {k}
  BY <1>1 DEF workbookOf, TypeInv, JobOK
<1>7. \A j \in Job \ {k} : job'[j] = job[j] /\ job[j].file # TaskOf(w)
  <2>1. Mention(TaskOf(w), k)
    BY DEF Mention
  <2> QED
    BY <1>2, <2>1 DEF OneJob, Mention, TypeInv, JobOK
<1>8. k \notin exposedOf
  BY JobStateAssumption DEF exposedOf, FileDone, TypeInv, RestOK
<1>9. exposedOf' = IF TaskOf(w) \in misled' THEN exposedOf \union {k} ELSE exposedOf
  BY <1>1, <1>7, <1>8 DEF exposedOf, TypeInv, JobOK
<1>10. leavingOf' = leavingOf
  BY DEF leavingOf
<1>11. \/ workbookOf' = workbookOf \union {k} /\ exposedOf' = exposedOf
       \/ /\ workbookOf' \in {workbookOf \union {k}, workbookOf \ {k}}
          /\ exposedOf' = exposedOf \union {k}
  BY <1>2, <1>6, <1>9
<1>12. Lifecycle!Publish(k)
  BY <1>3, <1>5, <1>10, <1>11
     DEF Lifecycle!Publish, Lifecycle!Move, Lifecycle!Either
<1> QED
  BY <1>12 DEF Lifecycle!Next

LEMMA FinishRefines ==
  ASSUME TypeInv, SavedOK, KindOK, FileDone, OneJob, NEW w \in Worker,
         Finish(w) \/ FinishUnacknowledged(w)
  PROVE  Lifecycle!Next \/ UNCHANGED <<phaseOf, leavingOf, workbookOf, exposedOf>>
<1>1. CASE Finish(w)
  <2>1. /\ exec[w].msg.job \in Job /\ exec[w].pc = "finish"
        /\ store' = store /\ deleting' = deleting /\ misled' = misled
    BY <1>1, RowChanged DEF Finish, At
  <2>2. CASE job' = job
    BY <2>1, <2>2, Stutter DEF Booked
  <2>3. CASE job' # job
    BY <1>1, <2>1, <2>3, RowChanged, PublishRefines
  <2> QED
    BY <2>2, <2>3
<1>2. CASE FinishUnacknowledged(w)
  BY <1>2, UnacknowledgedRow, PublishRefines DEF FinishUnacknowledged, At
<1> QED
  BY <1>1, <1>2

LEMMA HandoffRefines ==
  ASSUME TypeInv, NEW w \in Worker, Handoff(w)
  PROVE  Lifecycle!Next \/ UNCHANGED <<phaseOf, leavingOf, workbookOf, exposedOf>>
<1> DEFINE k == exec[w].msg.job
<1>1. k \in Job /\ store' = store /\ deleting' = deleting /\ misled' = misled
  BY RowChanged DEF Handoff
<1>2. leavingOf' = leavingOf
  BY <1>1 DEF leavingOf
<1>3. CASE job' = job
  BY <1>1, <1>2, <1>3 DEF phaseOf, workbookOf, exposedOf
<1>4. CASE /\ job[k].status = "running"
           /\ job' = [job EXCEPT ![k] = HandedOff(job[k])]
  <2>1. /\ HandedOff(job[k]).status = "pending" /\ HandedOff(job[k]).payload
        /\ HandedOff(job[k]).file = job[k].file
    BY <1>1, RowFields DEF TypeInv, JobOK
  <2>2. phaseOf' = [phaseOf EXCEPT ![k] = "reporting"]
    BY <1>1, <1>4, <2>1, PhaseMoved DEF PhaseOf
  <2>3. phaseOf[k] \in {"importing", "reporting"}
    BY <1>1, <1>4 DEF phaseOf, PhaseOf
  <2>4. workbookOf' = workbookOf
    BY <1>1, <1>4, <2>1 DEF workbookOf, TypeInv, JobOK
  <2>5. exposedOf' = exposedOf
    BY <1>1, <1>4, <2>1, SameExposed DEF TypeInv, JobOK
  <2>6. CASE phaseOf[k] = "importing"
    <3>1. Lifecycle!CommitRows(k)
      BY <1>2, <2>2, <2>4, <2>6, <2>5 DEF Lifecycle!CommitRows, Lifecycle!Move
    <3> QED
      BY <1>1, <3>1 DEF Lifecycle!Next
  <2>7. CASE phaseOf[k] = "reporting"
    BY <1>1, <1>2, <2>2, <2>4, <2>7, <2>5 DEF phaseOf
  <2> QED
    BY <2>3, <2>6, <2>7
<1> QED
  BY <1>3, <1>4, RowChanged

\* An object of a published workbook comes or goes only if its task was misled.
LEMMA ObjectRefines ==
  ASSUME TypeInv, PublishedQuiet, NEW w \in Worker,
         ObjectAdded(w) \/ ObjectDropped(w)
  PROVE  Lifecycle!Next \/ UNCHANGED <<phaseOf, leavingOf, workbookOf, exposedOf>>
<1> DEFINE k == exec[w].msg.job
<1>1. /\ k \in Job /\ TaskOf(w) \in Task
      /\ exec[w].pc \in {"save", "discard", "undo"}
      /\ job' = job /\ deleting' = deleting /\ misled' = misled
      /\ \/ store' = [store EXCEPT ![k] = @ \union {TaskOf(w)}]
         \/ store' = [store EXCEPT ![k] = @ \ {TaskOf(w)}]
  BY Busy DEF ObjectAdded, ObjectDropped, TypeInv, TaskOf
<1> HIDE DEF k
<1>2. \A j \in Job \ {k} : store'[j] = store[j]
  BY <1>1 DEF TypeInv, RestOK
<1>3. phaseOf' = phaseOf /\ leavingOf' = leavingOf /\ exposedOf' = exposedOf
  BY <1>1 DEF phaseOf, leavingOf, exposedOf
<1>4. CASE job[k].file = TaskOf(w)
  <2>1. k \in exposedOf
    BY <1>1, <1>4, JobStateAssumption DEF PublishedQuiet, exposedOf
  <2>2. workbookOf' \in {workbookOf \union {k}, workbookOf \ {k}}
    BY <1>1, <1>2 DEF workbookOf
  <2>3. Lifecycle!Disturb(k)
    BY <1>3, <2>1, <2>2 DEF Lifecycle!Disturb, Lifecycle!Either
  <2> QED
    BY <1>1, <2>3 DEF Lifecycle!Next
<1>5. CASE job[k].file # TaskOf(w)
  <2>1. job[k].file \in store'[k] <=> job[k].file \in store[k]
    BY <1>1, <1>5 DEF TypeInv, RestOK
  <2>2. workbookOf' = workbookOf
    BY <1>1, <1>2, <2>1 DEF workbookOf
  <2> QED
    BY <1>3, <2>2
<1> QED
  BY <1>4, <1>5

\* A task is misled: the job whose workbook is named after it is exposed.
LEMMA MisledRefines ==
  ASSUME TypeInv, OneJob, FileDone, UNCHANGED <<job, store, deleting>>,
         NEW t \in Task, misled' = misled \union {t}
  PROVE  Lifecycle!Next \/ UNCHANGED <<phaseOf, leavingOf, workbookOf, exposedOf>>
<1>1. phaseOf' = phaseOf /\ leavingOf' = leavingOf /\ workbookOf' = workbookOf
  BY DEF phaseOf, leavingOf, workbookOf
<1>2. CASE \A j \in Job : job[j].file # t
  <2>1. exposedOf' = exposedOf
    BY <1>2 DEF exposedOf
  <2> QED
    BY <1>1, <2>1
<1>3. ASSUME NEW k \in Job, job[k].file = t
      PROVE  Lifecycle!Next
  <2>1. \A j \in Job : job[j].file = t => j = k
    BY <1>3 DEF OneJob, Mention
  <2>2. exposedOf' = exposedOf \union {k}
    BY <1>3, <2>1 DEF exposedOf
  <2>3. job[k].status = "done" /\ job[k].file # NoTask
    BY <1>3, JobStateAssumption DEF FileDone
  <2>4. phaseOf[k] = "published"
    BY <2>3 DEF phaseOf, PhaseOf
  <2>5. Lifecycle!Expose(k)
    BY <1>1, <2>2, <2>4 DEF Lifecycle!Expose
  <2> QED
    BY <2>5 DEF Lifecycle!Next
<1> QED
  BY <1>2, <1>3

LEMMA TickRefines ==
  ASSUME TypeInv, Tick
  PROVE  UNCHANGED <<phaseOf, leavingOf, workbookOf, exposedOf>>
<1>1. \A j \in Job : /\ job'[j].status = job[j].status
                     /\ job'[j].import = job[j].import
                     /\ job'[j].payload = job[j].payload
                     /\ job'[j].file = job[j].file
  BY RowFields DEF Tick, TypeInv, JobOK
<1>2. \A j \in Job : PhaseOf(job'[j]) = PhaseOf(job[j])
  BY <1>1 DEF PhaseOf
<1>3. phaseOf' = phaseOf
  BY <1>2 DEF phaseOf
<1>4. workbookOf' = workbookOf
  BY <1>1 DEF Tick, workbookOf
<1>5. exposedOf' = exposedOf
  BY <1>1, SameExposed DEF Tick
<1> QED
  BY <1>3, <1>4, <1>5 DEF Tick, leavingOf

\* What users see of a job is what JobLifecycle allows, whatever fails: every
\* step of the machinery moves one job one phase on, exposes or disturbs a
\* workbook whose task was misled, or is invisible (claim_job,
\* generate_report_task, run_asset_import_task, recover_stale_report_jobs).
THEOREM Refinement == Spec => ImplementsLifecycle
<1>1. Init => Lifecycle!Init
  <2> SUFFICES ASSUME Init PROVE Lifecycle!Init
    OBVIOUS
  <2>1. PICK old \in SUBSET Legacy :
          job = [j \in Job |-> IF j \in old THEN LegacyRow(j) ELSE NewRow(j)]
    BY DEF Init
  <2>2. \A j \in Job :
          PhaseOf(job[j]) = IF j \in old THEN "reporting" ELSE "absent"
    BY <2>1 DEF LegacyRow, NewRow, PhaseOf
  <2>5. phaseOf = [j \in Job |-> IF j \in old THEN "reporting" ELSE "absent"]
    BY <2>2 DEF phaseOf
  <2>3. leavingOf = {}
    BY DEF Init, leavingOf
  <2>4. workbookOf = {}
    BY DEF Init, workbookOf
  <2>6. exposedOf = {}
    BY DEF Init, exposedOf
  <2> QED
    BY <2>5, <2>3, <2>4, <2>6 DEF Lifecycle!Init
<1>2. /\ RefInv /\ RefInv' /\ [Next]_vars
      => [Lifecycle!Next]_<<phaseOf, leavingOf, workbookOf, exposedOf>>
  <2> SUFFICES ASSUME RefInv, RefInv', [Next]_vars
               PROVE  \/ Lifecycle!Next
                      \/ UNCHANGED <<phaseOf, leavingOf, workbookOf, exposedOf>>
    OBVIOUS
  <2>1. /\ TypeInv /\ TypeInv' /\ OneJob /\ PublishedQuiet /\ SavedOK
        /\ RowShape /\ FileDone /\ KindOK
    BY DEF RefInv
  <2>2. BookMove
    BY <2>1, NextBookMove
  <2>3. CASE /\ UNCHANGED <<job, store, deleting>>
             /\ misled' = misled \/ \E t \in Task : misled' = misled \union {t}
    BY <2>1, <2>3, MisledRefines
       DEF phaseOf, leavingOf, workbookOf, exposedOf
  <2> QED
    BY <2>1, <2>2, <2>3, RowRefines, CreateRefines, CancelRefines,
       WithdrawRefines, RemoveRefines, FinishRefines, HandoffRefines,
       ObjectRefines, TickRefines DEF BookMove
<1> QED
  BY <1>1, <1>2, RefInvariant, PTL
     DEF Spec, ImplementsLifecycle, Lifecycle!Spec, Lifecycle!vars

-----------------------------------------------------------------------------
(* The files of a job: its source file until its rows are committed, its   *)
(* workbook from the moment it is stored.                                  *)

\* A job that no execution will import rows for any more.
Spent(r) == r.payload \/ r.status \in {"failed", "cancelled", "deleted"}

\* Somebody is about to delete the job's source file.
Doomed(j) ==
  \/ j \in cancelling
  \/ sweep.drop = j
  \/ deleting[j] = "retention"
  \/ \E w \in Worker : exec[w].pc \in {"handed", "drop"} /\ exec[w].msg.job = j

DoomedSpent == \A j \in Imports : Doomed(j) => Spent(job[j])

DonePaid == \A j \in Imports : job[j].status = "done" => job[j].payload

FinishStored == \A w \in Worker : exec[w].pc = "finish" => exec[w].stored

FilesInv ==
  /\ TypeInv /\ FinishStored /\ RowShape /\ KindOK
  /\ DonePaid /\ DoomedSpent /\ UploadKept

-----------------------------------------------------------------------------
(* How a step may move an execution that imports, that is about to drop a  *)
(* source file, or that answers for an object.                             *)

Loading == {"load", "rows"}
Dropping == {"handed", "drop"}
Answering == {"finish", "discard", "undo"}

Stays(v, stage) == exec[v].pc \in stage /\ exec'[v].msg = exec[v].msg

\* An execution is killed, or its clean-up fails.
Lost(v) == Crash(v) \/ HardLimit(v) \/ DeleteObjectFails(v)
Leaves(v) == (Finish(v) /\ HasLease(v)) \/ DeleteObject(v) \/ Lost(v)

StageMove ==
  \A v \in Worker :
    /\ exec'[v].pc \in Loading =>
         Stays(v, Loading) \/ ~job'[exec'[v].msg.job].payload
    /\ exec'[v].pc \in Dropping =>
         Stays(v, Dropping) \/ Spent(job'[exec'[v].msg.job])
    /\ exec[v].pc \in Answering =>
         Leaves(v) \/ (exec'[v].pc \in Answering /\ exec'[v].msg = exec[v].msg)
    /\ exec'[v].pc = "finish" =>
         exec'[v].stored \/ (exec[v].pc = "finish" /\ exec'[v].stored = exec[v].stored)

LEMMA StageStay ==
  ASSUME UNCHANGED exec
  PROVE  StageMove
BY DEF StageMove, Stays

LEMMA StageEnd ==
  ASSUME TypeInv, NEW w \in Worker, exec' = [exec EXCEPT ![w] = Idle],
         exec[w].pc \in Answering => Leaves(w)
  PROVE  StageMove
<1>1. exec'[w].pc = "idle"
  BY DEF TypeInv, ExecOK, Idle, Started
<1>2. \A v \in Worker \ {w} : exec'[v] = exec[v]
  BY DEF TypeInv, ExecOK
<1> QED
  BY <1>1, <1>2 DEF StageMove, Stays, Loading, Dropping

LEMMA StageFlag ==
  ASSUME TypeInv, NEW w \in Worker, exec[w].pc # "idle", NEW p, NEW b,
         p # "finish",
         p \in Loading => exec[w].pc \in Loading,
         p \in Dropping => Spent(job'[exec[w].msg.job]),
         exec[w].pc \in Answering => p \in Answering \/ Leaves(w),
         \/ exec' = [exec EXCEPT ![w].pc = p]
         \/ exec' = [exec EXCEPT ![w].pc = p, ![w].transient = b]
  PROVE  StageMove
<1>1. exec[w] \in Execution
  BY Busy DEF TypeInv
<1>2. exec'[w].pc = p /\ exec'[w].msg = exec[w].msg
  BY <1>1 DEF TypeInv, ExecOK, Execution
<1>3. \A v \in Worker \ {w} : exec'[v] = exec[v]
  BY DEF TypeInv, ExecOK
<1> QED
  BY <1>2, <1>3 DEF StageMove, Stays

LEMMA StageGoto ==
  ASSUME TypeInv, NEW w \in Worker, exec[w].pc # "idle", NEW p, Goto(w, p),
         p # "finish",
         p \in Loading => exec[w].pc \in Loading,
         p \in Dropping => Spent(job'[exec[w].msg.job]),
         exec[w].pc \in Answering => p \in Answering \/ Leaves(w)
  PROVE  StageMove
BY StageFlag DEF Goto

LEMMA StageStart ==
  ASSUME TypeInv, NEW w \in Worker, exec[w].pc = "idle", NEW m, NEW p,
         p \in {"load", "drop", "build", "handoff", "publish", "ack"},
         p = "load" => ~job'[m.job].payload,
         p = "drop" => Spent(job'[m.job]),
         Begin(w, m, p)
  PROVE  StageMove
<1>1. exec'[w].pc = p /\ exec'[w].msg = m
  BY DEF TypeInv, ExecOK, Begin, Started
<1>2. \A v \in Worker \ {w} : exec'[v] = exec[v]
  BY DEF TypeInv, ExecOK, Begin
<1> QED
  BY <1>1, <1>2 DEF StageMove, Stays, Loading, Dropping, Answering

LEMMA StageReturn ==
  ASSUME TypeInv, NEW c \in Caller, Return(c),
         Calling(c) \/ enq[c].task # NoTask
  PROVE  StageMove
<1>1. CASE c \in Worker
  <2>1. exec[c].pc = "enqueue"
    BY <1>1 DEF TypeInv, CallsOK, NoCall, Calling
  <2>2. Goto(c, "ack")
    BY <1>1 DEF Return
  <2> QED
    BY <1>1, <2>1, <2>2, StageGoto DEF Loading, Dropping, Answering
<1>2. CASE c \notin Worker
  BY <1>2, StageStay DEF Return
<1> QED
  BY <1>1, <1>2

LEMMA ClaimKeepsPayload ==
  ASSUME NEW r \in Row, NEW t, NEW b
  PROVE  ClaimedRow(r, t, b).payload = r.payload
BY DEF ClaimedRow, Failed, Row

LEMMA NextStageMove ==
  ASSUME TypeInv, FinishStored, [Next]_vars
  PROVE  StageMove
<1>1. ASSUME NEW j \in Job, CreateJob(j)
      PROVE  StageMove
  BY <1>1, StageStay DEF CreateJob
<1>2. ASSUME NEW j \in Job, CancelImport(j)
      PROVE  StageMove
  BY <1>2, StageStay DEF CancelImport
<1>3. ASSUME NEW j \in Job, CancelCleanup(j)
      PROVE  StageMove
  BY <1>3, StageStay DEF CancelCleanup
<1>4. ASSUME NEW j \in Job, DestroyObject(j)
      PROVE  StageMove
  BY <1>4, StageStay DEF DestroyObject
<1>5. ASSUME NEW j \in Job, RetireObject(j)
      PROVE  StageMove
  BY <1>5, StageStay DEF RetireObject
<1>6. ASSUME NEW j \in Job, DeleteRow(j)
      PROVE  StageMove
  BY <1>6, StageStay DEF DeleteRow
<1>7. ASSUME NEW c \in Caller, Reserve(c)
      PROVE  StageMove
  BY <1>7, StageStay DEF Reserve
<1>8. ASSUME NEW c \in Caller, ReserveRefused(c)
      PROVE  StageMove
  BY <1>8, StageReturn DEF ReserveRefused
<1>9. ASSUME NEW c \in Caller, ReserveMissing(c)
      PROVE  StageMove
  BY <1>9, StageReturn DEF ReserveMissing
<1>10. ASSUME NEW c \in Caller, Send(c)
       PROVE  StageMove
  BY <1>10, StageReturn DEF Send
<1>11. ASSUME NEW c \in Caller, SendFails(c)
       PROVE  StageMove
  BY <1>11, StageReturn DEF SendFails
<1>12. ASSUME NEW c \in Caller, CallerCrash(c)
       PROVE  StageMove
  BY <1>12, StageStay DEF CallerCrash
<1>13. ASSUME NEW w \in Worker, NEW m \in queue, Deliver(w, m)
       PROVE  StageMove
  <2>1. m.job \in Job /\ m.task \in Task /\ m.redelivered \in BOOLEAN
    BY QueueTask DEF TypeInv, RestOK, Message
  <2>2. job[m.job] \in Row
    BY <2>1 DEF TypeInv, JobOK
  <2>3. Starts(m, job[m.job]) \in {"build", "handoff", "load"}
    BY DEF Starts
  <2> DEFINE row == ClaimedRow(job[m.job], m.task, m.redelivered)
  <2> HIDE DEF row
  <2>4. exec[w].pc = "idle"
    BY <1>13 DEF Deliver
  <2>5. CASE Exists(job[m.job])
    <3>1. job'[m.job] = row
      BY <1>13, <2>1, <2>5 DEF Deliver, TypeInv, JobOK, row
    <3>2. \/ Begin(w, m, Starts(m, job[m.job])) \/ Begin(w, m, "ack")
          \/ Begin(w, m, "drop") /\ row.status \in {"cancelled", "failed"}
      BY <1>13, <2>5 DEF Deliver, DropsUpload, row
    <3>3. Starts(m, job[m.job]) = "load" => ~job'[m.job].payload
      BY <2>1, <2>2, <3>1, ClaimKeepsPayload DEF Starts, row
    <3> QED
      BY <2>3, <2>4, <3>1, <3>2, <3>3, StageStart DEF Spent
  <2>6. CASE ~Exists(job[m.job])
    <3>1. Begin(w, m, "ack")
      BY <1>13, <2>6 DEF Deliver
    <3> QED
      BY <2>4, <3>1, StageStart
  <2> QED
    BY <2>5, <2>6
<1>14. ASSUME NEW w \in Worker, NEW m \in queue, DeliverFails(w, m)
       PROVE  StageMove
  <2>1. exec[w].pc = "idle" /\ \E p \in {"publish", "ack"} : Begin(w, m, p)
    BY <1>14 DEF DeliverFails
  <2> QED
    BY <2>1, StageStart
<1>15. ASSUME NEW w \in Worker, Crash(w)
       PROVE  StageMove
  BY <1>15, StageEnd DEF Answering, Crash, Lost, Leaves
<1>16. ASSUME NEW w \in Worker, HardLimit(w)
       PROVE  StageMove
  BY <1>16, StageEnd DEF Answering, HardLimit, Lost, Leaves
<1>17. ASSUME NEW w \in Worker, Redeliver(w)
       PROVE  StageMove
  BY <1>17, StageStay DEF Redeliver
<1>18. ASSUME NEW w \in Worker, Phase(w)
       PROVE  StageMove
  <2>1. exec[w].pc # "idle"
    BY <1>18 DEF Phase, At, AfterLease
  <2>2. \E p \in {"render", "workbook", "save", "ack"} : Goto(w, p)
    BY <1>18 DEF Phase, At, End, AfterLease
  <2> QED
    BY <1>18, <2>1, <2>2, StageGoto
       DEF Loading, Dropping, Answering, Phase, At, AfterLease
<1>19. ASSUME NEW w \in Worker, SaveObject(w)
       PROVE  StageMove
  <2>1. exec[w] \in Execution /\ exec[w].pc = "save"
    BY <1>19, Busy DEF SaveObject, At, TypeInv
  <2>2. exec'[w].pc = "finish" /\ exec'[w].stored
    BY <1>19, <2>1 DEF SaveObject, TypeInv, ExecOK, Execution
  <2>3. \A v \in Worker \ {w} : exec'[v] = exec[v]
    BY <1>19 DEF SaveObject, TypeInv, ExecOK
  <2> QED
    BY <2>1, <2>2, <2>3 DEF StageMove, Stays, Loading, Dropping, Answering
<1>20. ASSUME NEW w \in Worker, SaveUnacknowledged(w)
       PROVE  StageMove
  <2>1. PICK p \in {"retry", "fail"} : exec' = [exec EXCEPT ![w].pc = p]
    BY <1>20 DEF SaveUnacknowledged, Settle
  <2> QED
    BY <1>20, <2>1, StageFlag
       DEF SaveUnacknowledged, At, Loading, Dropping, Answering
<1>21. ASSUME NEW w \in Worker, Finish(w)
       PROVE  StageMove
  <2>1. exec[w].pc = "finish"
    BY <1>21 DEF Finish, At
  <2>2. \/ HasLease(w) /\ Goto(w, "ack")
        \/ Goto(w, "discard") \/ Goto(w, "undo")
    BY <1>21 DEF Finish, End
  <2> QED
    BY <1>21, <2>1, <2>2, StageGoto DEF Loading, Dropping, Answering, Leaves
<1>22. ASSUME NEW w \in Worker, FinishUnacknowledged(w)
       PROVE  StageMove
  <2>1. PICK p \in {"undo"} :
          exec' = [exec EXCEPT ![w].pc = p, ![w].transient = TRUE]
    BY <1>22 DEF FinishUnacknowledged
  <2> QED
    BY <1>22, <2>1, StageFlag
       DEF FinishUnacknowledged, At, Loading, Dropping, Answering
<1>23. ASSUME NEW w \in Worker, DeleteObject(w)
       PROVE  StageMove
  <2>1. exec[w].pc # "idle"
    BY <1>23 DEF DeleteObject, At
  <2>2. \E p \in {"ack", "retry", "fail"} : Goto(w, p)
    BY <1>23 DEF DeleteObject, At, End, AfterDelete, Settle
  <2> QED
    BY <1>23, <2>1, <2>2, StageGoto
       DEF Loading, Dropping, Answering, DeleteObject, At, Leaves
<1>24. ASSUME NEW w \in Worker, DeleteObjectFails(w)
       PROVE  StageMove
  <2>1. exec[w].pc # "idle"
    BY <1>24 DEF DeleteObjectFails, At
  <2>2. \E p \in {"ack", "retry", "fail"} : Goto(w, p)
    BY <1>24 DEF DeleteObjectFails, At, End, AfterDelete, Settle
  <2> QED
    BY <1>24, <2>1, <2>2, StageGoto
       DEF Loading, Dropping, Answering, DeleteObjectFails, At, Leaves, Lost
<1>25. ASSUME NEW w \in Worker, LoadFile(w)
       PROVE  StageMove
  <2>1. exec[w].pc # "idle"
    BY <1>25 DEF LoadFile, At
  <2>2. \E p \in {"rows", "fail"} : Goto(w, p)
    BY <1>25 DEF LoadFile, At, End
  <2> QED
    BY <1>25, <2>1, <2>2, StageGoto
       DEF Loading, Dropping, Answering, LoadFile, At
<1>26. ASSUME NEW w \in Worker, RowsDone(w)
       PROVE  StageMove
  <2>1. exec[w].pc # "idle"
    BY <1>26 DEF RowsDone, At
  <2>2. \E p \in {"refresh"} : Goto(w, p)
    BY <1>26 DEF RowsDone, At, End
  <2> QED
    BY <1>26, <2>1, <2>2, StageGoto
       DEF Loading, Dropping, Answering, RowsDone, At
<1>27. ASSUME NEW w \in Worker, Refresh(w)
       PROVE  StageMove
  <2>1. exec[w].pc = "refresh" /\ exec[w].msg.job \in Job /\ job' = job
    BY <1>27, Busy DEF Refresh, At, TypeInv
  <2>2. \/ Goto(w, "drop") /\ RowOf(w).status = "cancelled"
        \/ Goto(w, "fail") \/ Goto(w, "handoff")
    BY <1>27 DEF Refresh
  <2> QED
    BY <2>1, <2>2, StageGoto DEF Loading, Dropping, Answering, RowOf, Spent
<1>28. ASSUME NEW w \in Worker, CheckRows(w)
       PROVE  StageMove
  <2>1. exec' = exec \/ \E p \in {"refresh", "fail", "ack"} : Goto(w, p)
    BY <1>28 DEF CheckRows, End
  <2> QED
    BY <1>28, <2>1, StageGoto, StageStay
       DEF Loading, Dropping, Answering, CheckRows, At
<1>29. ASSUME NEW w \in Worker, Handoff(w)
       PROVE  StageMove
  <2>1. exec[w].pc = "handoff" /\ exec[w].msg.job \in Job
    BY <1>29, Busy DEF Handoff, At, TypeInv
  <2>2. CASE HasLease(w)
    <3>1. job'[exec[w].msg.job].payload
      BY <1>29, <2>1, <2>2, RowFields DEF Handoff, TypeInv, JobOK
    <3> QED
      BY <1>29, <2>1, <2>2, <3>1, StageGoto
         DEF Loading, Dropping, Answering, Handoff, Spent
  <2>3. CASE ~HasLease(w)
    BY <1>29, <2>1, <2>3, StageGoto
       DEF Loading, Dropping, Answering, Handoff, End
  <2> QED
    BY <2>2, <2>3
<1>30. ASSUME NEW w \in Worker, DropUpload(w)
       PROVE  StageMove
  <2>1. exec[w].pc # "idle"
    BY <1>30 DEF DropUpload, At
  <2>2. \E p \in {"enqueue", "ack"} : Goto(w, p)
    BY <1>30 DEF DropUpload, At, End
  <2> QED
    BY <1>30, <2>1, <2>2, StageGoto
       DEF Loading, Dropping, Answering, DropUpload, At
<1>31. ASSUME NEW w \in Worker, PrepareRetry(w)
       PROVE  StageMove
  <2>1. exec[w].pc # "idle"
    BY <1>31 DEF PrepareRetry, At
  <2>2. \E p \in {"publish", "fail"} : Goto(w, p)
    BY <1>31 DEF PrepareRetry, At, End
  <2> QED
    BY <1>31, <2>1, <2>2, StageGoto
       DEF Loading, Dropping, Answering, PrepareRetry, At
<1>32. ASSUME NEW w \in Worker, PrepareRetryFails(w)
       PROVE  StageMove
  <2>1. exec[w].pc # "idle"
    BY <1>32 DEF PrepareRetryFails, At
  <2>2. \E p \in {"publish"} : Goto(w, p)
    BY <1>32 DEF PrepareRetryFails, At, End
  <2> QED
    BY <1>32, <2>1, <2>2, StageGoto
       DEF Loading, Dropping, Answering, PrepareRetryFails, At
<1>33. ASSUME NEW w \in Worker, PublishRetry(w)
       PROVE  StageMove
  <2>1. exec[w].pc # "idle"
    BY <1>33 DEF PublishRetry, At
  <2>2. \E p \in {"retried"} : Goto(w, p)
    BY <1>33 DEF PublishRetry, At, End
  <2> QED
    BY <1>33, <2>1, <2>2, StageGoto
       DEF Loading, Dropping, Answering, PublishRetry, At
<1>34. ASSUME NEW w \in Worker, PublishRetryFails(w)
       PROVE  StageMove
  <2>1. exec[w].pc # "idle"
    BY <1>34 DEF PublishRetryFails, At
  <2>2. \E p \in {"retried", "ack"} : Goto(w, p)
    BY <1>34 DEF PublishRetryFails, At, End
  <2> QED
    BY <1>34, <2>1, <2>2, StageGoto
       DEF Loading, Dropping, Answering, PublishRetryFails, At
<1>35. ASSUME NEW w \in Worker, MarkFailed(w)
       PROVE  StageMove
  <2>1. exec[w].pc = "fail" /\ exec[w].msg.job \in Job
    BY <1>35, Busy DEF MarkFailed, At, TypeInv
  <2>2. CASE HasLease(w) /\ exec[w].msg.kind = "import"
    <3>1. job'[exec[w].msg.job].status = "failed"
      BY <1>35, <2>1, <2>2
         DEF MarkFailed, MarkedFailed, Failed, HasLease, RowOf, TaskOf, Owns,
             TypeInv, JobOK, Row
    <3> QED
      BY <1>35, <2>1, <2>2, <3>1, StageGoto
         DEF Loading, Dropping, Answering, MarkFailed, Spent
  <2>3. CASE ~(HasLease(w) /\ exec[w].msg.kind = "import")
    BY <1>35, <2>1, <2>3, StageGoto
       DEF Loading, Dropping, Answering, MarkFailed, End
  <2> QED
    BY <2>2, <2>3
<1>36. ASSUME NEW w \in Worker, MarkFailedFails(w)
       PROVE  StageMove
  <2>1. exec[w].pc # "idle"
    BY <1>36 DEF MarkFailedFails, At
  <2>2. \E p \in {"ack"} : Goto(w, p)
    BY <1>36 DEF MarkFailedFails, At, End
  <2> QED
    BY <1>36, <2>1, <2>2, StageGoto
       DEF Loading, Dropping, Answering, MarkFailedFails, At
<1>37. ASSUME NEW w \in Worker, NEW b \in BOOLEAN, Raise(w, b)
       PROVE  StageMove
  <2>1. exec[w].pc # "idle" /\ exec[w].pc \notin {"discard", "undo"}
    BY <1>37 DEF Raise, Working, ReportStep, ImportStep
  <2>2. PICK p \in {"undo", "retry", "fail"} :
          /\ exec' = [exec EXCEPT ![w].pc = p, ![w].transient = b]
          /\ exec[w].stored => p = "undo"
    BY <1>37 DEF Raise, Settle
  <2> QED
    BY <2>1, <2>2, StageFlag
       DEF Loading, Dropping, Answering, FinishStored
<1>38. ASSUME SweepStart
       PROVE  StageMove
  BY <1>38, StageStay DEF SweepStart
<1>39. ASSUME NEW j \in Job, SweepJob(j)
       PROVE  StageMove
  BY <1>39, StageStay DEF SweepJob
<1>40. ASSUME SweepDrop
       PROVE  StageMove
  BY <1>40, StageStay DEF SweepDrop
<1>41. ASSUME Tick
       PROVE  StageMove
  <2>1. \A v \in Worker : \/ exec'[v] = exec[v]
                          \/ exec'[v] = [exec[v] EXCEPT !.age = @ + 1]
    BY <1>41 DEF Tick
  <2>2. \A v \in Worker : /\ exec'[v].pc = exec[v].pc
                          /\ exec'[v].msg = exec[v].msg
                          /\ exec'[v].stored = exec[v].stored
    <3>1. \A v \in Worker : exec[v] \in Execution \/ exec[v] = Idle
      BY DEF TypeInv, ExecOK
    <3> QED
      BY <2>1, <3>1 DEF Execution, Idle, Started
  <2> QED
    BY <2>2 DEF StageMove, Stays
<1>42. ASSUME UNCHANGED vars
       PROVE  StageMove
  BY <1>42, StageStay DEF vars
<1>43. ASSUME NEW w \in Worker, Ack(w)
       PROVE  StageMove
  BY <1>43, StageEnd DEF Answering, Ack, Finished
<1> QED
  BY <1>1, <1>2, <1>3, <1>4, <1>5, <1>6, <1>7, <1>8, <1>9, <1>10, <1>11,
     <1>12, <1>13, <1>14, <1>15, <1>16, <1>17, <1>18, <1>19, <1>20, <1>21,
     <1>22, <1>23, <1>24, <1>25, <1>26, <1>27, <1>28, <1>29, <1>30, <1>31,
     <1>32, <1>33, <1>34, <1>35, <1>36, <1>37, <1>38, <1>39, <1>40, <1>41,
     <1>42, <1>43
     DEF Next, Request, Enqueue, TaskStep, Outage, Failure, Recovery

\* How a step may change what threatens a source file, and drop one.
ClearanceMove ==
  /\ \A j \in cancelling' : j \in cancelling \/ Spent(job'[j])
  /\ sweep'.drop \in {NoJob, sweep.drop} \/ Spent(job'[sweep'.drop])
  /\ \A j \in Job : deleting'[j] = "retention" =>
       deleting[j] = "retention" \/ RetireObject(j)
  /\ \A j \in upload : j \in upload' \/ Doomed(j) \/ RetireObject(j)

LEMMA NextClearanceMove ==
  ASSUME TypeInv, [Next]_vars
  PROVE  ClearanceMove
<1>1. ASSUME NEW j \in Job, CreateJob(j)
      PROVE  ClearanceMove
  BY <1>1 DEF CreateJob, ClearanceMove
<1>2. ASSUME NEW j \in Job, CancelImport(j)
      PROVE  ClearanceMove
  <2>1. job'[j].status = "cancelled"
    BY <1>2, RowChanged, RowFields DEF TypeInv, JobOK
  <2> QED
    BY <1>2, <2>1 DEF CancelImport, ClearanceMove, Spent
<1>3. ASSUME NEW j \in Job, CancelCleanup(j)
      PROVE  ClearanceMove
  BY <1>3 DEF CancelCleanup, ClearanceMove, Doomed
<1>4. ASSUME NEW j \in Job, DestroyObject(j)
      PROVE  ClearanceMove
  BY <1>4 DEF DestroyObject, ClearanceMove, TypeInv, RestOK
<1>5. ASSUME NEW j \in Job, RetireObject(j)
      PROVE  ClearanceMove
  BY <1>5 DEF RetireObject, ClearanceMove, TypeInv, RestOK
<1>6. ASSUME NEW j \in Job, DeleteRow(j)
      PROVE  ClearanceMove
  BY <1>6 DEF DeleteRow, ClearanceMove, TypeInv, RestOK
<1>7. ASSUME NEW c \in Caller, Reserve(c)
      PROVE  ClearanceMove
  BY <1>7 DEF Reserve, ClearanceMove
<1>8. ASSUME NEW c \in Caller, ReserveRefused(c)
      PROVE  ClearanceMove
  BY <1>8 DEF ReserveRefused, ClearanceMove
<1>9. ASSUME NEW c \in Caller, ReserveMissing(c)
      PROVE  ClearanceMove
  BY <1>9 DEF ReserveMissing, ClearanceMove, NoSweep
<1>10. ASSUME NEW c \in Caller, Send(c)
       PROVE  ClearanceMove
  BY <1>10 DEF Send, ClearanceMove
<1>11. ASSUME NEW c \in Caller, SendFails(c)
       PROVE  ClearanceMove
  BY <1>11 DEF SendFails, ClearanceMove
<1>12. ASSUME NEW c \in Caller, CallerCrash(c)
       PROVE  ClearanceMove
  BY <1>12 DEF CallerCrash, ClearanceMove, NoSweep
<1>13. ASSUME NEW w \in Worker, NEW m \in queue, Deliver(w, m)
       PROVE  ClearanceMove
  BY <1>13 DEF Deliver, ClearanceMove
<1>14. ASSUME NEW w \in Worker, NEW m \in queue, DeliverFails(w, m)
       PROVE  ClearanceMove
  BY <1>14 DEF DeliverFails, ClearanceMove
<1>15. ASSUME NEW w \in Worker, Crash(w)
       PROVE  ClearanceMove
  BY <1>15 DEF Crash, ClearanceMove
<1>16. ASSUME NEW w \in Worker, HardLimit(w)
       PROVE  ClearanceMove
  BY <1>16 DEF HardLimit, ClearanceMove
<1>17. ASSUME NEW w \in Worker, Redeliver(w)
       PROVE  ClearanceMove
  BY <1>17 DEF Redeliver, ClearanceMove
<1>18. ASSUME NEW w \in Worker, Phase(w)
       PROVE  ClearanceMove
  BY <1>18 DEF Phase, ClearanceMove
<1>19. ASSUME NEW w \in Worker, SaveObject(w)
       PROVE  ClearanceMove
  BY <1>19 DEF SaveObject, ClearanceMove
<1>20. ASSUME NEW w \in Worker, SaveUnacknowledged(w)
       PROVE  ClearanceMove
  BY <1>20 DEF SaveUnacknowledged, ClearanceMove
<1>21. ASSUME NEW w \in Worker, Finish(w)
       PROVE  ClearanceMove
  BY <1>21 DEF Finish, ClearanceMove
<1>22. ASSUME NEW w \in Worker, FinishUnacknowledged(w)
       PROVE  ClearanceMove
  BY <1>22 DEF FinishUnacknowledged, ClearanceMove
<1>23. ASSUME NEW w \in Worker, DeleteObject(w)
       PROVE  ClearanceMove
  BY <1>23 DEF DeleteObject, ClearanceMove
<1>24. ASSUME NEW w \in Worker, DeleteObjectFails(w)
       PROVE  ClearanceMove
  BY <1>24 DEF DeleteObjectFails, ClearanceMove
<1>25. ASSUME NEW w \in Worker, LoadFile(w)
       PROVE  ClearanceMove
  BY <1>25 DEF LoadFile, ClearanceMove
<1>26. ASSUME NEW w \in Worker, RowsDone(w)
       PROVE  ClearanceMove
  BY <1>26 DEF RowsDone, ClearanceMove
<1>27. ASSUME NEW w \in Worker, Refresh(w)
       PROVE  ClearanceMove
  BY <1>27 DEF Refresh, ClearanceMove
<1>28. ASSUME NEW w \in Worker, CheckRows(w)
       PROVE  ClearanceMove
  BY <1>28 DEF CheckRows, ClearanceMove
<1>29. ASSUME NEW w \in Worker, Handoff(w)
       PROVE  ClearanceMove
  BY <1>29 DEF Handoff, ClearanceMove
<1>30. ASSUME NEW w \in Worker, DropUpload(w)
       PROVE  ClearanceMove
  BY <1>30 DEF DropUpload, ClearanceMove, Doomed
<1>31. ASSUME NEW w \in Worker, PrepareRetry(w)
       PROVE  ClearanceMove
  BY <1>31 DEF PrepareRetry, ClearanceMove
<1>32. ASSUME NEW w \in Worker, PrepareRetryFails(w)
       PROVE  ClearanceMove
  BY <1>32 DEF PrepareRetryFails, ClearanceMove
<1>33. ASSUME NEW w \in Worker, PublishRetry(w)
       PROVE  ClearanceMove
  BY <1>33 DEF PublishRetry, ClearanceMove
<1>34. ASSUME NEW w \in Worker, PublishRetryFails(w)
       PROVE  ClearanceMove
  BY <1>34 DEF PublishRetryFails, ClearanceMove
<1>35. ASSUME NEW w \in Worker, MarkFailed(w)
       PROVE  ClearanceMove
  BY <1>35 DEF MarkFailed, ClearanceMove
<1>36. ASSUME NEW w \in Worker, MarkFailedFails(w)
       PROVE  ClearanceMove
  BY <1>36 DEF MarkFailedFails, ClearanceMove
<1>37. ASSUME NEW w \in Worker, NEW b \in BOOLEAN, Raise(w, b)
       PROVE  ClearanceMove
  BY <1>37 DEF Raise, ClearanceMove
<1>38. ASSUME SweepStart
       PROVE  ClearanceMove
  BY <1>38 DEF SweepStart, ClearanceMove, NoSweep
<1>39. ASSUME NEW j \in Job, SweepJob(j)
       PROVE  ClearanceMove
  <2>1. /\ upload' = upload /\ cancelling' = cancelling
        /\ deleting' = deleting
    BY <1>39 DEF SweepJob
  <2>2. CASE job' = [job EXCEPT ![j] = RecoveredRow(job[j])]
             /\ RecoveredRow(job[j]).status = "failed"
             /\ sweep' = [sweep EXCEPT !.todo = @ \ {j}, !.drop = j]
    <3>1. job'[j].status = "failed"
      BY <2>2 DEF TypeInv, JobOK
    <3>2. sweep'.drop = j
      BY <2>2 DEF TypeInv, RestOK, Sweep
    <3> QED
      BY <2>1, <3>1, <3>2 DEF ClearanceMove, Spent
  <2>3. CASE sweep' = NoSweep \/ sweep' = [sweep EXCEPT !.todo = @ \ {j}]
    <3>1. sweep'.drop = NoJob \/ sweep'.drop = sweep.drop
      BY <2>3 DEF NoSweep, TypeInv, RestOK, Sweep
    <3> QED
      BY <2>1, <3>1 DEF ClearanceMove
  <2> QED
    BY <1>39, <2>2, <2>3 DEF SweepJob
<1>40. ASSUME SweepDrop
       PROVE  ClearanceMove
  <2>1. sweep'.drop = NoJob
    BY <1>40 DEF SweepDrop, TypeInv, RestOK, Sweep
  <2> QED
    BY <1>40, <2>1 DEF SweepDrop, ClearanceMove, Doomed
<1>41. ASSUME Tick
       PROVE  ClearanceMove
  <2>1. sweep'.drop = sweep.drop
    BY <1>41 DEF Tick, TypeInv, RestOK, Sweep
  <2> QED
    BY <1>41, <2>1 DEF Tick, ClearanceMove
<1>42. ASSUME UNCHANGED vars
       PROVE  ClearanceMove
  BY <1>42 DEF vars, ClearanceMove
<1>43. ASSUME NEW w \in Worker, Ack(w)
       PROVE  ClearanceMove
  BY <1>43 DEF Ack, ClearanceMove
<1> QED
  BY <1>1, <1>2, <1>3, <1>4, <1>5, <1>6, <1>7, <1>8, <1>9, <1>10, <1>11,
     <1>12, <1>13, <1>14, <1>15, <1>16, <1>17, <1>18, <1>19, <1>20, <1>21,
     <1>22, <1>23, <1>24, <1>25, <1>26, <1>27, <1>28, <1>29, <1>30, <1>31,
     <1>32, <1>33, <1>34, <1>35, <1>36, <1>37, <1>38, <1>39, <1>40, <1>41,
     <1>42, <1>43
     DEF Next, Request, Enqueue, TaskStep, Outage, Failure, Recovery

-----------------------------------------------------------------------------
(* The invariants of the files are kept.                                   *)

LEMMA SpentKept ==
  ASSUME TypeInv, BookMove, NEW j \in Job, Spent(job[j])
  PROVE  Spent(job'[j])
<1>1. ASSUME NEW k \in Job, NEW s, RowChange(k, s) PROVE Spent(job'[j])
  <2>1. \/ s = job[k]
        \/ /\ job[k].payload => s.payload
           /\ job[k].status \notin {"failed", "cancelled", "deleted"}
    BY <1>1 DEF RowChange, RowMoves, PhaseOf, Unsettled
  <2> QED
    BY <1>1, <2>1 DEF RowChange, Spent, TypeInv, JobOK
<1>2. ASSUME NEW k \in Job, CreateJob(k) \/ CancelImport(k)
      PROVE  Spent(job'[j])
  BY <1>2, RowChanged, RowFields DEF Spent, TypeInv, JobOK
<1>3. ASSUME NEW k \in Job, DeleteRow(k) PROVE Spent(job'[j])
  <2>1. [NewRow(k) EXCEPT !.status = "deleted"].status = "deleted"
    BY DEF NewRow
  <2> QED
    BY <1>3, <2>1 DEF DeleteRow, Spent, TypeInv, JobOK
<1>4. ASSUME NEW w \in Worker, Finish(w) PROVE Spent(job'[j])
  BY <1>4, RowChanged, RowFields DEF Spent, TypeInv, JobOK
<1>5. ASSUME NEW w \in Worker, FinishUnacknowledged(w) PROVE Spent(job'[j])
  BY <1>5, UnacknowledgedRow, RowFields DEF Spent, TypeInv, JobOK
<1>6. ASSUME NEW w \in Worker, Handoff(w) PROVE Spent(job'[j])
  BY <1>6, RowChanged, RowFields DEF Spent, TypeInv, JobOK
<1>7. ASSUME Tick PROVE Spent(job'[j])
  BY <1>7 DEF Tick, Aged, Spent, TypeInv, JobOK, Row
<1> QED
  BY <1>1, <1>2, <1>3, <1>4, <1>5, <1>6, <1>7
     DEF BookMove, DestroyObject, RetireObject, ObjectAdded,
         ObjectDropped

\* An import is only finished by a report, which is made of its results.
LEMMA NextDonePaid ==
  ASSUME TypeInv, TypeInv', RowShape, KindOK, DonePaid, BookMove
  PROVE  DonePaid'
<1> SUFFICES ASSUME NEW j \in Imports, job'[j].status = "done"
             PROVE  job'[j].payload
  BY DEF DonePaid
<1>j. j \in Job
  BY ReportJobsAssumption
<1>a. CASE job[j].status = "done"
  <2>1. Spent(job'[j])
    BY <1>j, <1>a, SpentKept DEF DonePaid, Spent
  <2> QED
    BY <2>1 DEF Spent
<1>b. CASE job[j].status # "done"
  <2>1. ASSUME NEW k \in Job, NEW s, RowChange(k, s) PROVE FALSE
    BY <1>j, <1>b, <2>1 DEF RowChange, RowMoves, TypeInv, JobOK
  <2>2. ASSUME NEW k \in Job, CreateJob(k) \/ CancelImport(k) PROVE FALSE
    BY <1>j, <1>b, <2>2, RowChanged, RowFields DEF TypeInv, JobOK
  <2>3. ASSUME NEW k \in Job, DeleteRow(k) PROVE FALSE
    <3>1. [NewRow(k) EXCEPT !.status = "deleted"].status = "deleted"
      BY DEF NewRow
    <3> QED
      BY <1>j, <1>b, <2>3, <3>1 DEF DeleteRow, TypeInv, JobOK
  <2>4. ASSUME NEW w \in Worker, Finish(w) \/ FinishUnacknowledged(w)
        PROVE  job'[j].payload
    <3>1. exec[w].pc = "finish" /\ exec[w].msg.job \in Job
      BY <2>4, Busy DEF Finish, FinishUnacknowledged, At, TypeInv
    <3>2. /\ job[exec[w].msg.job].status = "running"
          /\ job' = [job EXCEPT ![exec[w].msg.job] =
                          Completed(job[exec[w].msg.job], TaskOf(w))]
          /\ exec[w].msg.job = j
      BY <1>j, <1>b, <2>4, RowChanged, UnacknowledgedRow DEF TypeInv, JobOK
    <3>3. Ready(job[j])
      BY <3>1, <3>2 DEF KindOK, ReportStep, RowOf
    <3>4. job[j].payload
      BY <1>j, <3>2, <3>3 DEF Ready, RowShape
    <3> QED
      BY <1>j, <3>2, <3>4, RowFields DEF TypeInv, JobOK
  <2>5. ASSUME NEW w \in Worker, Handoff(w) PROVE FALSE
    BY <1>j, <1>b, <2>5, RowChanged, RowFields DEF TypeInv, JobOK
  <2>6. ASSUME Tick PROVE FALSE
    BY <1>j, <1>b, <2>6 DEF Tick, Aged, TypeInv, JobOK, Row
  <2> QED
    BY <1>b, <2>1, <2>2, <2>3, <2>4, <2>5, <2>6
       DEF BookMove, DestroyObject, RetireObject, ObjectAdded,
           ObjectDropped
<1> QED
  BY <1>a, <1>b

\* Retention only clears imports that are settled.
LEMMA RetiredSpent ==
  ASSUME DonePaid, NEW j \in Imports, RetireObject(j)
  PROVE  Spent(job[j])
BY DEF RetireObject, DonePaid, Spent

LEMMA NextDoomedSpent ==
  ASSUME TypeInv, TypeInv', DonePaid, DoomedSpent, BookMove, StageMove,
         ClearanceMove
  PROVE  DoomedSpent'
<1> SUFFICES ASSUME NEW j \in Imports, Doomed(j)' PROVE Spent(job'[j])
  BY DEF DoomedSpent, Spent
<1>j. j \in Job /\ j # NoJob
  BY ReportJobsAssumption
<1>1. Doomed(j) => Spent(job'[j])
  BY <1>j, SpentKept DEF DoomedSpent
<1>2. CASE j \in cancelling'
  BY <1>1, <1>2 DEF ClearanceMove, Doomed
<1>3. CASE sweep'.drop = j
  BY <1>1, <1>3, <1>j DEF ClearanceMove, Doomed
<1>4. CASE deleting'[j] = "retention"
  BY <1>1, <1>4, <1>j, RetiredSpent, SpentKept DEF ClearanceMove, Doomed
<1>5. ASSUME NEW v \in Worker, exec'[v].pc \in Dropping,
             exec'[v].msg.job = j
      PROVE  Spent(job'[j])
  BY <1>1, <1>5 DEF StageMove, Stays, Dropping, Doomed
<1> QED
  BY <1>2, <1>3, <1>4, <1>5 DEF Doomed, Dropping

\* A row that comes to be pending or running was so already, or it is new and
\* its source file has just been stored.
LEMMA BornWithUpload ==
  ASSUME TypeInv, BookMove, NEW j \in Imports,
         job[j].status \notin {"pending", "running", "done"},
         job'[j].status \in {"pending", "running"}
  PROVE  j \in upload'
<1>j. j \in Job
  BY ReportJobsAssumption
<1>1. ASSUME NEW k \in Job, NEW s, RowChange(k, s) PROVE FALSE
  <2>1. s = job[k] \/ job[k].status \in {"pending", "running", "done"}
    BY <1>1 DEF RowChange, RowMoves, PhaseOf, Unsettled, TypeInv, JobOK, Row, Status
  <2> QED
    BY <1>j, <1>1, <2>1 DEF RowChange, TypeInv, JobOK
<1>2. ASSUME NEW k \in Job, CreateJob(k) PROVE j \in upload'
  BY <1>j, <1>2 DEF CreateJob, TypeInv, JobOK
<1>3. ASSUME NEW k \in Job, CancelImport(k) PROVE FALSE
  BY <1>j, <1>3, RowChanged, RowFields DEF TypeInv, JobOK
<1>4. ASSUME NEW k \in Job, DeleteRow(k) PROVE FALSE
  <2>1. [NewRow(k) EXCEPT !.status = "deleted"].status = "deleted"
    BY DEF NewRow
  <2> QED
    BY <1>j, <1>4, <2>1 DEF DeleteRow, TypeInv, JobOK
<1>5. ASSUME NEW w \in Worker, Finish(w) \/ Handoff(w) PROVE FALSE
  BY <1>j, <1>5, RowChanged DEF TypeInv, JobOK
<1>6. ASSUME NEW w \in Worker, FinishUnacknowledged(w) PROVE FALSE
  BY <1>j, <1>6, UnacknowledgedRow DEF TypeInv, JobOK
<1>7. ASSUME Tick PROVE FALSE
  BY <1>j, <1>7 DEF Tick, Aged, TypeInv, JobOK, Row
<1> QED
  BY <1>1, <1>2, <1>3, <1>4, <1>5, <1>6, <1>7
     DEF BookMove, DestroyObject, RetireObject, ObjectAdded,
         ObjectDropped

\* A deletion that is over has deleted the row or found a settled import.
LEMMA DeletionOver ==
  ASSUME TypeInv, DoomedSpent, BookMove, NEW j \in Imports,
         deleting[j] # "no", deleting'[j] = "no"
  PROVE  Spent(job'[j])
<1>j. j \in Job
  BY ReportJobsAssumption
<1>1. DeleteRow(j)
  <2>1. ASSUME NEW k \in Job, DestroyObject(k) \/ RetireObject(k) PROVE FALSE
    BY <1>j, <2>1 DEF DestroyObject, RetireObject, TypeInv, RestOK
  <2>2. ASSUME NEW k \in Job, DeleteRow(k) PROVE DeleteRow(j)
    BY <1>j, <2>2 DEF DeleteRow, TypeInv, RestOK
  <2> QED
    BY <2>1, <2>2
       DEF BookMove, RowChange, CreateJob, CancelImport, Finish,
           FinishUnacknowledged, Handoff, ObjectAdded, ObjectDropped, Tick
<1>2. CASE deleting[j] = "retention"
  BY <1>j, <1>2, SpentKept DEF DoomedSpent, Doomed
<1>3. CASE deleting[j] = "user"
  <2>1. [NewRow(j) EXCEPT !.status = "deleted"].status = "deleted"
    BY DEF NewRow
  <2> QED
    BY <1>j, <1>1, <1>3, <2>1 DEF DeleteRow, Spent, TypeInv, JobOK
<1> QED
  BY <1>j, <1>2, <1>3 DEF TypeInv, RestOK

LEMMA NextUploadKept ==
  ASSUME TypeInv, TypeInv', DonePaid, DoomedSpent, UploadKept, BookMove,
         ClearanceMove
  PROVE  UploadKept'
<1> SUFFICES ASSUME NEW j \in Imports, job'[j].status \in {"pending", "running"},
                    ~job'[j].payload, deleting'[j] = "no"
             PROVE  j \in upload'
  BY DEF UploadKept
<1>j. j \in Job
  BY ReportJobsAssumption
<1>1. ~Spent(job[j])
  BY <1>j, SpentKept DEF Spent
<1>2. CASE j \in upload
  BY <1>j, <1>1, <1>2, RetiredSpent DEF ClearanceMove, DoomedSpent
<1>3. CASE j \notin upload
  <2>1. deleting[j] = "no"
    BY DeletionOver DEF Spent
  <2>2. job[j].status \notin {"pending", "running", "done"}
    BY <1>1, <1>3, <2>1 DEF UploadKept, DonePaid, Spent
  <2> QED
    BY <2>2, BornWithUpload
<1> QED
  BY <1>2, <1>3

LEMMA InitRows ==
  ASSUME Init
  PROVE  \A j \in Job : /\ job[j].file = NoTask
                        /\ job[j].import = (j \in Imports)
                        /\ job[j].status \in {"absent", "done"}
                        /\ job[j].status = "done" <=> job[j].payload
<1>1. PICK old \in SUBSET Legacy :
        job = [j \in Job |-> IF j \in old THEN LegacyRow(j) ELSE NewRow(j)]
  BY DEF Init
<1> QED
  BY <1>1, ReportJobsAssumption DEF LegacyRow, NewRow

LEMMA FilesInvariant == Spec => []FilesInv
<1>1. Init => FilesInv
  <2> SUFFICES ASSUME Init PROVE FilesInv
    OBVIOUS
  <2>1. TypeInv
    BY InitTypeInv
  <2>2. FinishStored /\ KindOK
    BY ReportJobsAssumption
       DEF Init, FinishStored, KindOK, Idle, Started, NoCall,
           ReportStep, Caller
  <2>3. RowShape /\ DonePaid /\ UploadKept
    BY InitRows, ReportJobsAssumption DEF RowShape, DonePaid, UploadKept
  <2>4. DoomedSpent
    BY ReportJobsAssumption
       DEF Init, DoomedSpent, Doomed, NoSweep, Idle, Started
  <2> QED
    BY <2>1, <2>2, <2>3, <2>4 DEF FilesInv
<1>2. FilesInv /\ [Next]_vars => FilesInv'
  <2> SUFFICES ASSUME FilesInv, [Next]_vars PROVE FilesInv'
    OBVIOUS
  <2> USE DEF FilesInv
  <2>1. TypeInv'
    BY NextTypeInv
  <2>2. BookMove /\ ExecMove /\ StageMove /\ ClearanceMove
    BY NextBookMove, NextExecMove, NextStageMove, NextClearanceMove
  <2>3. CarrierMove
    BY NextCarrierMove
  <2>4. FinishStored'
    BY <2>2 DEF StageMove, FinishStored
  <2>5. RowShape' /\ KindOK'
    BY <2>1, <2>2, <2>3, NextRowShape, NextKindOK
  <2>6. DonePaid' /\ DoomedSpent' /\ UploadKept'
    BY <2>1, <2>2, NextDonePaid, NextDoomedSpent, NextUploadKept
  <2> QED
    BY <2>1, <2>4, <2>5, <2>6
<1> QED
  BY <1>1, <1>2, PTL DEF Spec

\* Whatever is lost, repeated or reported wrongly, the source file of an import
\* whose rows are not committed stays in storage until a user cancels or
\* deletes it (cleanup_job_upload and its callers).
THEOREM SourceFileKept == Spec => []UploadKept
<1>1. FilesInv => UploadKept
  BY DEF FilesInv
<1> QED
  BY <1>1, FilesInvariant, PTL

-----------------------------------------------------------------------------
(* Rows that stay settled, and results that are stored.                    *)

\* Results are stored with a failure or by the handoff of the lease holder.
LEMMA PayloadMove ==
  ASSUME TypeInv, BookMove, NEW j \in Job, job'[j].payload, ~job[j].payload
  PROVE  \/ job'[j].status = "failed"
         \/ \E w \in Worker : Handoff(w) /\ HasLease(w) /\ exec[w].msg.job = j
<1>1. ASSUME NEW k \in Job, NEW s, RowChange(k, s)
      PROVE  job'[j].status = "failed"
  BY <1>1 DEF RowChange, RowMoves, TypeInv, JobOK
<1>2. ASSUME NEW k \in Job, CreateJob(k) \/ CancelImport(k) PROVE FALSE
  BY <1>2, RowChanged, RowFields DEF TypeInv, JobOK
<1>3. ASSUME NEW k \in Job, DeleteRow(k) PROVE FALSE
  <2>1. ~[NewRow(k) EXCEPT !.status = "deleted"].payload
    BY DEF NewRow
  <2> QED
    BY <1>3, <2>1 DEF DeleteRow, TypeInv, JobOK
<1>4. ASSUME NEW w \in Worker, Finish(w) PROVE FALSE
  BY <1>4, RowChanged, RowFields DEF TypeInv, JobOK
<1>5. ASSUME NEW w \in Worker, FinishUnacknowledged(w) PROVE FALSE
  BY <1>5, UnacknowledgedRow, RowFields DEF TypeInv, JobOK
<1>6. ASSUME NEW w \in Worker, Handoff(w)
      PROVE  HasLease(w) /\ exec[w].msg.job = j
  BY <1>6, RowChanged DEF Handoff, TypeInv, JobOK
<1>7. ASSUME Tick PROVE FALSE
  BY <1>7 DEF Tick, Aged, TypeInv, JobOK, Row
<1> QED
  BY <1>1, <1>2, <1>3, <1>4, <1>5, <1>6, <1>7
     DEF BookMove, DestroyObject, RetireObject, ObjectAdded,
         ObjectDropped

\* A row that a user cancelled or deleted stays as it is, or is deleted.
LEMMA SettledStays ==
  ASSUME TypeInv, BookMove, NEW j \in Job,
         job[j].status \in {"cancelled", "deleted"}
  PROVE  job'[j].status \in {"cancelled", "deleted"}
<1>1. ASSUME NEW k \in Job, NEW s, RowChange(k, s)
      PROVE  job'[j] = job[j]
  BY <1>1 DEF RowChange, RowMoves, PhaseOf, Unsettled, TypeInv, JobOK
<1>2. ASSUME NEW k \in Job, CreateJob(k) \/ CancelImport(k)
      PROVE  job'[j] = job[j]
  BY <1>2, RowChanged DEF TypeInv, JobOK
<1>3. ASSUME NEW k \in Job, DeleteRow(k)
      PROVE  job'[j].status \in {"cancelled", "deleted"}
  <2>1. [NewRow(k) EXCEPT !.status = "deleted"].status = "deleted"
    BY DEF NewRow
  <2> QED
    BY <1>3, <2>1 DEF DeleteRow, TypeInv, JobOK
<1>4. ASSUME NEW w \in Worker, Finish(w) \/ Handoff(w) PROVE job'[j] = job[j]
  BY <1>4, RowChanged DEF TypeInv, JobOK
<1>5. ASSUME NEW w \in Worker, FinishUnacknowledged(w) PROVE job'[j] = job[j]
  BY <1>5, UnacknowledgedRow DEF TypeInv, JobOK
<1>6. ASSUME Tick PROVE job'[j].status = job[j].status
  BY <1>6 DEF Tick, Aged, TypeInv, JobOK, Row
<1> QED
  BY <1>1, <1>2, <1>3, <1>4, <1>5, <1>6
     DEF BookMove, DestroyObject, RetireObject, ObjectAdded,
         ObjectDropped

LEMMA FailedStays ==
  ASSUME TypeInv, BookMove, NEW j \in Job, job[j].status = "failed"
  PROVE  job'[j].status \in {"failed", "deleted"}
<1>1. ASSUME NEW k \in Job, NEW s, RowChange(k, s)
      PROVE  job'[j] = job[j]
  BY <1>1 DEF RowChange, RowMoves, PhaseOf, Unsettled, TypeInv, JobOK
<1>2. ASSUME NEW k \in Job, CreateJob(k) \/ CancelImport(k)
      PROVE  job'[j] = job[j]
  BY <1>2, RowChanged DEF TypeInv, JobOK
<1>3. ASSUME NEW k \in Job, DeleteRow(k)
      PROVE  job'[j].status \in {"failed", "deleted"}
  <2>1. [NewRow(k) EXCEPT !.status = "deleted"].status = "deleted"
    BY DEF NewRow
  <2> QED
    BY <1>3, <2>1 DEF DeleteRow, TypeInv, JobOK
<1>4. ASSUME NEW w \in Worker, Finish(w) \/ Handoff(w) PROVE job'[j] = job[j]
  BY <1>4, RowChanged DEF TypeInv, JobOK
<1>5. ASSUME NEW w \in Worker, FinishUnacknowledged(w) PROVE job'[j] = job[j]
  BY <1>5, UnacknowledgedRow DEF TypeInv, JobOK
<1>6. ASSUME Tick PROVE job'[j].status = job[j].status
  BY <1>6 DEF Tick, Aged, TypeInv, JobOK, Row
<1> QED
  BY <1>1, <1>2, <1>3, <1>4, <1>5, <1>6
     DEF BookMove, DestroyObject, RetireObject, ObjectAdded,
         ObjectDropped

-----------------------------------------------------------------------------
(* No object is left behind.                                               *)

Undisturbed == Deletable = {} /\ Faults \cap {"crash", "timeout", "storage"} = {}

ObjectsOwned ==
  \A j \in Job : \A t \in store[j] :
    \/ job[j].file = t
    \/ \E w \in Worker : /\ TaskOf(w) = t /\ exec[w].msg.job = j
                         /\ exec[w].pc \in Answering

\* An object is new only if an execution has just stored it.
LEMMA ObjectBorn ==
  ASSUME TypeInv, BookMove, NEW j \in Job, NEW t \in store'[j],
         t \notin store[j]
  PROVE  \E w \in Worker : /\ SaveObject(w) \/ SaveUnacknowledged(w)
                           /\ TaskOf(w) = t /\ exec[w].msg.job = j
<1>1. ASSUME NEW w \in Worker, ObjectAdded(w)
      PROVE  TaskOf(w) = t /\ exec[w].msg.job = j
  <2>1. exec[w].msg.job \in Job
    BY <1>1, Busy DEF ObjectAdded, TypeInv
  <2> QED
    BY <1>1, <2>1 DEF ObjectAdded, TypeInv, RestOK
<1>2. ASSUME NEW w \in Worker, ObjectDropped(w) PROVE FALSE
  <2>1. exec[w].msg.job \in Job
    BY <1>2, Busy DEF ObjectDropped, TypeInv
  <2> QED
    BY <1>2, <2>1 DEF ObjectDropped, TypeInv, RestOK
<1>3. ASSUME NEW k \in Job, DestroyObject(k) \/ RetireObject(k) PROVE FALSE
  BY <1>3 DEF DestroyObject, RetireObject, TypeInv, RestOK
<1> QED
  BY <1>1, <1>2, <1>3
     DEF BookMove, RowChange, CreateJob, CancelImport, DeleteRow,
         Finish, FinishUnacknowledged, Handoff, Tick, ObjectAdded

\* The object of an execution that leaves is published or deleted.
LEMMA NextObjectsOwned ==
  ASSUME Undisturbed, TypeInv, TypeInv', FileDone, ObjectsOwned, BookMove,
         StageMove, \A k \in Job : deleting[k] = "no"
  PROVE  ObjectsOwned'
<1> SUFFICES ASSUME NEW j \in Job, NEW t \in store'[j], job'[j].file # t
             PROVE  \E v \in Worker : /\ TaskOf(v)' = t
                                      /\ exec'[v].msg.job = j
                                      /\ exec'[v].pc \in Answering
  BY DEF ObjectsOwned
<1>1. CASE t \notin store[j]
  <2>1. PICK w \in Worker : /\ SaveObject(w) \/ SaveUnacknowledged(w)
                            /\ TaskOf(w) = t /\ exec[w].msg.job = j
    BY <1>1, ObjectBorn
  <2>2. SaveObject(w)
    BY <2>1 DEF SaveUnacknowledged, Fault, Undisturbed
  <2>3. exec[w] \in Execution
    BY <2>2, Busy DEF SaveObject, At, TypeInv
  <2>4. exec'[w].msg = exec[w].msg /\ exec'[w].pc = "finish"
    BY <2>2, <2>3 DEF SaveObject, TypeInv, ExecOK, Execution
  <2> QED
    BY <2>1, <2>4 DEF TaskOf, Answering
<1>2. CASE t \in store[j]
  <2>1. ~DeleteRow(j)
    BY DEF DeleteRow
  <2>2. job[j].file # t
    <3>1. t # NoTask
      BY JobStateAssumption DEF TypeInv, RestOK
    <3> QED
      BY <2>1, <3>1, FileStays
  <2>3. PICK v \in Worker : /\ TaskOf(v) = t /\ exec[v].msg.job = j
                            /\ exec[v].pc \in Answering
    BY <1>2, <2>2 DEF ObjectsOwned
  <2>4. ASSUME Finish(v), HasLease(v) PROVE FALSE
    <3>1. job' = [job EXCEPT ![j] = Completed(job[j], t)]
      BY <2>3, <2>4 DEF Finish, TaskOf
    <3>2. Completed(job[j], t).file = t
      BY RowFields DEF TypeInv, JobOK
    <3> QED
      BY <3>1, <3>2 DEF TypeInv, JobOK
  <2>5. ~DeleteObject(v)
    BY <1>2, <2>3 DEF DeleteObject, TypeInv, RestOK
  <2>6. ~Lost(v)
    BY DEF Lost, Crash, HardLimit, DeleteObjectFails, Fault, Undisturbed
  <2>7. exec'[v].pc \in Answering /\ exec'[v].msg = exec[v].msg
    BY <2>3, <2>4, <2>5, <2>6 DEF StageMove, Leaves
  <2> QED
    BY <2>3, <2>7 DEF TaskOf
<1> QED
  BY <1>1, <1>2

\* Unless users delete jobs, processes die, tasks run out of time or storage
\* misbehaves, every object in storage is published or will still be published
\* or deleted by its execution (generate_report_task and its error paths).
THEOREM NothingLeftBehind ==
  ASSUME Undisturbed
  PROVE  Spec => []NoOrphanObject
<1> DEFINE Quiet == \A k \in Job : deleting[k] = "no"
           Inv == FileDone /\ ObjectsOwned /\ Quiet
<1>1. Init => Inv
  <2> SUFFICES ASSUME Init PROVE Inv
    OBVIOUS
  <2>1. FileDone
    BY InitRows DEF FileDone
  <2> QED
    BY <2>1 DEF Init, ObjectsOwned
<1>2. FilesInv /\ FilesInv' /\ Inv /\ [Next]_vars => Inv'
  <2> SUFFICES ASSUME FilesInv, FilesInv', Inv, [Next]_vars PROVE Inv'
    OBVIOUS
  <2>1. BookMove /\ StageMove
    BY NextBookMove, NextStageMove DEF FilesInv
  <2>2. FileDone' /\ ObjectsOwned'
    BY <2>1, NextFileDone, NextObjectsOwned DEF FilesInv
  <2>3. Quiet'
    BY <2>1
       DEF BookMove, RowChange, CreateJob, CancelImport, DeleteRow,
           DestroyObject, RetireObject, Finish, FinishUnacknowledged, Handoff,
           Tick, ObjectAdded, ObjectDropped, Undisturbed
  <2> QED
    BY <2>2, <2>3
<1>3. Inv => NoOrphanObject
  BY DEF ObjectsOwned, NoOrphanObject, Answering
<1> QED
  BY <1>1, <1>2, <1>3, FilesInvariant, PTL DEF Spec
-----------------------------------------------------------------------------
(* The rows of an import: ImportRows takes only steps of ReportJobs.       *)

LEMMA RowsStep ==
  ASSUME [RowsNext]_allVars
  PROVE  [Next]_vars
<1>1. ASSUME NEW w \in Worker, LookUp(w) \/ RowFails(w) \/ SaveRow(w)
      PROVE  UNCHANGED vars
  BY <1>1 DEF LookUp, RowFails, SaveRow
<1>2. ASSUME NEW w \in Worker, CheckLease(w) \/ EndOfFile(w) \/ HandOver(w)
      PROVE  Next
  BY <1>2 DEF CheckLease, EndOfFile, HandOver, Next, TaskStep
<1>3. ASSUME Elsewhere
      PROVE  Next
  BY <1>3 DEF Elsewhere, StraightStep, Next, TaskStep, Failure
<1> QED
  BY <1>1, <1>2, <1>3 DEF RowsNext, allVars

\* An import that goes through its file row by row, among the deliveries, sweeps
\* and cancels of other tasks, does nothing the jobs do not do: what holds of
\* ReportJobs holds of ImportRows (BaseAssetImporter.run in run_asset_import_task).
THEOREM RowsImplement == RowsSpec => Spec
<1>1. RowsInit => Init
  BY DEF RowsInit
<1> QED
  BY <1>1, RowsStep, PTL DEF RowsSpec, Spec

-----------------------------------------------------------------------------
(* The invariant of the loop.                                              *)

Live(r) == r.status \notin {"failed", "cancelled", "deleted"}
Withdrawn(r) == r.status \in {"cancelled", "deleted"}

\* A row of the file is in the database or among the failures w is to report.
In(w, k) == made[k] > 0 \/ k \in issues[w]
AllIn(w) == \A i \in DOMAIN File : In(w, File[i])

Looping == [pc: {"look", "save"}, at: 1 .. Len(File) + 1, checked: BOOLEAN,
            seen: SUBSET Keys]

\* A worker is in the loop exactly while its task imports rows.
LoopTypes ==
  /\ made \in [Keys -> Nat]
  /\ issues \in [Worker -> SUBSET Keys]
  /\ listed \in [Job -> SUBSET Keys]
  /\ loop \in [Worker -> Looping \union {Off}]
  /\ \A w \in Worker : At(w, "rows") <=> loop[w] # Off
  /\ \A w \in Worker : loop[w].pc = "save" => loop[w].at \in DOMAIN File

\* The rows behind it are in, and every key it has seen but the one it saves.
Passed ==
  \A w \in Worker : loop[w] # Off =>
    /\ \A i \in DOMAIN File : i < loop[w].at => In(w, File[i])
    /\ \A k \in loop[w].seen :
         In(w, k) \/ (loop[w].pc = "save" /\ k = KeyOf(w))

\* A row is saved although its asset is there only after a race.
Warned ==
  \A w \in Worker :
    loop[w].pc = "save" /\ made[KeyOf(w)] > 0 => KeyOf(w) \in raced

LoopInv == LoopTypes /\ Passed /\ Warned /\ TwiceOnlyAtOnce

LEMMA FileKeys ==
  /\ Len(File) \in Nat
  /\ DOMAIN File = 1 .. Len(File)
  /\ \A i \in DOMAIN File : File[i] \in Keys
BY RowAssumption DEF Keys

LEMMA InLoop ==
  ASSUME LoopTypes, NEW w \in Worker, loop[w] # Off
  PROVE  /\ loop[w] \in Looping
         /\ loop[w].at \in 1 .. Len(File) + 1
         /\ loop[w].pc \in {"look", "save"}
         /\ loop[w].seen \subseteq Keys
         /\ ~Over(w) => KeyOf(w) \in Keys /\ loop[w].at \in DOMAIN File
<1>1. loop[w] \in Looping
  BY DEF LoopTypes
<1>2. /\ loop[w].at \in 1 .. Len(File) + 1
      /\ loop[w].pc \in {"look", "save"}
      /\ loop[w].seen \subseteq Keys
  BY <1>1 DEF Looping
<1>3. ~Over(w) => KeyOf(w) \in Keys /\ loop[w].at \in DOMAIN File
  BY <1>2, FileKeys DEF Over, KeyOf
<1> QED
  BY <1>1, <1>2, <1>3

\* The next row is looked at by one worker; the others stay where they are.
LEMMA NextRowStep ==
  ASSUME LoopTypes, NEW w \in Worker, loop[w] # Off, loop[w].at \in DOMAIN File,
         NEW seen \in SUBSET Keys, loop' = NextRow(w, seen)
  PROVE  /\ loop' \in [Worker -> Looping \union {Off}]
         /\ loop'[w].at = loop[w].at + 1
         /\ loop'[w].pc = "look"
         /\ loop'[w].seen = seen
         /\ loop'[w] # Off
         /\ \A v \in Worker \ {w} : loop'[v] = loop[v]
<1> DEFINE r == [pc |-> "look", at |-> loop[w].at + 1, checked |-> FALSE, seen |-> seen]
<1>1. loop' = [loop EXCEPT ![w] = r]
  BY DEF NextRow
<1>2. loop[w].at + 1 \in 1 .. Len(File) + 1
  BY FileKeys
<1>3. r \in Looping
  BY <1>2 DEF Looping
<1>4. loop'[w] = r /\ \A v \in Worker \ {w} : loop'[v] = loop[v]
  BY <1>1 DEF LoopTypes
<1>5. r.pc = "look" /\ r.at = loop[w].at + 1 /\ r.seen = seen
  OBVIOUS
<1>6. r # Off
  BY <1>5 DEF Off
<1>7. loop' \in [Worker -> Looping \union {Off}]
  BY <1>1, <1>3 DEF LoopTypes
<1> QED
  BY <1>4, <1>5, <1>6, <1>7

\* The worker w leaves its row behind: the next one is looked at.
RowBehind(w, seen) ==
  /\ loop' = NextRow(w, seen)
  /\ made' = made \/ made' = [made EXCEPT ![KeyOf(w)] = @ + 1]
  /\ issues' = issues \/ issues' = [issues EXCEPT ![w] = @ \union {KeyOf(w)}]
  /\ UNCHANGED <<vars, listed>>

\* Assets are never taken away, and nor are failures while the loop goes on.
LEMMA InsKept ==
  ASSUME LoopTypes, NEW w \in Worker, NEW seen, RowBehind(w, seen),
         KeyOf(w) \in Keys
  PROVE  /\ made' \in [Keys -> Nat] /\ issues' \in [Worker -> SUBSET Keys]
         /\ \A k \in Keys : made[k] > 0 => made'[k] > 0
         /\ \A v \in Worker : issues[v] \subseteq issues'[v]
         /\ \A v \in Worker, k \in Keys : In(v, k) => In(v, k)'
<1>1. made' \in [Keys -> Nat] /\ \A k \in Keys : made[k] > 0 => made'[k] > 0
  BY DEF LoopTypes, RowBehind
<1>2. /\ issues' \in [Worker -> SUBSET Keys]
      /\ \A v \in Worker : issues[v] \subseteq issues'[v]
  BY DEF LoopTypes, RowBehind
<1> QED
  BY <1>1, <1>2 DEF In

\* It is left behind only with its asset made or its failure noted.
LEMMA RowPassed ==
  ASSUME LoopTypes, Passed, NEW w \in Worker, loop[w] # Off, ~Over(w),
         NEW seen \in SUBSET Keys, RowBehind(w, seen),
         made'[KeyOf(w)] > 0 \/ KeyOf(w) \in issues'[w],
         seen \subseteq loop[w].seen \union {KeyOf(w)}
  PROVE  LoopTypes' /\ Passed'
<1> DEFINE k == KeyOf(w)
<1>1. /\ k \in Keys /\ loop[w].at \in DOMAIN File
      /\ loop[w].seen \subseteq Keys
  BY InLoop
<1>2. /\ loop' \in [Worker -> Looping \union {Off}]
      /\ loop'[w].at = loop[w].at + 1
      /\ loop'[w].pc = "look"
      /\ loop'[w].seen = seen
      /\ loop'[w] # Off
      /\ \A v \in Worker \ {w} : loop'[v] = loop[v]
  BY <1>1, NextRowStep DEF RowBehind
<1>3. /\ made' \in [Keys -> Nat] /\ issues' \in [Worker -> SUBSET Keys]
      /\ \A v \in Worker, x \in Keys : In(v, x) => In(v, x)'
  BY <1>1, InsKept
<1>4. LoopTypes'
  BY <1>2, <1>3 DEF LoopTypes, At, vars, RowBehind
<1>5. \A x \in Keys : x = k => In(w, x)'
  BY DEF In
<1>6. Passed'
  <2> SUFFICES ASSUME NEW v \in Worker, loop'[v] # Off
               PROVE  /\ \A i \in DOMAIN File : i < loop'[v].at => In(v, File[i])'
                      /\ \A x \in loop'[v].seen :
                           In(v, x)' \/ (loop'[v].pc = "save" /\ x = KeyOf(v)')
    BY DEF Passed, In
  <2>1. CASE v = w
    <3>1. \A i \in DOMAIN File : i < loop[w].at => In(w, File[i])'
      BY <1>3, FileKeys DEF Passed
    <3>2. \A i \in DOMAIN File : i < loop[w].at + 1 => In(w, File[i])'
      <4> SUFFICES ASSUME NEW i \in DOMAIN File, i < loop[w].at + 1
                   PROVE  In(w, File[i])'
        OBVIOUS
      <4>1. i < loop[w].at \/ i = loop[w].at
        BY <1>1, FileKeys
      <4>2. CASE i = loop[w].at
        BY <4>2 DEF KeyOf, In
      <4> QED
        BY <3>1, <4>1, <4>2
    <3>3. \A x \in loop[w].seen : In(w, x)' \/ x = k
      BY <1>1, <1>3 DEF Passed
    <3>4. \A x \in seen : In(w, x)'
      BY <1>1, <1>5, <3>3
    <3> QED
      BY <1>2, <2>1, <3>2, <3>4
  <2>2. CASE v # w
    <3>1. loop'[v] = loop[v] /\ KeyOf(v)' = KeyOf(v) /\ loop[v] # Off
      BY <1>2, <2>2 DEF KeyOf
    <3>2. loop[v].seen \subseteq Keys
      BY <3>1, InLoop
    <3> QED
      BY <1>3, <3>1, <3>2, FileKeys DEF Passed
  <2> QED
    BY <2>1, <2>2
<1> QED
  BY <1>4, <1>6

\* A row that is left behind unsaved changes nothing for the others.
LEMMA RowSkipped ==
  ASSUME LoopInv, NEW w \in Worker, loop[w] # Off, ~Over(w),
         NEW seen \in SUBSET Keys, RowBehind(w, seen), UNCHANGED <<made, raced>>
  PROVE  Warned' /\ TwiceOnlyAtOnce'
<1>1. loop'[w].pc = "look" /\ \A v \in Worker \ {w} : loop'[v] = loop[v]
  BY InLoop, NextRowStep DEF RowBehind, LoopInv
<1> QED
  BY <1>1 DEF LoopInv, Warned, TwiceOnlyAtOnce, KeyOf

LEMMA LookUpStep ==
  ASSUME LoopInv, NEW w \in Worker, LookUp(w)
  PROVE  LoopInv'
<1> USE DEF LoopInv
<1> DEFINE k == KeyOf(w)
<1>1. loop[w] # Off /\ ~Over(w) /\ loop[w].pc = "look"
  BY DEF LookUp, InRow, Loops, LoopTypes
<1>2. /\ k \in Keys /\ loop[w].at \in DOMAIN File
      /\ loop[w].seen \subseteq Keys /\ loop[w] \in Looping
  BY <1>1, InLoop
<1>3. UNCHANGED <<vars, issues, listed, made, raced>>
  BY DEF LookUp
<1>4. CASE Duplicate(w, k)
  <2>1. RowBehind(w, loop[w].seen \union {k})
    BY <1>3, <1>4 DEF LookUp, RowBehind
  <2>2. In(w, k)
    BY <1>1, <1>4 DEF Duplicate, Passed, In
  <2>3. made'[k] > 0 \/ k \in issues'[w]
    BY <1>3, <2>2 DEF In
  <2> QED
    BY <1>1, <1>2, <1>3, <2>1, <2>3, RowPassed, RowSkipped
<1>5. CASE ~Duplicate(w, k)
  <2>0. loop' = [loop EXCEPT ![w].pc = "save", ![w].seen = @ \union {k}]
    BY <1>5 DEF LookUp
  <2>1. /\ loop'[w].at = loop[w].at
        /\ loop'[w].pc = "save"
        /\ loop'[w].seen = loop[w].seen \union {k}
        /\ loop'[w] \in Looping
        /\ \A v \in Worker \ {w} : loop'[v] = loop[v]
    BY <1>2, <2>0 DEF LoopTypes, Looping
  <2>2. loop'[w] # Off
    BY <2>1 DEF Off
  <2>3. loop' \in [Worker -> Looping \union {Off}]
    BY <2>0, <2>1 DEF LoopTypes
  <2>4. LoopTypes'
    BY <1>1, <1>2, <1>3, <2>1, <2>2, <2>3 DEF LoopTypes, At, vars
  <2>5. KeyOf(w)' = k
    BY <2>1 DEF KeyOf
  <2>6. Passed'
    BY <1>1, <1>3, <2>1, <2>5 DEF Passed, In, KeyOf
  <2>7. made[k] = 0
    BY <1>2, <1>5 DEF Duplicate, LoopTypes
  <2>8. Warned'
    BY <1>3, <2>1, <2>5, <2>7 DEF Warned, KeyOf
  <2> QED
    BY <1>3, <2>4, <2>6, <2>8 DEF TwiceOnlyAtOnce
<1> QED
  BY <1>4, <1>5

LEMMA RowFailsStep ==
  ASSUME LoopInv, NEW w \in Worker, RowFails(w)
  PROVE  LoopInv'
<1> DEFINE k == KeyOf(w)
<1>1. loop[w] # Off /\ ~Over(w) /\ UNCHANGED <<made, raced>>
  BY DEF RowFails, InRow, Loops, LoopInv, LoopTypes
<1>2. k \in Keys /\ loop[w].seen \subseteq Keys
  BY <1>1, InLoop DEF LoopInv
<1>3. PICK seen \in {loop[w].seen, loop[w].seen \union {k}} : Report(w, seen)
  BY DEF RowFails
<1>4. seen \in SUBSET Keys /\ seen \subseteq loop[w].seen \union {k}
  BY <1>2
<1>5. RowBehind(w, seen)
  BY <1>3 DEF RowFails, Report, RowBehind
<1>6. k \in issues'[w]
  BY <1>3 DEF Report, LoopInv, LoopTypes
<1> QED
  BY <1>1, <1>4, <1>5, <1>6, RowPassed, RowSkipped DEF LoopInv

LEMMA SaveRowStep ==
  ASSUME LoopInv, NEW w \in Worker, SaveRow(w)
  PROVE  LoopInv'
<1> USE DEF LoopInv
<1> DEFINE k == KeyOf(w)
<1>1. loop[w] # Off /\ ~Over(w) /\ loop[w].pc = "save" /\ UNCHANGED vars
  BY DEF SaveRow, InRow, Loops, LoopTypes
<1>2. k \in Keys /\ loop[w].at \in DOMAIN File /\ loop[w].seen \subseteq Keys
  BY <1>1, InLoop
<1>3. RowBehind(w, loop[w].seen)
  BY DEF SaveRow, Report, RowBehind
<1>4. loop'[w].pc = "look" /\ \A v \in Worker \ {w} : loop'[v] = loop[v]
  BY <1>1, <1>2, <1>3, NextRowStep DEF RowBehind
<1>5. \/ made' = made /\ made[k] > 0
      \/ made' = [made EXCEPT ![k] = @ + 1] /\ ~(k \in Serial /\ made[k] > 0)
  BY DEF SaveRow
<1>6. made' \in [Keys -> Nat] /\ made'[k] > 0
  BY <1>2, <1>5 DEF LoopTypes
<1>7. /\ \A x \in Keys : x # k => made'[x] = made[x]
      /\ raced \subseteq raced'
  BY <1>5 DEF LoopTypes, SaveRow
<1>8. Warned'
  <2> SUFFICES ASSUME NEW v \in Worker, loop'[v].pc = "save", made'[KeyOf(v)'] > 0
               PROVE  KeyOf(v)' \in raced'
    BY DEF Warned
  <2>1. v # w /\ loop'[v] = loop[v] /\ KeyOf(v)' = KeyOf(v)
    BY <1>4 DEF KeyOf
  <2>2. KeyOf(v) \in Keys
    BY <2>1, FileKeys DEF KeyOf, LoopTypes
  <2>3. CASE KeyOf(v) = k
    BY <2>1, <2>3 DEF SaveRow
  <2>4. CASE KeyOf(v) # k
    BY <1>7, <1>7, <2>1, <2>2, <2>4 DEF Warned
  <2> QED
    BY <2>3, <2>4
<1>9. TwiceOnlyAtOnce'
  <2> SUFFICES ASSUME NEW x \in Keys, made'[x] > 1
               PROVE  x \in raced' \ Serial
    BY DEF TwiceOnlyAtOnce
  <2>1. CASE made'[x] = made[x]
    BY <1>7, <2>1 DEF TwiceOnlyAtOnce
  <2>2. CASE made'[x] # made[x]
    <3>1. x = k /\ made'[k] = made[k] + 1 /\ ~(k \in Serial /\ made[k] > 0)
      BY <1>2, <1>5, <1>7, <2>2 DEF LoopTypes
    <3>2. made[k] > 0
      BY <1>2, <3>1 DEF LoopTypes
    <3> QED
      BY <1>1, <1>7, <3>1, <3>2 DEF Warned
  <2> QED
    BY <2>1, <2>2
<1>10. LoopTypes' /\ Passed'
  BY <1>1, <1>2, <1>3, <1>6, RowPassed
<1> QED
  BY <1>8, <1>9, <1>10

\* A step that saves no row leaves a worker where it is in the file, takes it
\* out of the loop or puts it at the first row.
SameRow(v) ==
  /\ loop[v] # Off /\ loop'[v] \in Looping
  /\ loop'[v].pc = loop[v].pc /\ loop'[v].at = loop[v].at /\ loop'[v].seen = loop[v].seen
  /\ issues'[v] = issues[v]

LEMMA LoopFrame ==
  ASSUME LoopInv, UNCHANGED <<made, raced>>, DOMAIN loop' = Worker,
         issues' \in [Worker -> SUBSET Keys], listed' \in [Job -> SUBSET Keys],
         loop' = [v \in Worker |-> loop'[v]],
         \A v \in Worker : exec'[v].pc = "rows" <=> loop'[v] # Off,
         \A v \in Worker : loop'[v] \in {Off, Start} \/ SameRow(v)
  PROVE  LoopInv'
<1> USE DEF LoopInv
<1>1. /\ Start \in Looping /\ Start.pc = "look" /\ Start.at = 1 /\ Start.seen = {}
      /\ Start # Off /\ Off.pc = "off"
  BY FileKeys DEF Start, Looping, Off
<1>2. LoopTypes'
  <2>1. loop' \in [Worker -> Looping \union {Off}]
    BY <1>1 DEF SameRow
  <2>2. \A v \in Worker : loop'[v].pc = "save" => loop'[v].at \in DOMAIN File
    BY <1>1 DEF SameRow, LoopTypes
  <2> QED
    BY <2>1, <2>2 DEF LoopTypes, At
<1>3. Passed'
  <2> SUFFICES ASSUME NEW v \in Worker, loop'[v] # Off
               PROVE  /\ \A i \in DOMAIN File : i < loop'[v].at => In(v, File[i])'
                      /\ \A x \in loop'[v].seen :
                           In(v, x)' \/ (loop'[v].pc = "save" /\ x = KeyOf(v)')
    BY DEF Passed, In
  <2>1. CASE loop'[v] = Start
    BY <1>1, <2>1, FileKeys
  <2>2. CASE SameRow(v)
    BY <2>2 DEF SameRow, Passed, KeyOf, In
  <2> QED
    BY <2>1, <2>2
<1>4. Warned'
  BY <1>1 DEF Warned, SameRow, KeyOf
<1> QED
  BY <1>2, <1>3, <1>4 DEF TwiceOnlyAtOnce

LEMMA CheckLeaseStep ==
  ASSUME TypeInv, LoopInv, NEW w \in Worker, CheckLease(w)
  PROVE  LoopInv'
<1>1. /\ exec[w].pc = "rows" /\ loop[w] # Off /\ CheckRows(w)
      /\ UNCHANGED <<listed, made, raced>>
  BY DEF CheckLease, Loops, LoopInv, LoopTypes, At
<1>2. loop[w] \in Looping
  BY <1>1, InLoop DEF LoopInv
<1>3. /\ \A v \in Worker \ {w} : exec'[v] = exec[v] /\ loop'[v] = loop[v]
      /\ loop' = [v \in Worker |-> loop'[v]] /\ DOMAIN loop' = Worker
  BY <1>1 DEF CheckLease, CheckRows, Goto, End, TypeInv, ExecOK, LoopInv, LoopTypes
<1>3a. issues' = issues \/ issues' = [issues EXCEPT ![w] = {}]
  BY DEF CheckLease
<1>3b. /\ \A v \in Worker \ {w} : issues'[v] = issues[v]
       /\ issues' \in [Worker -> SUBSET Keys]
  BY <1>3a DEF LoopInv, LoopTypes
<1>4. IF exec'[w].pc = "rows" THEN SameRow(w) ELSE loop'[w] = Off
  <2>1. CASE exec'[w].pc = "rows"
    <3>1. loop' = [loop EXCEPT ![w].checked = TRUE] /\ issues' = issues
      BY <2>1 DEF CheckLease
    <3>2. /\ loop'[w] \in Looping /\ loop'[w].pc = loop[w].pc
          /\ loop'[w].at = loop[w].at /\ loop'[w].seen = loop[w].seen
      BY <1>2, <3>1 DEF Looping, LoopInv, LoopTypes
    <3> QED
      BY <1>1, <2>1, <3>1, <3>2 DEF SameRow
  <2>2. CASE exec'[w].pc # "rows"
    BY <2>2 DEF CheckLease, LoopInv, LoopTypes
  <2> QED
    BY <2>1, <2>2
<1>5. \A v \in Worker : loop'[v] = Off \/ SameRow(v)
  <2> TAKE v \in Worker
  <2>1. CASE v # w /\ loop[v] # Off
    BY <1>3, <1>3b, <2>1, InLoop DEF SameRow, LoopInv
  <2> QED
    BY <1>3, <1>4, <2>1
<1>6. \A v \in Worker : exec'[v].pc = "rows" <=> loop'[v] # Off
  <2>1. SameRow(w) => loop'[w] # Off
    BY <1>2 DEF SameRow, Looping, Off
  <2> QED
    BY <1>3, <1>4, <2>1 DEF LoopInv, LoopTypes, At
<1> QED
  BY <1>1, <1>3, <1>3b, <1>5, <1>6, LoopFrame DEF LoopInv, LoopTypes

LEMMA EndOfFileStep ==
  ASSUME TypeInv, LoopInv, NEW w \in Worker, EndOfFile(w)
  PROVE  LoopInv'
<1>1. /\ exec[w].pc = "rows" /\ loop[w] # Off /\ RowsDone(w)
      /\ UNCHANGED <<issues, listed, made, raced>>
  BY DEF EndOfFile, LoopInv, LoopTypes, At
<1>2. /\ \A v \in Worker \ {w} : exec'[v] = exec[v] /\ loop'[v] = loop[v]
      /\ loop' = [v \in Worker |-> loop'[v]] /\ DOMAIN loop' = Worker
      /\ loop'[w] = Off
  BY <1>1 DEF EndOfFile, RowsDone, Goto, TypeInv, ExecOK, LoopInv, LoopTypes
<1>3. exec'[w].pc = "refresh"
  BY <1>1, Busy DEF RowsDone, Goto, TypeInv, ExecOK, Execution
<1>4. \A v \in Worker : loop'[v] = Off \/ SameRow(v)
  BY <1>1, <1>2, InLoop DEF SameRow, LoopInv
<1>5. \A v \in Worker : exec'[v].pc = "rows" <=> loop'[v] # Off
  BY <1>2, <1>3 DEF LoopInv, LoopTypes, At
<1> QED
  BY <1>1, <1>2, <1>4, <1>5, LoopFrame DEF LoopInv, LoopTypes

LEMMA HandOverStep ==
  ASSUME TypeInv, LoopInv, NEW w \in Worker, HandOver(w)
  PROVE  LoopInv'
<1>1. exec[w] \in Execution /\ exec[w].pc = "handoff" /\ exec[w].msg.job \in Job
  BY Busy DEF HandOver, Handoff, At, TypeInv
<1>2. /\ UNCHANGED <<loop, made, raced>> /\ loop[w] = Off
      /\ exec'[w].pc \in {"handed", "ack"}
      /\ \A v \in Worker \ {w} : exec'[v] = exec[v]
  BY <1>1 DEF HandOver, Handoff, Goto, End, TypeInv, ExecOK, Execution, LoopInv,
              LoopTypes, At
<1>3. /\ issues' \in [Worker -> SUBSET Keys] /\ listed' \in [Job -> SUBSET Keys]
      /\ \A v \in Worker \ {w} : issues'[v] = issues[v]
  BY DEF HandOver, LoopInv, LoopTypes
<1>4. loop' = [v \in Worker |-> loop'[v]] /\ DOMAIN loop' = Worker
  BY <1>2 DEF LoopInv, LoopTypes
<1>5. \A v \in Worker : loop'[v] = Off \/ SameRow(v)
  BY <1>2, <1>3, InLoop DEF SameRow, LoopInv
<1>6. \A v \in Worker : exec'[v].pc = "rows" <=> loop'[v] # Off
  BY <1>2 DEF LoopInv, LoopTypes, At
<1> QED
  BY <1>2, <1>3, <1>4, <1>5, <1>6, LoopFrame

LEMMA ElsewhereStep ==
  ASSUME TypeInv, TypeInv', LoopInv, Elsewhere
  PROVE  LoopInv'
<1>1. UNCHANGED <<made, raced>>
  BY DEF Elsewhere
<1>2. loop' = [w \in Worker |-> IF exec'[w].pc # "rows" THEN Off
                                ELSE IF At(w, "rows") THEN loop[w] ELSE Start]
  BY DEF Elsewhere
<1>2a. \A w \in Worker : At(w, "rows") /\ exec'[w].pc = "rows" => issues'[w] = issues[w]
  BY DEF Elsewhere, At
<1>2b. listed' = listed /\ issues' \in [Worker -> SUBSET Keys]
  <2>1. listed' = listed
    BY DEF Elsewhere
  <2>2. \A w \in Worker : issues'[w] \subseteq Keys
    <3> SUFFICES ASSUME NEW w \in Worker PROVE issues'[w] \subseteq Keys
      OBVIOUS
    <3>1. \/ issues'[w] \in {{}, issues[w]}
          \/ exec'[w].pc # "idle" /\ issues'[w] = listed[exec'[w].msg.job]
      BY DEF Elsewhere
    <3>2. exec'[w].pc # "idle" => exec'[w].msg.job \in Job
      BY DEF TypeInv, ExecOK, Execution, Message, Idle, Started
    <3> QED
      BY <3>1, <3>2 DEF LoopInv, LoopTypes
  <2> QED
    BY <2>1, <2>2 DEF Elsewhere
<1>3. \A v \in Worker : loop'[v] \in {Off, Start} \/ SameRow(v)
  BY <1>2, <1>2a, InLoop DEF LoopInv, LoopTypes, SameRow
<1>4. \A v \in Worker : exec'[v].pc = "rows" <=> loop'[v] # Off
  BY <1>2 DEF LoopInv, LoopTypes, Start, Off
<1>5. DOMAIN loop' = Worker /\ loop' = [v \in Worker |-> loop'[v]]
  BY <1>2
<1> QED
  BY <1>1, <1>2b, <1>3, <1>4, <1>5, LoopFrame DEF LoopInv, LoopTypes

LEMMA LoopInvariant == RowsSpec => []LoopInv
<1>1. RowsInit => LoopInv
  BY DEF RowsInit, Init, LoopInv, LoopTypes, Passed, Warned, TwiceOnlyAtOnce,
         At, Off, Idle, Started
<1>2. TypeInv /\ TypeInv' /\ LoopInv /\ [RowsNext]_allVars => LoopInv'
  <2> SUFFICES ASSUME TypeInv, TypeInv', LoopInv, [RowsNext]_allVars PROVE LoopInv'
    OBVIOUS
  <2>1. CASE UNCHANGED allVars
    BY <2>1 DEF allVars, rowVars, vars, LoopInv, LoopTypes, Passed, Warned,
                TwiceOnlyAtOnce, In, At, KeyOf
  <2> QED
    BY <2>1, LookUpStep, RowFailsStep, SaveRowStep, CheckLeaseStep, EndOfFileStep,
       HandOverStep, ElsewhereStep
       DEF RowsNext
<1>3. Spec => []TypeInv
  BY InitTypeInv, NextTypeInv, PTL DEF Spec
<1> QED
  BY <1>1, <1>2, <1>3, RowsImplement, PTL DEF RowsSpec

\* Two assets of one key are the work of two executions that were about to save
\* it at once, and never carry a serial number (BaseAssetImporter.run): whatever
\* comes later finds the first.
THEOREM TwiceOnlyInARace == RowsSpec => []TwiceOnlyAtOnce
<1>1. LoopInv => TwiceOnlyAtOnce
  BY DEF LoopInv
<1> QED
  BY <1>1, LoopInvariant, PTL

-----------------------------------------------------------------------------
(* An import is handed over with all its rows, by the execution that has    *)
(* just gone through them.                                                  *)

\* Outside the loop an execution comes to the end of its file, to the handoff
\* or past it only from the step before, or with results already committed.
Arrives ==
  \A v \in Worker :
    /\ exec'[v].pc = "refresh" => Stays(v, {"refresh"})
    /\ exec'[v].pc = "handoff" =>
         \/ Stays(v, {"handoff"})
         \/ Stays(v, {"refresh"}) /\ ~Withdrawn(RowOf(v))
         \/ /\ At(v, "idle")
            /\ exec'[v].msg.job \in Job
            /\ job[exec'[v].msg.job].payload /\ Live(job[exec'[v].msg.job])
    /\ exec'[v].pc = "handed" => At(v, "handed")

LEMMA ArriveStay ==
  ASSUME UNCHANGED exec
  PROVE  Arrives
BY DEF Arrives, Stays, At

LEMMA ArriveElsewhere ==
  ASSUME TypeInv, NEW w \in Worker,
         \A v \in Worker \ {w} : exec'[v] = exec[v],
         exec'[w].pc \notin {"refresh", "handoff", "handed"}
  PROVE  Arrives
BY DEF Arrives, Stays, At

LEMMA ArriveEnd ==
  ASSUME TypeInv, NEW w \in Worker, exec' = [exec EXCEPT ![w] = Idle]
  PROVE  Arrives
<1>1. exec'[w].pc = "idle" /\ \A v \in Worker \ {w} : exec'[v] = exec[v]
  BY DEF TypeInv, ExecOK, Idle, Started
<1> QED
  BY <1>1, ArriveElsewhere

LEMMA ArriveFlag ==
  ASSUME TypeInv, NEW w \in Worker, exec[w].pc # "idle", NEW p, NEW b,
         p \notin {"refresh", "handoff", "handed"},
         \/ exec' = [exec EXCEPT ![w].pc = p]
         \/ exec' = [exec EXCEPT ![w].pc = p, ![w].transient = b]
  PROVE  Arrives
<1>1. exec[w] \in Execution
  BY Busy DEF TypeInv
<1>2. exec'[w].pc = p /\ \A v \in Worker \ {w} : exec'[v] = exec[v]
  BY <1>1 DEF TypeInv, ExecOK, Execution
<1> QED
  BY <1>2, ArriveElsewhere

LEMMA ArriveGoto ==
  ASSUME TypeInv, NEW w \in Worker, exec[w].pc # "idle", NEW p, Goto(w, p),
         p \notin {"refresh", "handoff", "handed"}
  PROVE  Arrives
BY ArriveFlag DEF Goto

LEMMA ArriveReturn ==
  ASSUME TypeInv, NEW c \in Caller, Return(c),
         Calling(c) \/ enq[c].task # NoTask
  PROVE  Arrives
<1>1. CASE c \in Worker
  <2>1. exec[c].pc = "enqueue"
    BY <1>1 DEF TypeInv, CallsOK, NoCall, Calling
  <2>2. Goto(c, "ack")
    BY <1>1 DEF Return
  <2> QED
    BY <1>1, <2>1, <2>2, ArriveGoto
<1>2. CASE c \notin Worker
  BY <1>2, ArriveStay DEF Return
<1> QED
  BY <1>1, <1>2

LEMMA ArriveBegin ==
  ASSUME TypeInv, NEW w \in Worker, NEW m, NEW p, Begin(w, m, p),
         exec[w].pc = "idle", p \notin {"refresh", "handed"},
         p = "handoff" => m.job \in Job /\ job[m.job].payload /\ Live(job[m.job])
  PROVE  Arrives
<1>1. /\ exec'[w].pc = p /\ exec'[w].msg = m
      /\ \A v \in Worker \ {w} : exec'[v] = exec[v]
  BY DEF Begin, Started, TypeInv, ExecOK
<1> QED
  BY <1>1 DEF Arrives, Stays, At

\* A claim of a job whose rows are committed goes to the handoff.
LEMMA ArriveDeliver ==
  ASSUME TypeInv, NEW w \in Worker, NEW m \in queue, Deliver(w, m)
  PROVE  Arrives
<1> DEFINE r == job[m.job]
           reason == ClaimReason(r, m.task, m.redelivered)
<1>1. m.job \in Job /\ exec[w].pc = "idle"
  BY DEF TypeInv, RestOK, Message, Deliver
<1>2. CASE Exists(r) /\ IsClaim(reason)
  <2>1. Begin(w, m, Starts(m, r))
    BY <1>2 DEF Deliver
  <2>2. Live(r)
    <3>1. r.status \in {"cancelled", "failed"} => reason = "terminal"
      BY DEF ClaimReason, Owns, Reserved, ImportHandoff
    <3> QED
      BY <1>2, <3>1 DEF IsClaim, Exists, Live
  <2>3. /\ Starts(m, r) \notin {"refresh", "handed"}
        /\ Starts(m, r) = "handoff" => r.payload
    BY DEF Starts
  <2> QED
    BY <1>1, <2>1, <2>2, <2>3, ArriveBegin
<1>3. CASE ~(Exists(r) /\ IsClaim(reason))
  <2>1. \E p \in {"drop", "ack"} : Begin(w, m, p)
    BY <1>3 DEF Deliver
  <2> QED
    BY <1>1, <2>1, ArriveBegin
<1> QED
  BY <1>2, <1>3

LEMMA ArriveRefresh ==
  ASSUME TypeInv, NEW w \in Worker, Refresh(w)
  PROVE  Arrives
<1> DEFINE p == CASE RowOf(w).status = "cancelled" -> "drop"
                  [] ~Exists(RowOf(w))             -> "fail"
                  [] OTHER                         -> "handoff"
<1>1. exec[w] \in Execution /\ At(w, "refresh")
  BY Busy DEF Refresh, At, TypeInv
<1>2. /\ exec'[w].pc = p /\ exec'[w].msg = exec[w].msg
      /\ \A v \in Worker \ {w} : exec'[v] = exec[v]
  BY <1>1 DEF Refresh, Goto, TypeInv, ExecOK, Execution
<1>3. p = "handoff" => ~Withdrawn(RowOf(w))
  BY DEF Withdrawn, Exists
<1>4. p \notin {"refresh", "handed"}
  OBVIOUS
<1> QED
  BY <1>1, <1>2, <1>3, <1>4 DEF Arrives, Stays, At

LEMMA ArriveStraight ==
  ASSUME TypeInv, NEW w \in Worker, StraightStep(w)
  PROVE  Arrives
<1>1. CASE Phase(w)
  <2>1. exec[w].pc # "idle"
    BY <1>1 DEF Phase, AfterLease
  <2>2. \E p \in {"render", "workbook", "save", "ack"} : Goto(w, p)
    BY <1>1 DEF Phase, AfterLease, End
  <2> QED
    BY <2>1, <2>2, ArriveGoto
<1>2. CASE SaveObject(w)
  <2>1. exec[w] \in Execution
    BY <1>2, Busy DEF SaveObject, At, TypeInv
  <2>2. exec'[w].pc = "finish" /\ \A v \in Worker \ {w} : exec'[v] = exec[v]
    BY <1>2, <2>1 DEF SaveObject, TypeInv, ExecOK, Execution
  <2> QED
    BY <2>2, ArriveElsewhere
<1>3. CASE Finish(w)
  BY <1>3, ArriveGoto DEF Finish, At, End
<1>4. CASE DeleteObject(w)
  BY <1>4, ArriveGoto DEF DeleteObject, AfterDelete, Settle, At, End
<1>5. CASE LoadFile(w)
  BY <1>5, ArriveGoto DEF LoadFile, At
<1>6. CASE Refresh(w)
  BY <1>6, ArriveRefresh
<1>7. CASE DropUpload(w)
  BY <1>7, ArriveGoto DEF DropUpload, At, End
<1>8. CASE PrepareRetry(w)
  BY <1>8, ArriveGoto DEF PrepareRetry, At
<1>9. CASE PublishRetry(w)
  BY <1>9, ArriveGoto DEF PublishRetry, At
<1>10. CASE MarkFailed(w)
  BY <1>10, ArriveGoto DEF MarkFailed, At, End
<1>11. CASE Ack(w)
  BY <1>11, ArriveEnd DEF Ack
<1> QED
  BY <1>1, <1>2, <1>3, <1>4, <1>5, <1>6, <1>7, <1>8, <1>9, <1>10, <1>11
     DEF StraightStep

LEMMA ArriveFailure ==
  ASSUME TypeInv, NEW w \in Worker, Failure(w)
  PROVE  Arrives
<1>1. CASE Crash(w) \/ HardLimit(w)
  BY <1>1, ArriveEnd DEF Crash, HardLimit
<1>2. CASE Redeliver(w)
  BY <1>2, ArriveStay DEF Redeliver
<1>3. CASE FinishUnacknowledged(w)
  <2>1. exec[w] \in Execution
    BY <1>3, Busy DEF FinishUnacknowledged, At, TypeInv
  <2>2. exec'[w].pc = "undo" /\ \A v \in Worker \ {w} : exec'[v] = exec[v]
    BY <1>3, <2>1 DEF FinishUnacknowledged, TypeInv, ExecOK, Execution
  <2> QED
    BY <2>2, ArriveElsewhere
<1>4. CASE SaveUnacknowledged(w)
  <2>1. exec[w].pc # "idle"
    BY <1>4 DEF SaveUnacknowledged, At
  <2>2. \E p \in {"retry", "fail"} : Goto(w, p)
    BY <1>4 DEF SaveUnacknowledged, Settle, Goto
  <2> QED
    BY <2>1, <2>2, ArriveGoto
<1>5. CASE DeleteObjectFails(w)
  BY <1>5, ArriveGoto DEF DeleteObjectFails, AfterDelete, Settle, At, End
<1>6. ASSUME NEW transient, Raise(w, transient)
      PROVE  Arrives
  <2>1. exec[w].pc # "idle"
    BY <1>6 DEF Raise, Working, ReportStep, ImportStep
  <2>2. \E p \in {"undo", "retry", "fail"} :
          exec' = [exec EXCEPT ![w].pc = p, ![w].transient = transient]
    BY <1>6 DEF Raise, Settle
  <2> QED
    BY <2>1, <2>2, ArriveFlag
<1>7. CASE PrepareRetryFails(w)
  BY <1>7, ArriveGoto DEF PrepareRetryFails, At
<1>8. CASE PublishRetryFails(w) \/ MarkFailedFails(w)
  BY <1>8, ArriveGoto DEF PublishRetryFails, MarkFailedFails, At, End
<1> QED
  BY <1>1, <1>2, <1>3, <1>4, <1>5, <1>6, <1>7, <1>8 DEF Failure, Outage

LEMMA ArriveAny ==
  ASSUME TypeInv, Elsewhere
  PROVE  Arrives
<1>1. ASSUME NEW j \in Job, Request(j)
      PROVE  Arrives
  BY <1>1, ArriveStay DEF Request, CreateJob, CancelImport, CancelCleanup,
       DestroyObject, RetireObject, DeleteRow
<1>2. ASSUME NEW c \in Caller, Enqueue(c) \/ SendFails(c) \/ CallerCrash(c)
      PROVE  Arrives
  BY <1>2, ArriveStay, ArriveReturn
     DEF Enqueue, Reserve, ReserveRefused, ReserveMissing, Send, SendFails, CallerCrash
<1>3. ASSUME NEW w \in Worker, NEW m \in queue, DeliverFails(w, m)
      PROVE  Arrives
  <2>1. exec[w].pc = "idle" /\ \E p \in {"publish", "ack"} : Begin(w, m, p)
    BY <1>3 DEF DeliverFails
  <2> QED
    BY <2>1, ArriveBegin
<1>4. CASE Recovery
  BY <1>4, ArriveStay DEF Recovery, SweepStart, SweepJob, SweepDrop
<1>5. CASE Tick
  <2>1. \A v \in Worker : exec'[v].pc = exec[v].pc /\ exec'[v].msg = exec[v].msg
    BY <1>5 DEF Tick, TypeInv, ExecOK, Execution, At
  <2> QED
    BY <2>1 DEF Arrives, Stays, At
<1>6. ASSUME NEW w \in Worker, Raise(w, FALSE)
      PROVE  Arrives
  BY <1>6, ArriveFailure DEF Failure
<1>7. ASSUME NEW w \in Worker, Outage(w)
      PROVE  Arrives
  BY <1>7, ArriveFailure DEF Failure
<1> QED
  BY <1>1, <1>2, <1>3, <1>4, <1>5, <1>6, <1>7, ArriveDeliver, ArriveStraight
     DEF Elsewhere

LEMMA CheckLeaseMove ==
  ASSUME TypeInv, NEW w \in Worker, CheckLease(w)
  PROVE  /\ exec[w].pc = "rows" /\ exec'[w].msg = exec[w].msg
         /\ exec'[w].pc \in {"rows", "refresh", "fail", "ack"}
         /\ exec'[w].pc = "refresh" => Withdrawn(RowOf(w))
         /\ \A v \in Worker \ {w} : exec'[v] = exec[v]
<1>1. exec[w] \in Execution /\ exec[w].pc = "rows" /\ CheckRows(w)
  BY Busy DEF CheckLease, Loops, At, TypeInv
<1>2. CASE exec' = exec
  BY <1>1, <1>2
<1>3. ASSUME NEW p \in {"refresh", "fail", "ack"}, Goto(w, p),
             p = "refresh" => Withdrawn(RowOf(w))
      PROVE  /\ exec'[w].msg = exec[w].msg /\ exec'[w].pc = p
             /\ \A v \in Worker \ {w} : exec'[v] = exec[v]
  BY <1>1, <1>3 DEF Goto, TypeInv, ExecOK, Execution
<1>4. \/ exec' = exec
      \/ Goto(w, "refresh") /\ Withdrawn(RowOf(w))
      \/ Goto(w, "fail") \/ Goto(w, "ack")
  BY <1>1 DEF CheckRows, End, Withdrawn
<1> QED
  BY <1>1, <1>2, <1>3, <1>4

LEMMA EndOfFileMove ==
  ASSUME TypeInv, NEW w \in Worker, EndOfFile(w)
  PROVE  /\ exec[w].pc = "rows" /\ exec'[w].msg = exec[w].msg
         /\ exec'[w].pc = "refresh" /\ job' = job
         /\ \A v \in Worker \ {w} : exec'[v] = exec[v]
<1>1. exec[w] \in Execution /\ exec[w].pc = "rows" /\ RowsDone(w)
  BY Busy DEF EndOfFile, At, TypeInv
<1> QED
  BY <1>1 DEF RowsDone, Goto, TypeInv, ExecOK, Execution

LEMMA HandOverMove ==
  ASSUME TypeInv, NEW w \in Worker, HandOver(w)
  PROVE  /\ exec[w].pc = "handoff" /\ exec[w].msg.job \in Job
         /\ exec'[w].pc \in {"handed", "ack"}
         /\ exec'[w].pc = "handed" <=> HasLease(w)
         /\ \A v \in Worker \ {w} : exec'[v] = exec[v]
<1>1. exec[w] \in Execution /\ exec[w].pc = "handoff" /\ exec[w].msg.job \in Job
  BY Busy DEF HandOver, Handoff, At, TypeInv
<1>2. /\ Goto(w, IF HasLease(w) THEN "handed" ELSE "ack")
  BY DEF HandOver, Handoff, End
<1> QED
  BY <1>1, <1>2 DEF Goto, TypeInv, ExecOK, Execution

\* Results are committed nowhere else.
LEMMA HandoffHere ==
  ASSUME TypeInv, RowsNext, NEW u \in Worker, Handoff(u), HasLease(u)
  PROVE  HandOver(u) /\ exec'[u].pc = "handed"
<1>1. exec[u].pc = "handoff" /\ exec'[u].pc = "handed"
  BY Busy DEF Handoff, At, Goto, TypeInv, ExecOK, Execution
<1>2. ASSUME NEW w \in Worker, LookUp(w) \/ RowFails(w) \/ SaveRow(w)
      PROVE  FALSE
  BY <1>1, <1>2 DEF LookUp, RowFails, SaveRow, vars
<1>3. ASSUME NEW w \in Worker, CheckLease(w) \/ EndOfFile(w)
      PROVE  FALSE
  BY <1>1, <1>3, CheckLeaseMove, EndOfFileMove
<1>4. ASSUME NEW w \in Worker, HandOver(w)
      PROVE  w = u
  BY <1>1, <1>4, HandOverMove
<1>5. CASE Elsewhere
  BY <1>1, <1>5, ArriveAny DEF Arrives, At
<1> QED
  BY <1>1, <1>2, <1>3, <1>4, <1>5 DEF RowsNext

\* Results that a job has now were there before, or are committed by this step.
LEMMA CommittedNow ==
  ASSUME TypeInv, RowsNext, NEW j \in Job, job'[j].payload, Live(job'[j])
  PROVE  /\ Live(job[j])
         /\ \/ job[j].payload
            \/ \E u \in Worker : /\ HandOver(u) /\ HasLease(u)
                                 /\ exec[u].msg.job = j /\ exec'[u].pc = "handed"
<1>1. BookMove
  BY RowsStep, NextBookMove
<1>2. Live(job[j])
  BY <1>1, FailedStays, SettledStays DEF Live
<1>3. CASE ~job[j].payload
  <2>1. job'[j].status # "failed"
    BY DEF Live
  <2>2. PICK u \in Worker : Handoff(u) /\ HasLease(u) /\ exec[u].msg.job = j
    BY <1>1, <1>3, <2>1, PayloadMove
  <2> QED
    BY <1>2, <2>2, HandoffHere
<1> QED
  BY <1>2, <1>3

\* What follows the loop knows that the rows are in, and so do the results of a
\* job once they are committed.
Accounted(j) == \A i \in DOMAIN File : made[File[i]] > 0 \/ File[i] \in listed[j]

Complete ==
  /\ \A w \in Worker : At(w, "refresh") => AllIn(w) \/ Withdrawn(RowOf(w))
  /\ \A w \in Worker : At(w, "handoff") => AllIn(w) \/ exec[w].msg.job \in Legacy
  /\ \A j \in Job \ Legacy : job[j].payload /\ Live(job[j]) => Accounted(j)

\* The steps of the loop itself, where nothing of ReportJobs changes.
LEMMA CompleteInLoop ==
  ASSUME Complete, UNCHANGED <<vars, listed>>,
         \A k \in Keys : made[k] > 0 => made'[k] > 0,
         \A v \in Worker : issues[v] \subseteq issues'[v]
  PROVE  Complete'
<1>1. \A v \in Worker : AllIn(v) => AllIn(v)'
  BY FileKeys DEF AllIn, In
<1>2. \A j \in Job : Accounted(j) => Accounted(j)'
  BY FileKeys DEF Accounted
<1> QED
  BY <1>1, <1>2 DEF Complete, vars, At, RowOf, Live, Withdrawn

\* An execution that stays with its failures keeps what it knows.
LEMMA WithdrawnStays ==
  ASSUME TypeInv, BookMove, NEW v \in Worker, exec[v].pc # "idle",
         exec'[v].msg = exec[v].msg, Withdrawn(RowOf(v))
  PROVE  Withdrawn(RowOf(v)')
<1>1. exec[v].msg.job \in Job
  BY Busy DEF TypeInv
<1> QED
  BY <1>1, SettledStays DEF Withdrawn, RowOf

LEMMA CompleteCheckLease ==
  ASSUME TypeInv, LoopInv, Complete, NEW w \in Worker, CheckLease(w)
  PROVE  Complete'
<1>1. RowsNext /\ BookMove
  BY RowsStep, NextBookMove DEF RowsNext
<1>2. /\ exec[w].pc = "rows" /\ exec'[w].msg = exec[w].msg
      /\ exec'[w].pc \in {"rows", "refresh", "fail", "ack"}
      /\ exec'[w].pc = "refresh" => Withdrawn(RowOf(w))
      /\ \A v \in Worker \ {w} : exec'[v] = exec[v]
  BY CheckLeaseMove
<1>3. UNCHANGED <<listed, made>> /\ \A v \in Worker \ {w} : issues'[v] = issues[v]
  BY DEF CheckLease, LoopInv, LoopTypes
<1>4. \A v \in Worker \ {w} : AllIn(v) => AllIn(v)'
  BY <1>3 DEF AllIn, In
<1>5. ASSUME NEW v \in Worker, exec'[v].pc = "refresh"
      PROVE  AllIn(v)' \/ Withdrawn(RowOf(v)')
  <2>1. CASE v = w
    BY <1>1, <1>2, <1>5, <2>1, WithdrawnStays
  <2>2. CASE v # w
    BY <1>1, <1>2, <1>4, <1>5, <2>2, WithdrawnStays DEF Complete, At
  <2> QED
    BY <2>1, <2>2
<1>6. ASSUME NEW v \in Worker, exec'[v].pc = "handoff"
      PROVE  AllIn(v)' \/ exec'[v].msg.job \in Legacy
  BY <1>2, <1>4, <1>6 DEF Complete, At
<1>7. ASSUME NEW j \in Job \ Legacy, job'[j].payload, Live(job'[j])
      PROVE  Accounted(j)'
  <2>1. ASSUME NEW u \in Worker, HandOver(u) PROVE exec[u].pc = "handoff"
    BY <2>1 DEF HandOver, Handoff, At
  <2>2. ASSUME NEW u \in Worker, HandOver(u), exec'[u].pc = "handed" PROVE FALSE
    BY <1>2, <2>1, <2>2
  <2>3. Accounted(j)
    BY <1>1, <1>7, <2>2, CommittedNow DEF Complete
  <2> QED
    BY <1>3, <2>3 DEF Accounted
<1> QED
  BY <1>5, <1>6, <1>7 DEF Complete, At, Live, Withdrawn, RowOf

LEMMA CompleteEndOfFile ==
  ASSUME TypeInv, LoopInv, Complete, NEW w \in Worker, EndOfFile(w)
  PROVE  Complete'
<1>1. /\ exec'[w].pc = "refresh" /\ job' = job
      /\ \A v \in Worker \ {w} : exec'[v] = exec[v]
  BY EndOfFileMove
<1>2. UNCHANGED <<issues, listed, made>>
  BY DEF EndOfFile
<1>3. loop[w] # Off /\ Over(w)
  BY DEF EndOfFile, LoopInv, LoopTypes, At
<1>4. AllIn(w)
  BY <1>3, FileKeys, InLoop DEF Over, AllIn, Passed, LoopInv
<1>5. \A v \in Worker : AllIn(v) => AllIn(v)'
  BY <1>2 DEF AllIn, In
<1>6. \A j \in Job : Accounted(j) => Accounted(j)'
  BY <1>2 DEF Accounted
<1> QED
  BY <1>1, <1>4, <1>5, <1>6 DEF Complete, At, Live, Withdrawn, RowOf

LEMMA CompleteHandOver ==
  ASSUME TypeInv, LoopInv, Complete, NEW w \in Worker, HandOver(w)
  PROVE  Complete'
<1>1. RowsNext /\ BookMove
  BY RowsStep, NextBookMove DEF RowsNext
<1>2. /\ exec[w].pc = "handoff" /\ exec[w].msg.job \in Job
      /\ exec'[w].pc \in {"handed", "ack"}
      /\ \A v \in Worker \ {w} : exec'[v] = exec[v]
  BY HandOverMove
<1>3. made' = made /\ \A v \in Worker \ {w} : issues'[v] = issues[v]
  BY DEF HandOver, LoopInv, LoopTypes
<1>4. \A v \in Worker \ {w} : AllIn(v) => AllIn(v)'
  BY <1>3 DEF AllIn, In
<1>5. ASSUME NEW v \in Worker, exec'[v].pc = "refresh"
      PROVE  AllIn(v)' \/ Withdrawn(RowOf(v)')
  BY <1>1, <1>2, <1>4, <1>5, WithdrawnStays DEF Complete, At
<1>6. ASSUME NEW v \in Worker, exec'[v].pc = "handoff"
      PROVE  AllIn(v)' \/ exec'[v].msg.job \in Legacy
  BY <1>2, <1>4, <1>6 DEF Complete, At
<1>7. ASSUME NEW j \in Job \ Legacy, job'[j].payload, Live(job'[j])
      PROVE  Accounted(j)'
  <2>1. CASE exec'[w].pc = "handed" /\ exec[w].msg.job = j
    <3>1. listed'[j] = issues[w]
      BY <2>1 DEF HandOver, LoopInv, LoopTypes
    <3>2. AllIn(w)
      BY <1>2, <2>1 DEF Complete, At
    <3> QED
      BY <1>3, <3>1, <3>2 DEF Accounted, AllIn, In
  <2>2. CASE ~(exec'[w].pc = "handed" /\ exec[w].msg.job = j)
    <3>1. listed'[j] = listed[j]
      BY <2>2 DEF HandOver, LoopInv, LoopTypes
    <3>2. ASSUME NEW u \in Worker, HandOver(u), exec[u].msg.job = j,
                 exec'[u].pc = "handed"
          PROVE  FALSE
      <4>1. exec[u].pc = "handoff"
        BY <3>2 DEF HandOver, Handoff, At
      <4> QED
        BY <1>2, <2>2, <3>2, <4>1
    <3>3. Accounted(j)
      BY <1>1, <1>7, <3>2, CommittedNow DEF Complete
    <3> QED
      BY <1>3, <3>1, <3>3 DEF Accounted
  <2> QED
    BY <2>1, <2>2
<1> QED
  BY <1>5, <1>6, <1>7 DEF Complete, At, Live, Withdrawn, RowOf

LEMMA CompleteElsewhere ==
  ASSUME TypeInv, Complete, Elsewhere
  PROVE  Complete'
<1>1. RowsNext /\ BookMove /\ Arrives
  BY RowsStep, NextBookMove, ArriveAny DEF RowsNext
<1>2. UNCHANGED <<listed, made>>
  BY DEF Elsewhere
<1>3. ASSUME NEW v \in Worker, exec'[v].pc \in {"refresh", "handoff"},
             exec[v].pc # "idle", AllIn(v)
      PROVE  AllIn(v)'
  <2>1. issues'[v] = issues[v]
    BY <1>3 DEF Elsewhere, At
  <2> QED
    BY <1>2, <1>3, <2>1 DEF AllIn, In
<1>4. ASSUME NEW v \in Worker, exec'[v].pc = "refresh"
      PROVE  AllIn(v)' \/ Withdrawn(RowOf(v)')
  <2>1. exec[v].pc = "refresh" /\ exec'[v].msg = exec[v].msg
    BY <1>1, <1>4 DEF Arrives, Stays
  <2> QED
    BY <1>1, <1>3, <1>4, <2>1, WithdrawnStays DEF Complete, At
<1>5. ASSUME NEW v \in Worker, exec'[v].pc = "handoff"
      PROVE  AllIn(v)' \/ exec'[v].msg.job \in Legacy
  <2>1. CASE Stays(v, {"handoff"})
    BY <1>3, <1>5, <2>1 DEF Stays, Complete, At
  <2>2. CASE Stays(v, {"refresh"}) /\ ~Withdrawn(RowOf(v))
    BY <1>3, <1>5, <2>2 DEF Stays, Complete, At
  <2>3. ASSUME At(v, "idle"), exec'[v].msg.job \in Job \ Legacy,
               job[exec'[v].msg.job].payload, Live(job[exec'[v].msg.job])
        PROVE  AllIn(v)'
    <3>1. Accounted(exec'[v].msg.job)
      BY <2>3 DEF Complete
    <3>2. issues'[v] = listed[exec'[v].msg.job]
      BY <1>5, <2>3 DEF Elsewhere, At
    <3> QED
      BY <1>2, <3>1, <3>2 DEF Accounted, AllIn, In
  <2> QED
    BY <1>1, <1>5, <2>1, <2>2, <2>3 DEF Arrives
<1>6. ASSUME NEW j \in Job \ Legacy, job'[j].payload, Live(job'[j])
      PROVE  Accounted(j)'
  <2>1. ASSUME NEW u \in Worker, HandOver(u), exec'[u].pc = "handed" PROVE FALSE
    <3>1. exec[u].pc = "handoff"
      BY <2>1 DEF HandOver, Handoff, At
    <3> QED
      BY <1>1, <2>1, <3>1 DEF Arrives, At
  <2>2. Accounted(j)
    BY <1>1, <1>6, <2>1, CommittedNow DEF Complete
  <2> QED
    BY <1>2, <2>2 DEF Accounted
<1> QED
  BY <1>4, <1>5, <1>6 DEF Complete, At, Live, Withdrawn, RowOf

LEMMA CompleteStep ==
  ASSUME TypeInv, LoopInv, Complete, [RowsNext]_allVars
  PROVE  Complete'
<1>1. CASE UNCHANGED allVars
  BY <1>1, CompleteInLoop DEF allVars, rowVars
<1>2. ASSUME NEW w \in Worker, LookUp(w)
      PROVE  Complete'
  BY <1>2, CompleteInLoop DEF LookUp
<1>3. ASSUME NEW w \in Worker, RowFails(w) \/ SaveRow(w)
      PROVE  Complete'
  <2>1. loop[w] # Off /\ ~Over(w)
    BY <1>3 DEF RowFails, SaveRow, InRow, Loops, LoopInv, LoopTypes
  <2>2. KeyOf(w) \in Keys
    BY <2>1, InLoop DEF LoopInv
  <2>3. \E seen : RowBehind(w, seen)
    BY <1>3 DEF RowFails, SaveRow, Report, RowBehind
  <2> QED
    BY <2>2, <2>3, InsKept, CompleteInLoop DEF LoopInv, RowBehind
<1> QED
  BY <1>1, <1>2, <1>3, CompleteCheckLease, CompleteEndOfFile, CompleteHandOver,
     CompleteElsewhere DEF RowsNext

\* However often an import is cut short, retried, recovered or delivered again,
\* once it is handed over to its report every row of its file is in the database
\* or among the failures its results list (BaseAssetImporter.run,
\* prepare_import_report_handoff).  Imports an earlier release finished are left
\* out: their files were never read here.
THEOREM EveryRowAccounted == RowsSpec => []AllRowsAccounted
<1>1. RowsInit => Complete
  <2> SUFFICES ASSUME RowsInit PROVE Complete
    OBVIOUS
  <2>1. PICK old \in SUBSET Legacy :
          job = [j \in Job |-> IF j \in old THEN LegacyRow(j) ELSE NewRow(j)]
    BY DEF RowsInit, Init
  <2>2. \A j \in Job \ Legacy : ~job[j].payload
    BY <2>1 DEF NewRow
  <2> QED
    BY <2>2 DEF RowsInit, Init, Complete, At, Idle, Started
<1>2. TypeInv /\ LoopInv /\ Complete /\ [RowsNext]_allVars => Complete'
  BY CompleteStep
<1>3. Spec => []TypeInv
  BY InitTypeInv, NextTypeInv, PTL DEF Spec
<1>4. Complete => AllRowsAccounted
  BY ReportJobsAssumption DEF Complete, Live, Accounted, AllRowsAccounted
<1> QED
  BY <1>1, <1>2, <1>3, <1>4, RowsImplement, LoopInvariant, PTL DEF RowsSpec

-----------------------------------------------------------------------------
(* Rows are not imported again once the results are committed.             *)

\* Who imports rows of a job with results did so when they were committed, and
\* its task was let loose twice.
ImportingEarly ==
  \A w \in Worker : Importing(w) =>
    \/ ~RowOf(w).payload \/ ~Live(RowOf(w))
    \/ w \in early /\ TaskOf(w) \in misled

LEMMA EarlyKept ==
  ASSUME RowsNext, NEW v \in early, Importing(v)'
  PROVE  v \in early'
<1>1. ASSUME NEW w \in Worker, HandOver(w) PROVE early \subseteq early'
  BY <1>1 DEF HandOver
<1> QED
  BY <1>1 DEF RowsNext, LookUp, RowFails, SaveRow, CheckLease, EndOfFile, Elsewhere

LEMMA NextImportingEarly ==
  ASSUME LeaseInv, ImportingEarly, RowsNext, StageMove, CarrierMove
  PROVE  ImportingEarly'
<1> USE DEF LeaseInv
<1> SUFFICES ASSUME NEW v \in Worker, exec'[v].pc \in Loading,
                    job'[exec'[v].msg.job].payload, Live(job'[exec'[v].msg.job])
             PROVE  v \in early' /\ exec'[v].msg.task \in misled'
  BY DEF ImportingEarly, Importing, Loading, RowOf, TaskOf, Live
<1>1. exec[v].pc \in Loading /\ exec'[v].msg = exec[v].msg
  BY DEF StageMove, Stays
<1>2. /\ exec[v].pc # "idle" /\ exec[v].pc \in Working
      /\ exec[v].pc \notin {"handoff", "retried"} /\ Importing(v)
  BY <1>1 DEF Loading, Working, ImportStep, Importing
<1>3. exec[v].msg.job \in Job /\ TaskOf(v) \in Task
  BY <1>2, Busy DEF TaskOf, TypeInv
<1>4. misled \subseteq misled'
  BY DEF CarrierMove
<1>5. Live(RowOf(v))
  BY <1>1, <1>3, CommittedNow DEF RowOf
<1>6. CASE RowOf(v).payload
  <2>1. v \in early /\ TaskOf(v) \in misled
    BY <1>2, <1>5, <1>6 DEF ImportingEarly
  <2>2. v \in early'
    BY <2>1, EarlyKept DEF Importing, Loading
  <2> QED
    BY <1>1, <1>4, <2>1, <2>2 DEF TaskOf
<1>7. CASE ~RowOf(v).payload
  <2>1. PICK u \in Worker : /\ HandOver(u) /\ HasLease(u)
                            /\ exec[u].msg.job = exec[v].msg.job
                            /\ exec'[u].pc = "handed"
    BY <1>1, <1>3, <1>7, CommittedNow DEF RowOf
  <2>2. v \in early'
    BY <1>2, <2>1 DEF HandOver
  <2>3. exec[u].pc = "handoff"
    BY <2>1 DEF HandOver, Handoff, At
  <2>4. ASSUME TaskOf(v) \notin misled
        PROVE  FALSE
    <3>1. Owns(RowOf(v), TaskOf(v))
      BY <1>2, <1>5, <2>4 DEF LeaseOK, Held, Live
    <3>2. TaskOf(u) = TaskOf(v)
      BY <2>1, <3>1 DEF HasLease, RowOf, Owns
    <3>3. u = v
      BY <1>2, <1>3, <2>3, <2>4, <3>2, OneWorker
    <3> QED
      BY <1>2, <2>3, <3>3
  <2> QED
    BY <1>1, <1>4, <2>2, <2>4 DEF TaskOf
<1> QED
  BY <1>6, <1>7

\* Once the results of an import are committed, rows are imported only by an
\* execution that was at it beside the one that committed them, of a task with
\* two messages in the world (prepare_import_report_handoff, claim_job).
THEOREM CommittedOnce == RowsSpec => []NoImportAfterPayload
<1>1. RowsInit => ImportingEarly
  BY DEF RowsInit, Init, ImportingEarly, Importing, Idle, Started
<1>2. LeaseInv /\ FilesInv /\ ImportingEarly /\ [RowsNext]_allVars => ImportingEarly'
  <2> SUFFICES ASSUME LeaseInv, FilesInv, ImportingEarly, [RowsNext]_allVars
               PROVE  ImportingEarly'
    OBVIOUS
  <2>1. CASE UNCHANGED allVars
    BY <2>1 DEF allVars, rowVars, vars, ImportingEarly, Importing, RowOf, TaskOf, Live
  <2>2. CASE RowsNext
    <3>1. StageMove /\ CarrierMove
      BY <2>2, RowsStep, NextStageMove, NextCarrierMove DEF FilesInv
    <3> QED
      BY <2>2, <3>1, NextImportingEarly
  <2> QED
    BY <2>1, <2>2
<1>3. ImportingEarly => NoImportAfterPayload
  BY DEF ImportingEarly, NoImportAfterPayload, Live
<1> QED
  BY <1>1, <1>2, <1>3, LeaseInvariant, FilesInvariant, RowsImplement, PTL DEF RowsSpec

=============================================================================
