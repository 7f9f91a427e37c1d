------------------------------ MODULE JobState ------------------------------
(***************************************************************************)
(* The database row of one asynchronous job (reporting.models.ReportJob)   *)
(* and the conditional updates that reporting/services/job_state.py,       *)
(* reporting/services/job_dispatch.py and core/tasks/job_recovery.py apply *)
(* to it.  Each operator is one locked transaction or one filtered UPDATE: *)
(* a pure function of the row, so it is shared by every specification that *)
(* moves jobs.                                                             *)
(*                                                                         *)
(* Time is relative.  A timestamp is kept as its AGE, the time elapsed     *)
(* since it was written, saturating at AgeCap: "heartbeat_at <= now - d"   *)
(* is "age >= d".  Never stands for NULL.                                  *)
(***************************************************************************)
EXTENDS Integers

CONSTANTS
  Task,          \* Celery task ids
  NoTask,        \* the empty task_id / report_file
  MaxAttempts,   \* JOB_MAX_ATTEMPTS
  StaleAfter,    \* JOB_STALE_AFTER_SECONDS
  DispatchGrace, \* JOB_DISPATCH_GRACE_SECONDS
  AgeCap         \* ages saturate here

ASSUME JobStateAssumption ==
  /\ NoTask \notin Task
  /\ MaxAttempts \in Nat \ {0}
  /\ StaleAfter \in Nat \ {0}
  /\ DispatchGrace \in Nat \ {0}
  /\ AgeCap \in Nat
  /\ AgeCap >= StaleAfter
  /\ AgeCap >= DispatchGrace

Never == -1
Age == 0..AgeCap
Attempt == 0..MaxAttempts

\* "absent" and "deleted" are rows that do not exist yet, or any more.
Status == {"absent", "pending", "running", "done", "failed", "cancelled",
           "deleted"}

\* started_at and finished_at carry no control here: a row that a sweep or a
\* claim can still use has started_at set only together with heartbeat_at.
Row == [import   : BOOLEAN,                 \* report_type = ASSET_IMPORT
        status   : Status,
        owner    : Task \union {NoTask},    \* task_id, the execution lease
        attempts : Attempt,                 \* attempt_count
        hb       : Age \union {Never},      \* age of heartbeat_at
        created  : Age,                     \* age of created_at
        payload  : BOOLEAN,                 \* result_payload is not None
        file     : Task \union {NoTask}]    \* report_file, by its task part

Exists(r) == r.status \notin {"absent", "deleted"}

Owns(r, t) == r.status = "running" /\ r.owner = t

\* Deliberate faults, used only to show that the checks notice them, are
\* prefixed Bug and stand before the definition they distort.
BugHeartbeatIgnored(r) == r.created
LastActivity(r) == IF r.hb # Never THEN r.hb ELSE r.created

IsStale(r) == LastActivity(r) >= StaleAfter

\* An import finished by an earlier release: results stored, no workbook yet.
ImportHandoff(r) ==
  r.status = "done" /\ r.import /\ r.payload /\ r.file = NoTask

-----------------------------------------------------------------------------
(* claim_job: the reason it returns, and the row it leaves.                *)

Reserved(r, t) ==
  /\ r.status = "pending" \/ ImportHandoff(r)
  /\ r.owner \notin {NoTask, t}
  /\ r.hb # Never
  /\ r.hb < DispatchGrace

BugTerminalClaimed(r, t, redelivered) ==
  CASE r.status = "done" /\ ~ImportHandoff(r) -> "completed"
    [] Owns(r, t) /\ ~(redelivered /\ r.attempts >= MaxAttempts) -> "redelivery"
    [] r.status = "running" /\ r.owner \notin {NoTask, t} /\ ~IsStale(r)
         -> "duplicate"
    [] Reserved(r, t) -> "reserved"
    [] OTHER -> IF r.attempts >= MaxAttempts
                THEN "attempts_exhausted"
                ELSE "claimed"

ClaimReason(r, t, redelivered) ==
  CASE r.status \in {"cancelled", "failed"} -> "terminal"
    [] r.status = "done" /\ ~ImportHandoff(r) -> "completed"
    [] Owns(r, t) -> IF redelivered /\ r.attempts >= MaxAttempts
                     THEN "attempts_exhausted"
                     ELSE "redelivery"
    [] r.status = "running" /\ r.owner \notin {NoTask, t} /\ ~IsStale(r)
         -> "duplicate"
    [] Reserved(r, t) -> "reserved"
    [] OTHER -> IF r.attempts >= MaxAttempts
                THEN "attempts_exhausted"
                ELSE "claimed"

IsClaim(reason) == reason \in {"claimed", "redelivery"}

Failed(r) == [r EXCEPT !.status = "failed", !.owner = NoTask, !.hb = Never]

ClaimedRow(r, t, redelivered) ==
  LET reason == ClaimReason(r, t, redelivered) IN
  CASE reason = "claimed" ->
         [r EXCEPT !.status = "running", !.owner = t, !.hb = 0,
                   !.attempts = @ + 1]
    [] reason = "redelivery" ->
         [r EXCEPT !.hb = 0,
                   !.attempts = IF redelivered THEN @ + 1 ELSE @]
    [] reason = "attempts_exhausted" -> Failed(r)
    [] OTHER -> r

-----------------------------------------------------------------------------
(* The other conditional updates.  Each returns the row unchanged when its *)
(* filter matches nothing; the caller tests Owns or MayRetry.              *)

Touched(r, t) == IF Owns(r, t) THEN [r EXCEPT !.hb = 0] ELSE r

BugRetryUnbounded(r, t) == Owns(r, t)
MayRetry(r, t) == Owns(r, t) /\ r.attempts < MaxAttempts

RetryPrepared(r) == [r EXCEPT !.attempts = @ + 1, !.hb = 0]

\* mark_job_failed; an import also stores import_failure_payload().
MarkedFailed(r, t, kind) ==
  IF Owns(r, t)
  THEN [Failed(r) EXCEPT !.payload = @ \/ kind = "import"]
  ELSE r

BugResultsNotStored(r) ==
  [r EXCEPT !.status = "pending", !.owner = NoTask, !.hb = Never,
            !.attempts = 0]
HandedOff(r) ==
  [r EXCEPT !.status = "pending", !.owner = NoTask, !.hb = Never,
            !.attempts = 0, !.payload = TRUE]

Completed(r, t) ==
  [r EXCEPT !.status = "done", !.file = t, !.owner = NoTask, !.hb = Never]

Cancelled(r) ==
  [r EXCEPT !.status = "cancelled", !.owner = NoTask, !.hb = Never]

-----------------------------------------------------------------------------
(* Dispatch and recovery.                                                  *)

MayReserve(r) ==
  /\ r.status = "pending" \/ (r.status = "done" /\ r.file = NoTask)
  /\ r.owner = NoTask

ReservedRow(r, t) == [r EXCEPT !.owner = t, !.hb = 0]

TaskFor(r) == IF r.import /\ ~r.payload THEN "import" ELSE "report"

ReservationUndone(r, t) ==
  IF r.status = "pending" /\ r.owner = t
  THEN [r EXCEPT !.owner = NoTask, !.hb = Never]
  ELSE r

BugPendingNotRecovered(r, since) ==
  \/ r.status = "running" /\ LastActivity(r) - since >= StaleAfter
  \/ ImportHandoff(r)

\* _is_recoverable, judged at a time "since" ago: the sweep compares with the
\* now it read when it started.
Recoverable(r, since) ==
  \/ r.status = "running" /\ LastActivity(r) - since >= StaleAfter
  \/ r.status = "pending" /\ LastActivity(r) - since >= DispatchGrace
  \/ ImportHandoff(r)

RecoveredRow(r) ==
  IF r.attempts >= MaxAttempts
  THEN Failed(r)
  ELSE [r EXCEPT !.status = "pending", !.owner = NoTask, !.hb = Never]

\* One unit of time passes for a row.
Older(a) == IF a = Never \/ a = AgeCap THEN a ELSE a + 1
Aged(r) == [r EXCEPT !.hb = Older(@), !.created = Older(@)]
=============================================================================
