---------------------------- MODULE JobLifecycle ----------------------------
(***************************************************************************)
(* What the asynchronous jobs promise their users, whatever happens to     *)
(* workers, messages and leases underneath: a job moves through its phases *)
(* in one direction only, an import commits its rows before its report can *)
(* be published and never goes back to importing, a job that was settled   *)
(* stays settled, and a published workbook can be downloaded until the job *)
(* is being deleted.  The last promise is not kept for a job whose task    *)
(* ran twice or was told that its commit had failed: such a job is exposed,*)
(* and its workbook may come and go.  ReportJobs implements this           *)
(* specification.                                                          *)
(***************************************************************************)
CONSTANTS
  Job,      \* jobs
  Imports,  \* asset imports among them
  Legacy    \* imports an earlier release may have left unpublished

VARIABLES
  phase,    \* where the user sees each job
  leaving,  \* jobs whose deletion is under way
  workbook, \* jobs whose workbook can be downloaded
  exposed   \* jobs whose workbook a misled task may take away

vars == <<phase, leaving, workbook, exposed>>

Phase == {"absent", "importing", "reporting", "published", "failed",
          "cancelled", "deleted"}

Active == {"importing", "reporting"}
Settled == {"published", "failed", "cancelled"}

Init ==
  /\ \E old \in SUBSET Legacy :
       phase = [j \in Job |-> IF j \in old THEN "reporting" ELSE "absent"]
  /\ leaving = {}
  /\ workbook = {}
  /\ exposed = {}

Move(j, p) == phase' = [phase EXCEPT ![j] = p]

Submit(j) ==
  /\ phase[j] = "absent"
  /\ Move(j, IF j \in Imports THEN "importing" ELSE "reporting")
  /\ UNCHANGED <<leaving, workbook, exposed>>

CommitRows(j) ==
  /\ phase[j] = "importing"
  /\ Move(j, "reporting")
  /\ UNCHANGED <<leaving, workbook, exposed>>

\* With and without the workbook of a job.
Either(j) == {workbook \union {j}, workbook \ {j}}

\* A job may be exposed by what happened before its workbook was published ...
Publish(j) ==
  /\ phase[j] = "reporting"
  /\ Move(j, "published")
  /\ \/ workbook' = workbook \union {j} /\ UNCHANGED exposed
     \/ workbook' \in Either(j) /\ exposed' = exposed \union {j}
  /\ UNCHANGED leaving

Fail(j) ==
  /\ phase[j] \in Active
  /\ Move(j, "failed")
  /\ UNCHANGED <<leaving, workbook, exposed>>

Cancel(j) ==
  /\ j \in Imports
  /\ phase[j] \in Active
  /\ Move(j, "cancelled")
  /\ UNCHANGED <<leaving, workbook, exposed>>

\* ... or by what happens afterwards: its task is misled, or ...
Expose(j) ==
  /\ phase[j] = "published"
  /\ exposed' = exposed \union {j}
  /\ UNCHANGED <<phase, leaving, workbook>>

\* ... a misled task takes the workbook away, or stores it again.
Disturb(j) ==
  /\ j \in exposed
  /\ workbook' \in Either(j)
  /\ UNCHANGED <<phase, leaving, exposed>>

\* A deletion begins, and takes the workbook with it.
Withdraw(j) ==
  /\ phase[j] \in Active \union Settled
  /\ leaving' = leaving \union {j}
  /\ workbook' = workbook \ {j}
  /\ UNCHANGED <<phase, exposed>>

\* It ends; the clean-up of a job that came back to life leaves it alone.
Remove(j) ==
  /\ j \in leaving
  /\ leaving' = leaving \ {j}
  /\ \/ /\ Move(j, "deleted")
        /\ workbook' = workbook \ {j}
        /\ exposed' = exposed \ {j}
     \/ /\ phase[j] \notin Settled
        /\ UNCHANGED <<phase, workbook, exposed>>

Next ==
  \E j \in Job : \/ Submit(j) \/ CommitRows(j) \/ Publish(j) \/ Fail(j)
                 \/ Cancel(j) \/ Withdraw(j) \/ Remove(j)
                 \/ Expose(j) \/ Disturb(j)

Spec == Init /\ [][Next]_vars
=============================================================================
