---------------------------- MODULE MCReportJobs ----------------------------
(***************************************************************************)
(* Instances of ReportJobs for TLC.  Time is counted in units of the hard  *)
(* time limit: TimeLimit 1, StaleAfter 2, DispatchGrace 1, SweepLimit 1.   *)
(***************************************************************************)
EXTENDS ReportJobs, TLC

\* Workers and task ids are interchangeable.
Symmetric == Permutations(Worker) \union Permutations(Task)
=============================================================================
