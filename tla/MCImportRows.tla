---------------------------- MODULE MCImportRows ----------------------------
(***************************************************************************)
(* An instance of ImportRows for TLC.  The lease is looked at before the    *)
(* third row.                                                              *)
(***************************************************************************)
EXTENDS ImportRows, TLC

MCFile == <<"plain", "plain", "serial">>

\* Workers and task ids are interchangeable.
Symmetric == Permutations(Worker) \union Permutations(Task)
=============================================================================
