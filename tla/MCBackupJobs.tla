---------------------------- MODULE MCBackupJobs ----------------------------
(***************************************************************************)
(* Instances of BackupJobs for TLC: one manual bulk job of two domains and *)
(* a nightly pass of one.                                                  *)
(***************************************************************************)
EXTENDS BackupJobs

CONSTANTS manual, nightly

KindOf == [j \in Job |-> IF j = manual THEN "manual" ELSE "scheduled"]
TotalOf == [j \in Job |-> IF j = manual THEN 2 ELSE 1]
=============================================================================
