---------------------------- MODULE MCBackupOps ----------------------------
(***************************************************************************)
(* Instances of BackupOps for TLC.  "parent" and "addon" are a domain and  *)
(* an addon domain of it, on one system user and one _main schema; "other" *)
(* is an unrelated tenant.                                                 *)
(***************************************************************************)
EXTENDS BackupOps, TLC

\* A tenant with an addon domain, and another tenant, who has no database.
SharedUserOf == [d \in Domain |-> IF d = "other" THEN "c_other" ELSE "c_site"]
SharedDatabasesOf ==
    [d \in Domain |-> IF d = "parent" THEN {"c_site_main", "c_site_wp"}
                      ELSE IF d = "addon" THEN {"c_site_main"}
                      ELSE {}]

OneDatabaseOf == [d \in Domain |-> {"c_site_main"}]

RunSymmetry == Permutations(Op)
=============================================================================
