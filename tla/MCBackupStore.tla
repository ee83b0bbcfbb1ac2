--------------------------- MODULE MCBackupStore ---------------------------
(***************************************************************************)
(* Instances of BackupStore for TLC.                                       *)
(***************************************************************************)
EXTENDS BackupStore, TLC

CONSTANTS d1, d2, f1, f2

\* Two backups of one domain, taken at different seconds.
OneDomain == [b \in 1..N |-> d1]
OwnName   == [b \in 1..N |-> IF b = 1 THEN f1 ELSE f2]

\* A domain and its addon domain, which share a system user, backed up in
\* the same second.
TwoDomains == [b \in 1..N |-> IF b = 1 THEN d1 ELSE d2]
OneName    == [b \in 1..N |-> f1]
=============================================================================
