------------------------- MODULE MCBackupSchedule --------------------------
(***************************************************************************)
(* Instances of BackupSchedule for TLC.                                    *)
(***************************************************************************)
EXTENDS BackupSchedule

CONSTANTS shop, blog

Daily  == [d \in Domain |-> "daily"]
Weekly == [d \in Domain |-> "weekly"]

\* One domain in the small hours and one near midnight.
TwoHours == [d \in Domain |-> IF d = shop THEN 3 ELSE 23]
AtThree  == [d \in Domain |-> 3]
=============================================================================
