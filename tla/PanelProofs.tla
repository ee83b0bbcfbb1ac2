---------------------------- MODULE PanelProofs -----------------------------
(***************************************************************************)
(* The parts of the panel side by side.  A step of the panel is a step of  *)
(* one part that leaves the others' variables alone, so a behaviour of the *)
(* panel is one of every part, and what is proved of a part holds in it.   *)
(***************************************************************************)
EXTENDS MCPanel, AccountProofs, AntivirusProofs, BackupScheduleProofs, ServerProofs

\* A step of the panel is a step of the part, or nothing to it.
LEMMA MailMoves == [PanelNext]_panelVars => [MailNext]_mailVars
BY DEF PanelNext, panelVars, Only

LEMMA QuarantineMoves == [PanelNext]_panelVars => [QuarantineNext]_quarantineVars
BY DEF PanelNext, panelVars, Only

LEMMA PortMoves == [PanelNext]_panelVars => [PortNext]_portVars
BY DEF PanelNext, panelVars, Only

LEMMA SlotMoves == [PanelNext]_panelVars => [SlotNext]_slotVars
BY DEF PanelNext, panelVars, Only

LEMMA QuotaMoves == [PanelNext]_panelVars => [QuotaNext]_quotaVars
BY DEF PanelNext, panelVars, Only

LEMMA SchemaMoves == [PanelNext]_panelVars => [SchemaNext]_schemaVars
BY DEF PanelNext, panelVars, Only

LEMMA SessionMoves == [PanelNext]_panelVars => [SessionNext]_sessionVars
BY DEF PanelNext, panelVars, Only

LEMMA ScheduleMoves == [PanelNext]_panelVars => [ScheduleNext]_scheduleVars
BY DEF PanelNext, panelVars, Only

(***************************************************************************)
(* The parts share the panel's process and nothing else: whatever the      *)
(* panel does, each part sees a behaviour of its own specification.        *)
(***************************************************************************)
THEOREM PanelRunsItsParts ==
    PanelSpec => /\ MailSpec /\ QuarantineSpec /\ PortSpec /\ SlotSpec
                 /\ QuotaSpec /\ SchemaSpec /\ SessionSpec /\ ScheduleSpec
<1>1. PanelSpec => MailSpec
  <2>1. PanelInit => MailInit BY DEF PanelInit
  <2> QED BY <2>1, MailMoves, PTL DEF PanelSpec, MailSpec
<1>2. PanelSpec => QuarantineSpec
  <2>1. PanelInit => QuarantineInit BY DEF PanelInit
  <2> QED BY <2>1, QuarantineMoves, PTL DEF PanelSpec, QuarantineSpec
<1>3. PanelSpec => PortSpec
  <2>1. PanelInit => PortInit BY DEF PanelInit
  <2> QED BY <2>1, PortMoves, PTL DEF PanelSpec, PortSpec
<1>4. PanelSpec => SlotSpec
  <2>1. PanelInit => SlotInit BY DEF PanelInit
  <2> QED BY <2>1, SlotMoves, PTL DEF PanelSpec, SlotSpec
<1>5. PanelSpec => QuotaSpec
  <2>1. PanelInit => QuotaInit BY DEF PanelInit
  <2> QED BY <2>1, QuotaMoves, PTL DEF PanelSpec, QuotaSpec
<1>6. PanelSpec => SchemaSpec
  <2>1. PanelInit => SchemaInit BY DEF PanelInit
  <2> QED BY <2>1, SchemaMoves, PTL DEF PanelSpec, SchemaSpec
<1>7. PanelSpec => SessionSpec
  <2>1. PanelInit => SessionInit BY DEF PanelInit
  <2> QED BY <2>1, SessionMoves, PTL DEF PanelSpec, SessionSpec
<1>8. PanelSpec => ScheduleSpec
  <2>1. PanelInit => ScheduleInit BY DEF PanelInit
  <2> QED BY <2>1, ScheduleMoves, PTL DEF PanelSpec, ScheduleSpec
<1> QED BY <1>1, <1>2, <1>3, <1>4, <1>5, <1>6, <1>7, <1>8

(***************************************************************************)
(* The types of all of the panel's variables, those of the parts at rest   *)
(* included.                                                               *)
(***************************************************************************)
THEOREM PanelTypeCorrect == PanelSpec => []PanelTypeOK
<1>1. MailSpec => []MailTypeOK BY PanelAssumption, MailTypeCorrect DEF PanelAssumption
<1>2. QuarantineSpec => []QuarantineTypeOK BY PanelAssumption, QuarantineTypeCorrect DEF PanelAssumption
<1>3. PortSpec => []PortTypeOK BY PanelAssumption, PortTypeCorrect DEF PanelAssumption
<1>4. SlotSpec => []SlotTypeOK BY PanelAssumption, SlotTypeCorrect DEF PanelAssumption
<1>5. QuotaSpec => []QuotaTypeOK BY PanelAssumption, QuotaTypeCorrect DEF PanelAssumption
<1>6. SchemaSpec => []SchemaTypeOK BY PanelAssumption, SchemaTypeCorrect DEF PanelAssumption
<1>7. SessionSpec => []SessionTypeOK BY PanelAssumption, SessionTypeCorrect DEF PanelAssumption
<1>8. ScheduleSpec => []ScheduleTypeOK BY PanelAssumption, TypeCorrect DEF PanelAssumption
<1>9. /\ MailTypeOK /\ QuarantineTypeOK /\ PortTypeOK /\ SlotTypeOK
      /\ QuotaTypeOK /\ SchemaTypeOK /\ SessionTypeOK /\ ScheduleTypeOK
      => PanelTypeOK
  BY DEF PanelTypeOK
<1> QED BY <1>1, <1>2, <1>3, <1>4, <1>5, <1>6, <1>7, <1>8, <1>9, PanelRunsItsParts, PTL

(***************************************************************************)
(* Everything the parts promise, of the panel as it runs.  The cached      *)
(* timeout must be kept for some time (sessionidle.go: settingTTL).        *)
(***************************************************************************)
THEOREM PanelKeepsItsPromises ==
    ASSUME settingTTL > 0
    PROVE  PanelSpec =>
             /\ []OneCopyPerMailbox /\ []QueuedIsReachable
             /\ []FoundIsKept /\ []HeldEntryHasItsFile /\ []FlaggedIsContained
             /\ []PortsAgree /\ RollbackTakesOnlyItsOwn /\ VerdictIsKept
             /\ []OneScanAtATime /\ []SlotComesBack
             /\ []PlanIsKept /\ []ResellerNearlyKept
             /\ []AppliedIsWhatRan /\ TailFollowsItsHead
             /\ RevokedIsRefused /\ SettingTakesHold /\ IdleIsSignedOut
             /\ []MissedIsCaughtUp
             /\ FlagUseSpec /\ CustomerUseSpec /\ FilesUseSpec
<1> USE PanelAssumption DEF PanelAssumption
<1>1. MailSpec => []OneCopyPerMailbox /\ []QueuedIsReachable BY OneCopy, QueuedRowsAreReached
<1>2. QuarantineSpec => []FoundIsKept /\ []HeldEntryHasItsFile /\ []FlaggedIsContained
  BY FoundFileIsKept, HeldEntryCanBeRestored, FlaggedFileHasLeft
<1>3. PortSpec => []PortsAgree /\ RollbackTakesOnlyItsOwn /\ VerdictIsKept
  BY PortsComeToAgree, RollbackIsItsOwn, VerdictReachesItsRow
<1>4. SlotSpec => []OneScanAtATime /\ []SlotComesBack BY OneScan, SlotIsNeverStranded
<1>5. QuotaSpec => []PlanIsKept /\ []ResellerNearlyKept BY PlanCeiling, ResellerCeiling
<1>6. SchemaSpec => []AppliedIsWhatRan /\ TailFollowsItsHead BY AppliedRanOnce, NoForeignHead
<1>7. SessionSpec => RevokedIsRefused /\ SettingTakesHold /\ IdleIsSignedOut
  BY RevocationHolds, SavedSettingHolds, IdleAccountsAreSignedOut
<1>8. ScheduleSpec => []MissedIsCaughtUp BY MissedBackupsAreCaughtUp
<1>9. (SlotSpec => FlagUseSpec) /\ (QuotaSpec => CustomerUseSpec) /\ (PortSpec => FilesUseSpec)
  BY FlagRefinesExclusiveUse, LockRefinesExclusiveUse, MutexRefinesExclusiveUse
<1> QED BY <1>1, <1>2, <1>3, <1>4, <1>5, <1>6, <1>7, <1>8, <1>9, PanelRunsItsParts
=============================================================================
