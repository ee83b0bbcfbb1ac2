------------------------------ MODULE MCPanel ------------------------------
(***************************************************************************)
(* The parts of the panel that share its process but no state, in one      *)
(* model: a behaviour is one of a single part, which "part" names, and     *)
(* leaves the variables of the others alone.  The properties are the       *)
(* parts' own.  The session gate appears in four scenarios, the schedule   *)
(* and the quotas in two.                                                  *)
(***************************************************************************)
EXTENDS BackupSchedule, MailMigration, Quarantine, SessionGate, PanelPort, ScanSlot,
        QuotaGate, SchemaMigrations

CONSTANTS f1, p1,                      \* Quarantine
          q1, q2,                      \* SessionGate, QuotaGate
          shop, blog,                  \* BackupSchedule
          a1, a2, a3, c1, c2, c3       \* ScanSlot

VARIABLE part

\* Named, so that TLC computes them once.
FoundAt  == [f \in {f1} |-> p1]

\* One domain in the small hours and one near midnight.
Daily == [d \in {shop, blog} |-> "daily"]
Hours == [d \in {shop, blog} |-> IF d = shop THEN 3 ELSE 23]

\* Two askers in the panel, and the timer's process.
InProcess   == [a \in {a1, a2, a3} |-> IF a = a3 THEN "timer" ELSE "panel"]
InPool      == [c \in {c1, c2, c3} |-> IF c = c3 THEN "timer" ELSE "panel"]

ASSUME PanelAssumption ==
    /\ MigrationAssumption /\ QuarantineAssumption /\ PortAssumption
    /\ SlotAssumption /\ QuotaAssumption /\ MigrationsAssumption /\ SessionAssumption
    /\ ScheduleAssumption

\* Which part's variables move; every other part's stay.
Only(p, moving) ==
    /\ part = p /\ UNCHANGED part
    /\ (moving # "mail" => UNCHANGED mailVars)
    /\ (moving # "quarantine" => UNCHANGED quarantineVars)
    /\ (moving # "session" => UNCHANGED sessionVars)
    /\ (moving # "schedule" => UNCHANGED scheduleVars)
    /\ (moving # "port" => UNCHANGED portVars)
    /\ (moving # "slot" => UNCHANGED slotVars)
    /\ (moving # "quota" => UNCHANGED quotaVars)
    /\ (moving # "schema" => UNCHANGED schemaVars)

\* What a scenario of the session gate leaves out.
OneCall     == call'[q2] = Idle
NoTimeout   == saves' = 0
NoRevision  == version' = 1
NoSignOut   == listed' = {}
NoReadFault == readFaults' = 0
Until(t)    == clock' <= t

\* What a scenario of the schedule leaves out.
NoMishap       == failures' = 0 /\ outages' = 0
OneMishap      == failures' + outages' <= 1
NoOperatorPass == due'["operator"] = Off /\ reading'["operator"] = NotReading
ScansOfOneKind == \A p \in Pass : reading'[p].until - reading'[p].since \in {0, LongestScan}

\* What a scenario of the quotas leaves out: rows that pass no check, or most of
\* them and lookups that fail.
GivenRows    == MapThenSumSet(LAMBDA k : givenDomains[k] + givenDatabases[k], Customer)
NothingGiven == GivenRows' = 0 /\ unasked' = 0
FewGiven     == GivenRows' + unasked' <= 2 /\ lookupFaults' = 0

PanelInit ==
    /\ part \in {"mail", "quarantine", "port", "slot", "quota", "moving", "schema",
                "signout", "revocation", "idle", "unread", "schedule", "failing"}
    /\ MailInit /\ QuarantineInit /\ PortInit /\ SlotInit /\ QuotaInit /\ SchemaInit
    /\ SessionInit /\ ScheduleInit

\* Two requests that overlap a sign-out, and one a revocation of all of the
\* account's sessions; two that overlap while the timeout is set, and one whose
\* reads fail.  Passes of both kinds, and the ticker's with a failure or an outage.
\* Creations alone, and beside moves and restores.  What follows a case that all
\* properties of a part excuse is left out.
PanelNext ==
    \/ Only("mail", "mail") /\ MailNext
    \/ Only("quarantine", "quarantine") /\ QuarantineNext
    \/ Only("port", "port") /\ ~joined /\ PortNext
    \/ Only("slot", "slot") /\ SlotNext
    \/ Only("quota", "quota") /\ ~unguarded /\ QuotaNext /\ NothingGiven
    \/ Only("moving", "quota") /\ ~unguarded /\ QuotaNext /\ FewGiven
    \/ Only("schema", "schema") /\ SchemaNext
    \/ Only("signout", "session") /\ SessionNext /\ NoTimeout /\ NoRevision
    \/ Only("revocation", "session") /\ SessionNext /\ OneCall /\ NoTimeout
    \/ Only("idle", "session") /\ SessionNext /\ NoRevision /\ NoSignOut /\ NoReadFault /\ Until(4)
    \/ Only("unread", "session") /\ SessionNext /\ OneCall /\ NoRevision /\ Until(4)
    \/ Only("schedule", "schedule") /\ ScheduleNext /\ NoMishap /\ ScansOfOneKind
    \/ Only("failing", "schedule") /\ ScheduleNext /\ OneMishap /\ NoOperatorPass /\ ScansOfOneKind

panelVars == <<part, mailVars, quarantineVars, sessionVars, scheduleVars, portVars, slotVars,
               quotaVars, schemaVars>>

PanelSpec == PanelInit /\ [][PanelNext]_panelVars

-----------------------------------------------------------------------------
\* The types of every part's variables.
PanelTypeOK ==
    /\ part = "mail" => MailTypeOK
    /\ part = "quarantine" => QuarantineTypeOK
    /\ part = "port" => PortTypeOK
    /\ part = "slot" => SlotTypeOK
    /\ part \in {"quota", "moving"} => QuotaTypeOK
    /\ part = "schema" => SchemaTypeOK
    /\ part \in {"schedule", "failing"} => ScheduleTypeOK
    /\ part \in {"signout", "revocation", "idle", "unread"} => SessionTypeOK
=============================================================================
