--------------------------- MODULE BackupSchedule ---------------------------
(***************************************************************************)
(* When the scheduler of internal/backups backs a domain up: the hourly    *)
(* ticker, the serial pass over the due domains behind the daily integrity *)
(* scan, the passes an operator starts by hand, whatever keeps a backup    *)
(* from coming about, and an outage of the panel.                          *)
(*                                                                         *)
(* Time is counted in quarters of an hour.  The two minutes the scheduler  *)
(* waits after a start round to none, and a backup, which has a deadline   *)
(* of 25 minutes, takes one quarter or two, the retention behind it        *)
(* included.  A change of the clock for summer time is left out.           *)
(***************************************************************************)
EXTENDS Integers, FiniteSets, FiniteSetsExt

CONSTANTS
    Domain,
    Frequency,    \* "daily" or "weekly"
    Hour,         \* the hour configured for the domain
    Pass,         \* "ticker", and those an operator may have under way (TickNow)
    Durations,    \* how long a backup takes, in quarters
    LongestScan,  \* the longest an integrity scan takes, in quarters
    Outages,      \* how long the panel may be down, in quarters
    StartedAt,    \* when the panel first comes up
    Nobody,
    MaxOutages, MaxFailures, LastQuarter   \* bounds

ScheduleAssumption ==
    /\ Frequency \in [Domain -> {"daily", "weekly"}]
    /\ Hour \in [Domain -> 0..23]
    /\ "ticker" \in Pass
    /\ Durations \subseteq 1..2 /\ Durations # {} /\ Outages \subseteq Nat
    /\ LongestScan \in 0..72    \* eighteen hours
    /\ StartedAt \in Nat /\ LastQuarter \in Nat /\ MaxOutages \in Nat /\ MaxFailures \in Nat
    /\ IsFiniteSet(Domain) /\ Nobody \notin Domain

VARIABLES
    now,
    tickAt,    \* when the ticker fires next, or NotYet before there is one
    pending,   \* a tick waits in the ticker's channel, which holds one
    reading,   \* when each pass that has not read its list began, and may read it
    due,       \* what is left of each pass's list, or Off when it has none
    working,   \* the domain each pass is backing up, and until when
    scannedAt, \* lastIntegrityScan, which is in memory
    last,      \* domains.last_backup_at
    free,      \* when the panel last came up or the domain's backup last failed
    outages, failures

scheduleVars == <<now, tickAt, pending, reading, due, working, scannedAt, last, free,
                  outages, failures>>

OneHour == 4
Day     == 24 * OneHour
NotYet  == -1
Off     == {Nobody}
NoBackup   == [domain |-> Nobody, until |-> 0]
NotReading == [since |-> NotYet, until |-> NotYet]

\* What the statements of a pass have, from its start, and the time between two
\* integrity scans.
PassBudget == 2
ScanPeriod == 20 * OneHour

\* The floor between two backups of a domain.
minimumInterval(f) == IF f = "weekly" THEN 6 * Day + 12 * OneHour ELSE 23 * OneHour

\* The last time it was that hour: today's, or yesterday's.
lastHourSlot(t, h) ==
    LET today == (t \div Day) * Day + h * OneHour
    IN  IF today > t THEN today - Day ELSE today

\* The rule that catching up replaced: only in the domain's own hour.
backupDueExactHour(t, d) ==
    \/ last[d] = NotYet
    \/ /\ t - last[d] >= minimumInterval(Frequency[d])
       /\ (t % Day) \div OneHour = Hour[d]

backupDue(t, d) ==
    \/ last[d] = NotYet
    \/ /\ t - last[d] >= minimumInterval(Frequency[d])
       /\ last[d] < lastHourSlot(t, Hour[d])

ScheduleInit ==
    /\ now = StartedAt
    /\ tickAt = NotYet
    /\ pending = TRUE
    /\ reading = [p \in Pass |-> NotReading]
    /\ due = [p \in Pass |-> Off]
    /\ working = [p \in Pass |-> NoBackup]
    /\ scannedAt = NotYet
    /\ last = [d \in Domain |-> NotYet]
    /\ free = [d \in Domain |-> StartedAt]
    /\ outages = 0 /\ failures = 0

Reading(p) == reading[p] # NotReading
AtRest(p)  == due[p] = Off /\ ~Reading(p)

\* Something keeps these domains from their backup.
NotBackedUp(D) ==
    /\ failures < MaxFailures
    /\ failures' = failures + 1
    /\ free' = [d \in Domain |-> IF d \in D THEN now ELSE free[d]]

\* The first pass runs before there is a ticker.
CreateTicker ==
    /\ tickAt = NotYet /\ ~pending /\ AtRest("ticker")
    /\ tickAt' = now + OneHour
    /\ UNCHANGED <<now, pending, reading, due, working, scannedAt, last, free, outages, failures>>

\* The ticker never waits for a reader; a tick that finds the channel full is
\* dropped.
TickFires ==
    /\ now = tickAt
    /\ tickAt' = now + OneHour
    /\ pending' = TRUE
    /\ UNCHANGED <<now, reading, due, working, scannedAt, last, free, outages, failures>>

integrityScanDue == scannedAt = NotYet \/ now - scannedAt >= ScanPeriod

\* tickOnce notes the time, and scans the stored archives first if that is due.
StartPass(p) ==
    /\ AtRest(p)
    /\ \E q \in 0..LongestScan :
         /\ integrityScanDue \/ q = 0
         /\ reading' = [reading EXCEPT ![p] = [since |-> now, until |-> now + q]]
    /\ scannedAt' = IF integrityScanDue THEN now ELSE scannedAt

StartTickerPass ==
    /\ pending
    /\ pending' = FALSE
    /\ StartPass("ticker")
    /\ UNCHANGED <<now, tickAt, due, working, last, free, outages, failures>>

TickNow(p) ==
    /\ p # "ticker"
    /\ StartPass(p)
    /\ UNCHANGED <<now, tickAt, pending, due, working, last, free, outages, failures>>

\* The list that is read once, before the first backup; an empty one ends the pass.
Takes(p, D) ==
    /\ due' = [due EXCEPT ![p] = IF D = {} THEN Off ELSE D]
    /\ reading' = [reading EXCEPT ![p] = NotReading]

\* The domains that were due when the pass began.  A statement may fail on the
\* way, the master switch be off or the disk guard refuse: then the list is
\* empty or short.
dueDomains(p) ==
    /\ Reading(p) /\ now >= reading[p].until
    /\ now - reading[p].since <= PassBudget
    /\ LET listed == {d \in Domain : backupDue(reading[p].since, d)}
       IN  \/ Takes(p, listed) /\ UNCHANGED <<free, failures>>
           \/ \E D \in SUBSET listed : Takes(p, D) /\ NotBackedUp(listed \ D)
    /\ UNCHANGED <<now, tickAt, pending, working, scannedAt, last, outages>>

\* The context was made before the scan: after a long one the list is read no more.
LosePass(p) ==
    /\ Reading(p) /\ now >= reading[p].until
    /\ now - reading[p].since >= PassBudget
    /\ Takes(p, {})
    /\ UNCHANGED <<now, tickAt, pending, working, scannedAt, last, free, outages, failures>>

Locked(d) == \E p \in Pass : working[p].domain = d

\* A slip: a pass whose list is empty is not closed.
MoveOnLeavesPass(p, d) == due' = [due EXCEPT ![p] = @ \ {d}]

MoveOn(p, d) ==
    due' = [due EXCEPT ![p] = IF @ = {d} THEN Off ELSE @ \ {d}]

\* The next domain of the pass, unless another run has its lock: another pass's,
\* or one that fails it.
BeginBackup(p, d) ==
    /\ due[p] # Off /\ d \in due[p] /\ working[p] = NoBackup
    /\ \/ /\ Locked(d)
          /\ MoveOn(p, d) /\ UNCHANGED <<working, free, failures>>
       \/ /\ ~Locked(d)
          /\ \E q \in Durations :
                working' = [working EXCEPT ![p] = [domain |-> d, until |-> now + q]]
          /\ UNCHANGED <<due, free, failures>>
       \/ /\ ~Locked(d) /\ NotBackedUp({d})
          /\ MoveOn(p, d) /\ UNCHANGED working
    /\ UNCHANGED <<now, tickAt, pending, reading, scannedAt, last, outages>>

\* runOneBackup returned: last_backup_at is written when it worked.
FinishBackup(p) ==
    LET d == working[p].domain
    IN  /\ d # Nobody /\ now = working[p].until
        /\ working' = [working EXCEPT ![p] = NoBackup]
        /\ MoveOn(p, d)
        /\ \/ last' = [last EXCEPT ![d] = now] /\ UNCHANGED <<free, failures>>
           \/ NotBackedUp({d}) /\ UNCHANGED last
        /\ UNCHANGED <<now, tickAt, pending, reading, scannedAt, outages>>

\* An operator stops the pass's job, or it panics: the backup in flight is killed
\* and the rest is never started.
StopPass(p) ==
    /\ due[p] # Off
    /\ due' = [due EXCEPT ![p] = Off]
    /\ working' = [working EXCEPT ![p] = NoBackup]
    /\ NotBackedUp(due[p])
    /\ UNCHANGED <<now, tickAt, pending, reading, scannedAt, last, outages>>

\* The panel goes down and comes up again, and the scheduler starts with a pass.
Outage ==
    /\ outages < MaxOutages
    /\ outages' = outages + 1
    /\ \E q \in Outages : now' = now + q /\ free' = [d \in Domain |-> now + q]
    /\ tickAt' = NotYet
    /\ pending' = TRUE
    /\ reading' = [p \in Pass |-> NotReading]
    /\ due' = [p \in Pass |-> Off]
    /\ working' = [p \in Pass |-> NoBackup]
    /\ scannedAt' = NotYet
    /\ UNCHANGED <<last, failures>>

\* Nothing but a scan and a backup takes time.
Settled ==
    /\ tickAt # NotYet => now < tickAt
    /\ AtRest("ticker") => ~pending /\ tickAt # NotYet
    /\ \A p \in Pass : Reading(p) => now < reading[p].until
    /\ \A p \in Pass : due[p] # Off => working[p] # NoBackup /\ now < working[p].until

QuarterPasses ==
    /\ Settled /\ now < LastQuarter
    /\ now' = now + 1
    /\ UNCHANGED <<tickAt, pending, reading, due, working, scannedAt, last, free,
                   outages, failures>>

ScheduleNext ==
    \/ CreateTicker
    \/ TickFires
    \/ StartTickerPass
    \/ \E p \in Pass : TickNow(p) \/ dueDomains(p) \/ LosePass(p)
    \/ \E p \in Pass, d \in Domain : BeginBackup(p, d)
    \/ \E p \in Pass : FinishBackup(p) \/ StopPass(p)
    \/ Outage
    \/ QuarterPasses

ScheduleSpec == ScheduleInit /\ [][ScheduleNext]_scheduleVars

-----------------------------------------------------------------------------
\* The types of the variables.
ScheduleTypeOK ==
    /\ now \in Nat /\ tickAt \in Nat \cup {NotYet} /\ pending \in BOOLEAN
    /\ reading \in [Pass -> [since : Nat \cup {NotYet}, until : Nat \cup {NotYet}]]
    /\ due \in [Pass -> {Off} \cup ((SUBSET Domain) \ {{}})]
    /\ working \in [Pass -> [domain : Domain \cup {Nobody}, until : Nat]]
    /\ scannedAt \in Nat \cup {NotYet}
    /\ last \in [Domain -> Nat \cup {NotYet}]
    /\ free \in [Domain -> Nat]
    /\ outages \in 0..MaxOutages /\ failures \in 0..MaxFailures

Starts(d) == \E p \in Pass : working[p].domain # d /\ working'[p].domain = d

(***************************************************************************)
(* A domain that was missed is caught up (backupDue): once its period is   *)
(* over, and while the panel is up and nothing fails that its backup       *)
(* needs, the next backup is there within two ticks, two scans and two     *)
(* passes: a tick that waits for the pass under way and is lost to its own *)
(* scan, and the one after it, which has none.                             *)
(***************************************************************************)
Period(f) == IF f = "weekly" THEN minimumInterval(f) ELSE Day
Slack     == 2 * OneHour + 2 * LongestScan + 2 * Max(Durations) * Cardinality(Domain)

MissedIsCaughtUp ==
    \A d \in Domain :
        last[d] # NotYet =>
            now <= Max({last[d] + Period(Frequency[d]), free[d]}) + Slack

(***************************************************************************)
(* A domain backed up before is backed up again in the hour that follows   *)
(* its slot (DomainBackupsPage: "the panel checks hourly.  A backup is     *)
(* created at the selected hour").                                         *)
(***************************************************************************)
RunsInItsHour ==
    [][\A d \in Domain : Starts(d) /\ last[d] # NotYet =>
         now - lastHourSlot(now, Hour[d]) <= OneHour]_scheduleVars
=============================================================================
