# Servika: a TLA+ model of the panel's protocols

Servika is a web hosting panel: one Go process (`src/cmd/server`, listening on
:8443) that keeps its state in MariaDB, changes the host by running commands
(nginx, PHP-FPM, MariaDB, tar, lftp, systemd), and serves a React front end.
Most of its code renders configuration, parses output or reads and writes one
row. What is hard to get right is the part with a life of its own: goroutines
that outlive the request that started them, claims held in memory beside rows
held in the database, uploads to servers that fail half way, a scheduler that
must catch up, caches that outlive what they cached, and a process that may be
restarted at any instruction.

This directory holds a specification of that part. The backup subsystem has the
most of it, because it is where the program's own concurrency, failure handling
and recovery meet, and where a mistake costs a customer the data; seven smaller
protocols stand beside it.

## 1. The system and its components

### Backups

**Runs** (`internal/backups`: `domainlock.go`, `granular.go`, `backups.go`,
`restore.go`). State: the in-memory gate per domain id (`domainOperations`), the
in-memory slot per system user (`stagingSlots`), the staging directory
`<backupRoot>/<user>/__db__` on the disk, the tenant's home and schemas, the
`backups` rows. Operations: a backup (claim, stage, dump each database, tar,
clear, record) and a restore (claim, rewrite the home, import the schemas),
started from four places: the single-domain endpoints, a bulk backup, a bulk
restore and the nightly pass. Hard: the gate is keyed by the domain id while the
resources belong to the system user, which an addon or subdomain row shares; the
gate refuses and the slot waits; a killed process leaves dumps behind. Correct
means: an archive holds exactly what its own run dumped, one run works on a
domain at a time, and every claim is given back.

**Bulk jobs** (`jobs.go`, `schedule.go`, `internal/bgjob`). State: the
`backup_jobs` row, the table of cancel functions `runningJobs`, the goroutine
and its counters. Operations: start, the loop over the domains, stop, panic,
finish, and `HealJobsOnStartup`. Hard: the stop request, the goroutine and the
restart all write one row, and none of them holds a lock. Correct means: the row
closes, says what happened, and is not rewritten afterwards; a stop neither
starts a further domain nor counts as a failure.

**Copies** (`destination.go`, `settings.go`, `integrity.go`, `backups.go`).
State: the rows (`remote_status`, `verification`, the mark of a moved archive),
the archives under the backup root, the objects at each domain's destination and
at the system-wide one. Operations: two upload goroutines per backup,
delete-local, the delete button, retention, the integrity scan, the heal of
interrupted uploads. Hard: the file, the object and the row are three stores
changed one after the other by goroutines that read them earlier. Correct means:
the last whole copy is never removed, and the row does not claim more than is
true.

**Schedule** (`due.go`, `schedule.go`). State: `last_backup_at`, the ticker and its
one-slot channel, the daily integrity scan, the list a pass read, the domain
lock. Operations: a tick, a pass, the operator's own pass (`TickNow`), an outage.
Hard: the due rule combines a floor, a daily slot and catching up; a pass may
outlast the ticks it should have answered, and a scan the context that the pass
reads its list with. Correct means: a missed backup is caught up soon, at most
one per period, at the hour the operator chose.

    HTTP handler ---\                         /--> upload to the domain's destination
    bulk job --------> one run of a domain --<
    nightly pass ---/   (gate, slot, tar)     \--> upload to the system-wide one --> delete-local
        ^   ^                 |                                   |
        |   StopJob, panic    v                                   v
     ticker, TickNow       backups row  <--- integrity scan, retention, delete button
        ^                                    restart: HealJobsOnStartup, HealRemoteUploads
    domains.last_backup_at

These four meet in the database and in the two in-memory claims, and each module
keeps the part of that state its own properties are about. A run is atomic for
`BackupJobs` and `BackupSchedule` (a domain's work ends well or badly), and
`BackupStore` starts where `BackupOps` ends: at the archive under its name.

### Protocols of their own

**Antivirus quarantine** (`internal/antivirus/quarantine.go`). State: the
`av_quarantine` row, the file in the tenant's store under `<row id>_<name>`, the
tenant's tree, the finding's flag. Operations: contain (row, copy, remove, name,
flag), restore (open, stream, mark, drop), delete (unlink, erase). Hard: three
stores changed one after the other, every step may fail or be the last before a
restart, nothing heals, and requests overlap. Correct means: a found file is in
the tree or in the store, an entry that offers a restore has its file, and a
finding shown as contained is.

**Antivirus scan slot** (`internal/antivirus/slot.go`). State: a flag in each
process, and a named lock of the database that belongs to a connection.
Operations: take both, record, scan, release both, in two processes (the panel
and the timer's `servika-server -av-sweep`). Hard: each failure between the two
must give back the first; `GET_LOCK` is re-entrant on its connection; a
connection can be lost. Correct means: one scan at a time, and a slot nobody is
in can be taken.

**Session gate** (`internal/middleware`: `auth.go`, `dbresilience.go`;
`internal/sessionidle`). State: the account's `token_version`, the signed-out
sessions, the idle setting and the account's last activity, each in the
database, and the cached value of the first three. Operations: sign in, sign
out, revoke all, save the setting, and a request through its reads. Hard: a read
that fails falls back on a cached value, and what a request read is stored some
time after it was read. Correct means: a revoked session is refused soon, an idle
one is signed out, a saved timeout takes hold, and nobody at work is signed out.

**Mail migration queue** (`internal/mail/migrate.go`, `migration_handlers.go`).
State: the job row under a unique index over the active mailbox, a bounded queue
in memory, the workers, the table of cancel functions. Operations: start, claim,
copy, finish, cancel, and the requeue of unfinished rows at start. Hard: row,
queue and cancel table are changed one after the other. Correct means: no row
waits for nobody, one mailbox is copied once at a time, and the mailbox is
released in the end.

**Panel port change** (`internal/panelport`). State: the environment file, the
vhost, what the panel listens on and nginx has loaded, the outcome file, the
history row, the mutex. Operations: an external change, verified and put back in
the request; a backend change, finished by a detached helper that restarts the
panel, waits for the new port, rolls back, and leaves a verdict a later start
folds into the row. Hard: the helper outlives the process that started it, and
its verdict the helper; a reload that fails is noticed by the request and not by
the helper, and a live helper may be taken for dead. Correct means: files,
listener and nginx agree, a rollback takes back its own change, and a verdict is
kept until its row has it.

**Quotas and reseller limits** (`internal/quota`, and the handlers that create
domains and databases). State: the rows counted, the customer's lock.
Operations: lock, check the plan, check the reseller, insert; remove; and what
passes no check: the default database of a new domain, a database that a restore
registers again, the domains that are moved to another customer (`BulkOwner`)
and, for the reseller's ceiling, those an administrator creates. Hard: a ceiling
is a count followed by a separate insert, and a reseller's total is summed over
customers whose locks do not exclude each other. Correct means: but for the
unchecked rows, the plan's ceiling is kept, and the reseller's is nearly.

**Schema migrations** (`internal/dbmigrate`). State: the file, what committed,
the progress row with its checksum, the applied row. Operations: reconcile and
resume, execute, record progress, finish; a repair of the file. Hard: statements
run outside a transaction, and the progress row is written after a failure only.
Correct means: each statement runs once, in the order of its own file.

### How the parts interact

The backups' parts are described above. The others share with them and with each
other the process that stops and starts, MariaDB as the store whose statements
may fail, and the operator; they share no row, file, lock or channel. That is
why each is a module of its own, and why they may be checked side by side in one
model (`MCPanel`) without losing an interleaving: a step of one never enables,
disables or changes a step of another. A failing statement and a restart are in
each module that has to survive them.

## 2. The modules and the code

| module | models | extended by |
|---|---|---|
| `BackupOps` | runs, gate, slot, dumps, archive, restore, restart | `MCBackupOps`, `BackupOpsProofs` |
| `ExclusiveUse` | what a claim on a resource promises, without the claim | instantiated in `BackupOps` for its two claims, in `ScanSlot`, `QuotaGate` and `PanelPort` for one each |
| `BackupJobs` | a job's row, its cancel function, its goroutine, stop requests | `MCBackupJobs`, `BackupJobsProofs` |
| `BackupStore` | rows, archives, objects, uploads, deletion, retention, scan | `MCBackupStore`, `BackupStoreProofs` |
| `BackupSchedule` | the due rule, the ticker, passes, outages | `MCBackupSchedule`, `MCPanel`, `BackupScheduleProofs` |
| `MailMigration` | rows, queue, workers, cancels of mailbox copies | `MCPanel`, `AccountProofs`; instantiated in `MCLive` |
| `Quarantine` | rows, store and tree of the quarantine | `MCPanel`, `AntivirusProofs` |
| `ScanSlot` | flag and lock of the one scan | `MCPanel`, `AntivirusProofs` |
| `SessionGate` | a request through its checks, the caches | `MCPanel`, `AccountProofs` |
| `PanelPort` | a port change, its helper, its outcome file | `MCPanel`, `ServerProofs` |
| `QuotaGate` | the counts, the lock, the insert | `MCPanel`, `ServerProofs` |
| `SchemaMigrations` | one file over the starts of the panel | `MCPanel`, `ServerProofs` |
| `MCPanel`, `MCLive` | the compositions that the runs `panel` and `live` check | `PanelProofs` for `MCPanel` |

An `MC` module gives the constants of one instance; the `.cfg` files choose
among its definitions and the bounds. Operators introduced by "A slip:" are
plausible mistakes in one action (a dropped guard, a release forgotten on an
error path); no specification uses them. `PROJECT.json` names, for every
property that a run verifies, the slip that breaks it: a property is worth its
run only if it can tell the two apart. The `map` in the same file gives the
source lines of each definition.

`MCPanel` holds eight modules in thirteen parts, and `MCLive` two. A behaviour is
one of a single part: `part` names it from the initial state on, and
`Only(p, moving)` leaves the variables of every other module alone. A state of
the composition is thus a state of one part, and the sizes add up instead of
multiplying. The modules are extended, so that the run verifies their own
properties, the ones the theorems are about; while another part moves, a
module's variables stay as they were at the start. The session gate has four
parts, the schedule and the quotas two, one per scenario, each of which leaves
out the steps its question does not need. The parts of the port and of the
quotas end where a case begins that every property of theirs excuses.

### BackupOps

An `Op` is a goroutine that may run one backup or restore after another.
`phase[o]` is its place in the code:

| phase | code |
|---|---|
| `waiting` | holds the domain (`lockDomain`), waits in `lockStaging` |
| `resetting` | holds the slot, about to `RemoveAll` and `MkdirAll` `__db__` |
| `dumping` | `dumpDatabases`, one database at a time |
| `archiving` | tar reads the home and `__db__` (`packageArchive`) |
| `clearing`, `freeing` | the two halves of the release that `takeStagingDir` returned |
| `recording` | checksum and `INSERT INTO backups` |
| `fetching`, `rewriting`, `importing` | a restore before, during and after `restoreHome`; `restoreAllDBs` |
| `releasing` | the deferred release of the domain |

`Fail` stands for every early return, deadline and panic: it moves a run to the
first of the deferred releases it has registered so far. `staged` holds the
dumps in `__db__`, each with its writer; after a `Restart` the writer is `NoOp`.
`mixed[o]` is a history variable: it becomes true when a restore writes what `o`
is reading while `o` reads it. `UserOf` and `DatabasesOf` are the sharing
between domains: an addon row carries its parent's `system_user`
(`addondomains.go:277`), hence the same home, `__db__` and `_main` schema.

### BackupJobs

`row[j]` is the `backup_jobs` row, `registered` the keys of `runningJobs`,
`cancelled` the jobs whose context is cancelled, `worker[j]` the place of the
goroutine in `StartBackupJob`, `runRestoreJob` or `tickOnce` (which have one
shape), `tally[j]` its local counters, `stopper[x]` a `StopJob` request between
its SELECT, `stopJob` and the closing UPDATE. A manual job runs under
`bgjob.Go`, whose `onPanic` closes the row; the nightly pass runs under
`bgjob.Guard`, which only logs. Any statement may fail (`WriteFails`, bounded by
`MaxFaults`): the code logs and goes on. The counters of a domain are the job's;
what a domain's run does inside is `BackupOps`.

### BackupStore

`made[b]` is how far a backup's run is past its archive, `row[b]` its row,
`local` the backup root, `object` what each destination holds under each name,
`upload[k][b]` the goroutine of one of the two routes, `deleter[x]` a delete
request or retention pass with the list it read and the status it saw, `scan`
the integrity scan between its hash and its verdict. `deleting` (the backups
some deletion has read) and `unwritten` (those for which the statement that
closes an upload failed: the upload's own, or a start's `HealRemoteUploads`,
which logs it and goes on) are history variables of the properties. A transport
either works, fails, or reports success and leaves a short object; `Blind`
allows a destination that cannot tell an object's size, where
`uploadSizeMismatch` has nothing to compare.

Two abstractions: two different archives differ in size and digest, and
retention is over one kind of backup (the code counts manual and scheduled ones
apart, with the same statements).

### BackupSchedule

Time is in quarters of an hour. A backup takes one or two (its deadline is 25
minutes). `QuarterPasses` only when every goroutine waits for something
(`Settled`): the code between two waits takes no time. `tickAt` is when the
ticker fires next, `NotYet` until the panel's first pass has returned
(`CreateTicker`, `schedule.go:40-41`); `pending` is its channel of one tick.
`reading[p]` is a pass in `tickOnce` before it has its list: since when, and
until when its integrity scan takes. The list is `dueDomains` at the time the
pass began. The context of its statements is made before the scan, so that a pass
whose scan took more than `PassBudget` reads no list (`LosePass`); after exactly
half an hour, as far as quarters tell, it may go either way. `free[d]` is when
the panel last came up or something last kept `d` from its backup
(`NotBackedUp`): a failing statement, the master switch or the disk guard, which
leave the list empty or short, a lock some other run holds, a backup that failed,
a pass that was stopped or panicked (`StopPass`). `Outage` stops and starts the
panel, which runs a pass at once.

### Quarantine

`req[r].at` is a request's place: `record` (the INSERT), `copy`, `remove`,
`name` (the UPDATE that gives the row its stored name), `flag`, `undo` for
`quarantineFinding` and `contain`; `open`, `stream`, `mark`, `drop` for
`restoreEntry`; `unlink`, `erase` for `deleteEntry`. A file is `found` (what
the scan reported), `part` (what an unfinished restore left) or `own` (what the
tenant put there since). `writing` names the restore that still writes a file.
`loss` is a history variable that notes why a found file may be gone; section 5
describes each reason. `QuarantineStops` forgets the requests and heals nothing,
as the code does.

### ScanSlot

`scanning[p]` is the flag of a process, `lock` the named lock with its
connection and how often that took it, `asker[a]` a request, tick or sweep
between `takeScanSlot` and its release. A connection goes back to the pool by
`Conn.Close` and may be handed out again with what it holds, so `FreeConnection`
is every connection of the process no asker has.

### SessionGate

Time is in half minutes, and a request takes at most `Latency`. `call[q].at`
goes through `RequireAuth`: `version` and `keepVersion` (`tokenVersionMatches`:
read, then store and judge), `listed` and `keepListed` (`sessionRevoked`),
`setting` and `keepSetting` (`Minutes`), `stamp` and `touch` (`Enforce`),
`serve`. A read that fails on all its attempts uses the cached value if that is
`Fresh`, and refuses otherwise; for the idle timeout a failed read accepts.
`revokedAt`, `savedAt` and `activeAt` are history variables: when each last
happened.

### MailMigration

`job` is the table, `queue` the channel, `worker[w].at` a worker in
`runMigrationJob` (`claim`, `remember`, `copy`, `forget`), `ask[r]` a request
between its statements, `cancels` the keys of the cancel table, `told` the
copies whose context is cancelled. `Insert`'s guard is the unique index.
`Restart` queues an increasing subsequence of the unfinished rows, as long as
the queue has room: a row whose credential does not open is closed instead.
`stranded` notes the rows about which a statement failed, `raced` those whose
row a cancel closed under a copy.

### PanelPort

A change moves its port to its own number, so that a file says whose change it
carries. `change[c].at` is a request in `Change`, `env` and `vhost` the two
files, `serving` and `proxied` what runs on them, `outcome` the file, `helper`
the script of the transient unit. nginx loads the vhost when `Reloads`; when
`ReloadFails`, which the helper does not look at (`helper.go:60`), it keeps what
it had, or has loaded it all the same. `PanelComesUp` is what every start does:
requests are gone, the listener follows the file, `FoldOutcome` folds the
verdict, unless `helperStillRunning` finds the helper: it may be told that a live
one is not there (an error or no answer in time, `handlers.go:242-248`), and then
the file is cleared beside it. A row whose closing UPDATE fails stays "open".
`unloaded`, `joined` and `torn` are history variables: a reload failed and none
has worked since, two changes ran side by side, a process died between two of its
steps.

### QuotaGate

`creation[q].at` is a request's next check or its insert. An addon domain asks
the plan, then the reseller; a top-level domain the reseller, then the plan, and
takes no lock; one that an administrator creates (kind "free") asks the plan
only; a database asks the plan. `LockCustomerForDomain` may go on without a lock
when it cannot read whose domain it is. Rows come without a check by
`provisionDatabase` (in one step with the domain's row; a later one is as good as
`reRegisterRestoredDB`, which adds a row at any time) and by `BulkOwner`, which
moves domains with their databases from one customer to another, or from and to
somebody who is no customer of the reseller; `givenDomains`, `givenDatabases` and
`unasked` count them. `unguarded` is a history variable: a creation without the
lock overlapped another one's insert, or a move took the domain from under the
creation of its database, whose row then counts for another customer than the one
that was checked.

### SchemaMigrations

A file is a sequence of statements and a checksum is that sequence. `ran` is
what committed. `Start` is `reconcileApplied` with `resumePoint`; `Execute` may
fail, or commit while its answer is lost, and a statement that committed before
may fail for it; `recordProgress` writes the row and ends the start;
`FinishInsert` and `FinishDelete` are the two statements of `finish`. `Edit` is
a repair between or during starts. `unrecorded` is a history variable: a start
ended with a committed statement no row knows of.

## 3. The runs

| run | instance | verified | distinct states |
|---|---|---|---|
| `ops_shared` | parent and addon on one user, another tenant, 2 runs, 2 databases, 1 restart | `TypeOK`, `ArchiveHoldsOwnDumps`, `DomainExclusive`, `StagingExclusive`, `PrivateArchiveIsWhole` | 3.2 M |
| `jobs` | manual job of 2 domains, nightly pass of 1, 1 stop request, 1 fault, 1 restart, fair | `TypeOK`, `StatusTellsOutcome`, `RegisteredIsLive`, `RemainingNeverStarted`, `StopIsNotAFailure`, `ResultIsFinal`, `ManualJobCloses` | 0.32 M |
| `store_copies` | 2 backups of a domain that keeps 1, delete-local, blind, 1 deleter, 1 fault, 1 restart | `TypeOK`, `LastCopySurvives`, `UploadingHasOwner` | 1.9 M |
| `store_live` | 1 backup, local copy kept, not blind, 2 deleters, 2 scans, 2 faults, 1 restart, fair | `SuccessfulIsWhole`, `UploadSettles` | 0.55 M |
| `live` | the claims of `BackupOps` (parent and addon, 2 runs, 1 database, 1 restart) and the mailbox copies (1 worker, 1 request), fair | `DomainIsReleased`, `SlotIsReleased`, `DomainUseSpec`, `JobSettles` | 0.19 M |
| `panel` | the thirteen parts of the next table | `PanelTypeOK` and the eighteen properties in it | 3.2 M |

The parts of `panel`, each an instance of one module:

| part | instance | verified | distinct states |
|---|---|---|---|
| `mail` | 2 mailboxes, 2 workers, 2 requests, a queue of 1, 2 jobs, 1 fault, 1 stop | `QueuedIsReachable`, `OneCopyPerMailbox` | 0.59 M |
| `quarantine` | 1 finding, 2 requests, 2 rows, 1 fault, 1 restart | `FoundIsKept`, `HeldEntryHasItsFile`, `FlaggedIsContained` | 0.95 M |
| `port` | 3 changes, 2 faults, 1 stop or reboot, until two changes run side by side | `PortsAgree`, `RollbackTakesOnlyItsOwn`, `VerdictIsKept` | 0.36 M |
| `slot` | 2 askers in the panel and the timer's, 2 and 1 connections, 3 faults, 2 stops | `OneScanAtATime`, `SlotComesBack` | 5.7 k |
| `quota` | 2 customers of a reseller, 2 creations, ceilings 2 (domains), 1 (databases), 2 (reseller), 1 failed lookup, no unchecked rows, until creations overlap without a lock | `PlanIsKept`, `ResellerNearlyKept` | 25 k |
| `moving` | the same with up to 2 unchecked rows, no failed lookup | `PlanIsKept`, `ResellerNearlyKept` | 0.21 M |
| `schema` | 3 statements, 1 edit, 2 faults, 1 kill | `AppliedIsWhatRan`, `TailFollowsItsHead` | 41 k |
| `signout` | 2 overlapping requests of a session, sign-out, 1 failed read | `RevokedIsRefused` | 0.38 M |
| `revocation` | 1 request at a time, all sessions revoked, 1 failed read | `RevokedIsRefused` | 0.10 M |
| `idle` | 2 overlapping requests, a timeout saved or not, no sign-out | `IdleIsSignedOut`, `SettingTakesHold` | 0.13 M |
| `unread` | 1 request at a time, a timeout, 1 failed read | `IdleIsSignedOut`, `SettingTakesHold` | 89 k |
| `schedule` | 2 daily domains (hours 3 and 23), 34 hours, scans of no time or 45 minutes, the ticker's and the operator's passes | `MissedIsCaughtUp` | 0.13 M |
| `failing` | the same with the ticker's passes only, and 1 failure or 1 outage of 90 minutes | `MissedIsCaughtUp` | 0.15 M |

Six more runs (section 5) show a statement of the code or its documents that
does not hold.

**Why the bounds are enough.** *Backups.* Every hazard of the runs needs two
goroutines: a claim has one holder and one rival, a directory one owner and one
intruder. Two databases let one dump fail and one succeed; one restart leaves
staged dumps for a later run, which then has the rest of the behaviour to trip
over them. The other tenant is there for the claim that sharing alone mixes
archives. A job of two domains has a first, a last and a "between"; one stop
request that may be issued again and again races everything the goroutine does.
Two backups with a retention of one make retention delete while the newer one
uploads. Thirty-four hours hold a slot of each domain, missed or not, and
what may come between it and its backup; a scan of 45 minutes loses its pass, and
the failure or the outage may fall anywhere.

*The other parts.* A second request and a second row let a restore or a deletion
meet a containment of the same path, one fault or one stop leaves each
half-finished state behind, and the other request then works on it. Two
mailboxes fill a queue of one with a waiting job while another is copied; two
workers may take two jobs of one mailbox. Three port changes are one that rolls
back, one that waited for its mutex and one after it. The timer's process is the
slot's second process, a second connection of the panel the one that did not
take the lock. Two customers with a reseller's ceiling below what their plans
add up to are the least whose sum can pass it; one unchecked row of each kind
for each customer is enough to fill, from outside, the room another creation
found. A file of three statements has a head, a tail and one between. The
session parts run until the cache entries of the first requests have run out; a
lifetime of one half minute is as good as one of many, since only "before" and
"after" it matter, and the theorems of `AccountProofs` cover the others.

Every bound on behaviour is a constant named `Max...`, `Horizon` or
`LastQuarter`. The theorems of section 6 hold for every value of them.

Symmetry over the runs is used in `ops_shared` and `ops_mixed_archive`, where
only invariants are verified. Deadlock is checked in `BackupOps` (`ops_shared`,
`ops_mixed_archive`), where a run can always be started; everything else comes
to rest when the jobs, rows, hours or changes of the instance are used up.

**Fairness.** Nobody is assumed to start anything, to stop a job, to delete or
to scan. Assumed is weak fairness of what a started goroutine does next:

* `BackupOps`: `WF(Advance(o))` per run. A backup or restore has a context with
  a deadline (20, 25, 30 or 60 minutes) and its commands are killed at it; the
  wait for the staging slot ends at the waiter's own deadline (`Fail` from
  `waiting`), and the slot is handed on because its holder has one too.
* `BackupJobs`: `WF(Work(j))` and `WF(Stop(x))`. The work of a domain has such a
  deadline; the rest is straight-line code and single statements.
* `BackupStore`: `WF(UploadStep(b))`. An upload's command has 30 minutes. The
  fairness is per backup, not per route: it promises only that one of a backup's
  two goroutines goes on, and both stop after finitely many steps.
* `MailMigration`: `WF(WorkerStep(w))` and `WF(RequestStep(r))`. A copy has a
  time budget at which its context ends, a worker that is idle receives from the
  queue, and a request runs its statements under a timeout.
* `BackupSchedule` and `SessionGate` state no liveness: their time limits are
  deadlines on a clock, and so safety. The other modules assume no fairness.

`live`, `jobs` and `store_live` are the runs under these assumptions.
`ManualJobCloses`, `UploadSettles` and `JobSettles` excuse the case in which the
very statement that would record the end failed: then only a later start's heal
does, if that does not fail as well.

## 4. What is verified

**Runs.** `DomainExclusive`: two runs never work on one domain id, whichever
entry point started them. `StagingExclusive`: two runs are never in one tenant's
`__db__`, even for two domains of the tenant. `ArchiveHoldsOwnDumps`: a recorded
archive holds exactly the dumps its own run completed; a foreign dump would be
restored into the wrong site, a dump left by a dead process would be a stale
one, and a missing one would be a database the manifest lists and the archive
lacks. `PrivateArchiveIsWhole`: no recorded archive of a domain that shares its
user and schemas with no other overlapped a restore of what it read, whatever
the other domains share. `DomainIsReleased`, `SlotIsReleased`: whatever fails,
the claims come back. `DomainUseSpec`: mapped to "who works on what", the module
implements `ExclusiveUse`, which knows no gate, no slot and no phases. (So do the
staging slot, the scan flag, the customer's lock and the mutex of the port
changes, which is proved and not run: section 6.)

**Jobs.** `StatusTellsOutcome`: while no write failed, "done" means every
domain, "partial" that every domain was tried and some failed; a stop reads as
neither. `RegisteredIsLive`: a cancel function that `StopJob` finds belongs to a
goroutine that will close the row. `RemainingNeverStarted`: after a stop no
further domain begins. `StopIsNotAFailure`: what the stop itself broke is not
counted. `ResultIsFinal`: no request in flight and no restart rewrites the row
of a job that is over. `ManualJobCloses`: a manual job's row leaves "running".

**Copies.** `LastCopySurvives`: a listed backup that nobody asked to delete has
a whole copy on the disk or at a destination, with delete-local on, short
transfers, destinations that cannot tell a size, faults and a restart.
`UploadingHasOwner`: "uploading" has a goroutine behind it, or the statement
that was to close it failed, the upload's or a start's heal.
`SuccessfulIsWhole`: with local copies kept and sizes known, "successful" is a
whole object at the domain's destination. `UploadSettles`: "uploading" ends.

**Schedule.** `MissedIsCaughtUp`: once a domain's period is over, and since the
panel came up and something last kept the domain from its backup, the next one is
there within two ticks, two scans and two passes: the first tick may have to wait
for the pass under way, and the pass it starts be lost to its own scan.

**Quarantine.** `FoundIsKept`: whatever fails and wherever the panel stops, a
found file is in the tree or in the store, until an entry is deleted or a restore
changes the path under a containment. `HeldEntryHasItsFile`: a named entry that
offers a restore has its file. `FlaggedIsContained`: a finding shown as
quarantined has left the tree, unless a restore put it back.

**Scan slot.** `OneScanAtATime`: one scan in a process and, unless the
connection of a scan at work was lost, on the server. `SlotComesBack`: a flag
that is set has an asker behind it, and so has the lock, unless its release was
refused on a connection that lives on.

**Session gate.** `RevokedIsRefused`: a session that was signed out, or whose
account's version went up, is accepted for at most `stateCacheTTL` and two
requests more, over overlapping requests, late stores and failed reads.
`IdleIsSignedOut`: with the timeout in force a request is accepted only when the
account's last one is no longer ago than the limit, however many requests
overlap; one that moves the stamp has taken its own length more, and is held to
the saved limit once the last save is `settingTTL` and two requests old.
`SettingTakesHold`: a saved timeout judges every request after `settingTTL` and
one request's length.

**Mailbox copies.** `QueuedIsReachable`: a queued row is on the queue or in some
worker's or request's hand, unless a statement about it failed.
`OneCopyPerMailbox`: two workers never copy one mailbox, unless a cancel closed
the row of a copy not yet remembered. `JobSettles`: an active row gets closed,
which releases the mailbox.

**Panel port.** `PortsAgree`: with no change at work the panel listens where its
file says, the vhost names that port, and nginx has loaded the vhost, whatever
failed or was rolled back; nginx is excused as long as no reload has worked since
one failed. `RollbackTakesOnlyItsOwn`: the helper's rollback restores its own
change and no later one. `VerdictIsKept`: a verdict leaves its file only for a
closed row or the next change. All three excuse two changes side by side, and the
first a process that died between two of its steps.

**Quotas.** `PlanIsKept`: no customer has more than its plan allows and what it
was given without a check, until a creation without the lock overlapped another
or a move. `ResellerNearlyKept`: a reseller's total, but for the rows that it was
not asked for, passes its ceiling by one row less than it has customers at most,
with the same exception; each customer's lock admits one creation past the
check.

**Migrations.** `AppliedIsWhatRan`: a file recorded as applied is the file that
ran, each statement once and in order, over failures, repairs and restarts.
`TailFollowsItsHead`: a statement runs behind the statements that precede it in
its own file. Both excuse a start that ended with a committed statement no row
knows of.

Each module's `TypeOK` is verified by one run (those of the parts together as
`PanelTypeOK`); each other property aims at a hazard of `PROJECT.json`, which
gives the line where it bites.

## 5. Where the code and its documents part

Each of these is a run that ends in a counterexample.

* `ops_mixed_archive` (`NoMixedArchive`, `domainlock.go:8,24`). The comments say
  that the lock covers "one domain's home directory and its schemas". It is
  keyed by the domain id, while an addon or subdomain shares its parent's home
  and `_main` schema: a backup of one runs while the other is restored, and the
  half-rewritten tree is recorded with verification "ok".
* `jobs_hung_row` (`OnlyHungRowsAreClosed`, `jobs.go:711`). "A running row with
  no cancel function belongs to a process that is gone": `stopJob` deletes the
  function of a job that is still finishing, so a second stop request closes a
  live job's row as failed, and `finishJobStopped` rewrites it later.
* `store_orphan` (`DeletedLeavesNothing`, `destination.go:805,815`). A deletion
  acts on the `remote_status` it read; while that is "uploading" nothing is
  removed, and the upload goes on to finish an object whose row is gone.
* `store_offsite` (`OffSiteIsNotCorrupt`, `integrity.go:56`). Delete-local
  removes the file, then marks the row; a scan (or a restart) in between finds
  neither and records a healthy off-site backup as corrupt.
* `schedule_weekly` (`RunsInItsHour`, `DomainBackupsPage.json:33,47`,
  `due_test.go:18`). The weekly floor is six and a half days and the slot is
  daily, so a weekly domain is backed up every six and a half days, alternately
  in the afternoon and at night.
* `session_lockout` (`FreshSignInIsAccepted`, `sessionidle.go:117`). The timeout
  "can protect an unattended screen without signing out somebody who is
  working". The stamp it measures from is the account's, and a sign-in does not
  move it: once an account has idled past the limit, the first request of every
  new session is refused as idle as well.

### What the other properties excuse

Some properties hold except in a case the code admits. The case is named in the
formula, by a history variable, so that the property says what holds outside of
it. A maintainer may want to close these:

* **Copies** (`unwritten`). A closing UPDATE that fails is only logged, and so is
  the heal of a start (`destination.go:856`): the row then says "uploading" with
  nothing behind it until a later start's heal works.
* **Schedule** (`free`). What keeps a domain from its backup starts its clock
  again. A query that fails, the master switch, the disk guard, a backup that
  fails and a pass that is stopped each leave the domain to the next tick, and
  nothing bounds how often in a row. A scan of the archives has no bound either
  (`schedule.go:70`); one of more than half an hour costs its pass, and the
  theorem needs it to be shorter than the time between two scans.
* **Quarantine** (`loss`). A row that never got its stored name (the panel
  stopped, or the UPDATE failed) and is deleted from the screen gives
  `RemoveAllBeneath` an empty name, which is the directory of all of the
  tenant's stored files (`quarantine.go:448`): "wiped". A containment that
  copies a path while a restore writes it stores half a file ("torn"), and one
  that removes the path after a restore or the tenant replaced it removes what
  it did not copy ("swapped", `quarantine.go:155`).
* **Mailbox copies** (`raced`). A cancel between the claim and `rememberJob`
  finds no copy to interrupt and closes the row of one that goes on
  (`migration_handlers.go:287`); the mailbox may then be copied twice.
* **Panel port** (`joined`). The running outcome is looked at before the mutex
  is taken and not again under it (`handlers.go:158`): a change that waited goes
  on beside the helper of the one it waited for. A start that gets no answer
  about the helper takes it for dead and clears the outcome
  (`handlers.go:242-248`), and the next change is let in beside it. And the
  start that the helper itself causes finds it running, so that its verdict
  waits for a later start; the next backend change overwrites it before.
* **Panel port** (`unloaded`). The helper's script does not look at the status of
  `systemctl reload nginx` (`helper.go:60`), and the new port answers all the same:
  the change is reported as succeeded while nginx sends requests to the old one. A
  reload after a put-back that fails is reported, and not tried again.
* **Scan slot** (`unreleased`). `Conn.Close` returns the connection to the pool
  (`slot.go:53`), so a `RELEASE_LOCK` that is refused leaves the lock with a
  connection nobody uses. Outside the model, `HealRunningScans`
  (`antivirus.go:63`) also closes the row of a sweep that the timer's process is
  still running.
* **Quotas** (`unguarded`). A top-level domain is created without the
  customer's lock (`domains/handlers.go:576`), and `LockCustomerForDomain` goes
  on without it when its lookup fails (`quota.go:28`).
* **Quotas** (`givenDomains`, `givenDatabases`, `unasked`). The default database of
  a new domain (`domains/handlers.go:711`) and one that a restore registers again
  (`granular.go:523`) are inserted without `CheckDatabaseAllowed`, so that two
  domains created one after the other pass a ceiling of one database. `BulkOwner`
  (`domains/handlers.go:1642`) moves domains to another customer without a check or
  a lock, and `resellerRefused` (`domains/handlers.go:496`) lets an administrator's
  creation pass.
* **Session gate** (the bounds). `sessionidle.go:31-33` says that an operator who
  saves the timeout "never waits this out", as `Save` calls `Invalidate`. A request
  that read the old value before the save may store it after: the old timeout is
  then in force for `settingTTL` and that request's length, which is what
  `SettingTakesHold` allows.
* **Migrations** (`unrecorded`). A kill between two statements, a lost answer, a
  progress row that cannot be written, and `finish`'s first INSERT failing
  (`migrate.go:327`) each leave committed statements that the next start runs
  again.

## 6. What is proved

The theorems hold for every value of the constants: any number of runs, domains,
users, databases, jobs, requests, backups, files, deletions, findings, rows,
processes, connections, customers, statements, port changes, faults and
restarts. Each rests on its module's named assumption (`OpsAssumption`,
`JobsAssumption`, `StoreAssumption`, `ScheduleAssumption`, `SessionAssumption`,
`MigrationAssumption`, `QuarantineAssumption`, `SlotAssumption`,
`PortAssumption`, `QuotaAssumption`, `MigrationsAssumption`): the types of the
constants, "none" values that are no members, and where something is counted or
summed (`Domain` of the schedule, `Customer` of the quotas) that it is finite;
of the session gate also that its horizon and its bound on versions are not 0,
as the clock and the versions start at 1; of the schedule that a scan takes at
most eighteen hours, as the next one begins twenty after it began. The theorems
of `PanelProofs` rest on `PanelAssumption`, which is those of the eight parts.
What a theorem assumes beyond that is in the last column.

| theorem | states | further assumption |
|---|---|---|
| `BackupOpsProofs` `TypeCorrect` | `[]TypeOK` | |
| `DomainExclusion` | `[]DomainExclusive` | |
| `StagingExclusion` | `[]StagingExclusive` | |
| `ArchivesHoldOwnDumps` | `[]ArchiveHoldsOwnDumps` | |
| `PrivateArchivesAreWhole` | `[]PrivateArchiveIsWhole` | |
| `GateRefinesExclusiveUse` | `Spec => DomainUseSpec` | |
| `ExclusiveUseExcludes` | `DomainUseSpec => []DomainUse!OneUser` | |
| `SlotRefinesExclusiveUse` | `Spec => StagingUseSpec` | |
| `BackupJobsProofs` `TypeCorrect` | `[]TypeOK` | |
| `CancelFunctionsAreLive` | `[]RegisteredIsLive` | |
| `ClosedRowsTellTheTruth` | `[]StatusTellsOutcome` | |
| `StoppedJobsStartNothing` | `RemainingNeverStarted` | |
| `StopsCountNoFailure` | `StopIsNotAFailure` | |
| `ResultsAreFinal` | `ResultIsFinal` | |
| `BackupStoreProofs` `TypeCorrect` | `[]TypeOK` | |
| `UploadingIsOwned` | `[]UploadingHasOwner` | |
| `LastCopyIsKept` | `[]LastCopySurvives` | archives have names of their own |
| `SuccessfulMeansWhole` | `[]SuccessfulIsWhole` | names of their own, no delete-local, sizes known |
| `BackupScheduleProofs` `TypeCorrect` | `[]ScheduleTypeOK` | |
| `MissedBackupsAreCaughtUp` | `[]MissedIsCaughtUp` | scans of at most eighteen hours |
| `AccountProofs` `RevocationHolds` | `RevokedIsRefused` | |
| `SavedSettingHolds` | `SettingTakesHold` | `settingTTL > 0` |
| `IdleAccountsAreSignedOut` | `IdleIsSignedOut` | `settingTTL > 0` |
| `SessionTypeCorrect` | `[]SessionTypeOK` | |
| `OneCopy` | `[]OneCopyPerMailbox` | |
| `QueuedRowsAreReached` | `[]QueuedIsReachable` | |
| `MailTypeCorrect` | `[]MailTypeOK` | |
| `AntivirusProofs` `FoundFileIsKept` | `[]FoundIsKept` | |
| `HeldEntryCanBeRestored` | `[]HeldEntryHasItsFile` | |
| `FlaggedFileHasLeft` | `[]FlaggedIsContained` | |
| `QuarantineTypeCorrect` | `[]QuarantineTypeOK` | |
| `OneScan` | `[]OneScanAtATime` | |
| `SlotIsNeverStranded` | `[]SlotComesBack` | |
| `FlagRefinesExclusiveUse` | `SlotSpec => FlagUseSpec` | |
| `SlotTypeCorrect` | `[]SlotTypeOK` | |
| `ServerProofs` `PortsComeToAgree` | `[]PortsAgree` | |
| `RollbackIsItsOwn` | `RollbackTakesOnlyItsOwn` | |
| `VerdictReachesItsRow` | `VerdictIsKept` | |
| `MutexRefinesExclusiveUse` | `PortSpec => FilesUseSpec` | |
| `PortTypeCorrect` | `[]PortTypeOK` | |
| `PlanCeiling` | `[]PlanIsKept` | |
| `ResellerCeiling` | `[]ResellerNearlyKept` | |
| `LockRefinesExclusiveUse` | `QuotaSpec => CustomerUseSpec` | |
| `QuotaTypeCorrect` | `[]QuotaTypeOK` | |
| `AppliedRanOnce` | `[]AppliedIsWhatRan` | |
| `NoForeignHead` | `TailFollowsItsHead` | |
| `SchemaTypeCorrect` | `[]SchemaTypeOK` | |
| `PanelProofs` `PanelRunsItsParts` | `PanelSpec` => the eight parts' specifications | |
| `PanelTypeCorrect` | `PanelSpec => []PanelTypeOK` | |
| `PanelKeepsItsPromises` | `PanelSpec` => the eighteen other properties of `panel`, the three claims | `settingTTL > 0` |

**BackupOps.** Exclusion is not inductive: two runs in one phase are excluded
because of what the tables say. `GateHeld` (a run that is not idle is the holder
of its domain's gate) and `SlotHeld` (a run in a staging phase is the holder of
its tenant's slot) are, and give both exclusions at once, since a table has one
holder per key. For the contents: `StagedOwn` (from its reset to its tar a run
finds exactly its own dumps, which needs `SlotHeld`: nobody else writes there),
`FreshStart` (it has written nothing before the reset, and tries a database
once), `PackedOwn` (tar took those), and so the row. `PrivateArchivesAreWhole`
follows from `DomainExclusive`: a restore that could write what a backup of a
domain without partners reads would be on the same domain.
`GateRefinesExclusiveUse` maps a claim to `Enter`, a release to `Leave`, a
restart to a `Leave` of every run and the rest to stutters; `Enter`'s guard is
`GateHeld`. `ExclusiveUseExcludes` says what the abstract specification is worth:
whatever implements it never has two users of one resource.
`SlotRefinesExclusiveUse` does the same for the staging directory, where a run is
inside from `lockStaging` to `FreeSlot`: the reset after the claim, the removal
before the release and an error at any point between are stutters, and the run
leaves once, whether its archive came about or not.

**BackupJobs.** `Typed` adds to the types that a job begins a domain only while
one is left, without which its counters could pass the list's end. `InTable`
says where a registered goroutine is: past `registerJob`, before its deferred
`unregisterJob`. `Outcome` says that only a goroutine that closed its row gives
it a verdict over the domains (`Verdict`), that the loop ends by a stop or by
the end of the list (`Ended`), and that outside "counting" the row's counters
are the goroutine's while no write failed (`Mirror`). The three action
properties need the types only.

**BackupStore.** `Owned` strengthens `UploadingHasOwner` by the stages in which
the goroutine still has a verdict to write; a start that takes the goroutines away
closes their rows, or notes them in `unwritten`. `LastCopySurvives` rests on
`CopyInv`: a row exists only once the archive was written (`Fresh`), a deletion
holds only backups it has read (`Doomed`), a name holds its own backup's archive
or nothing (`OwnFile`, `Written`; here the names matter), and `Kept`: the
archive stays on the disk until the system-wide upload has verified a whole
object, and one of the two is always there. `SuccessfulIsWhole` adds `NoRemoval`
(with delete-local off no upload removes an archive) and `Sent`: what the
domain's upload has verified, or the row calls successful, is whole. The two
further assumptions are needed: with one name for two archives, or with
delete-local on, the statement is false (`destination.go:907` compares with a
file that may be gone).

**BackupSchedule.** A backup that is owed (its period is over, and nothing has
kept the domain from it since) is on its way in one of seven ways, `Comes(d)`:
the next tick finds it due (`Ticks`); the panel is in its first pass, and the
ticker starts behind it (`StartsUp`); a tick waits in the channel for the pass
under way (`Waits`); the ticker's next pass is about to begin (`Begins`), or
about to read its list (`ToList`), for the first time, or for the second and
then without a scan; the list has the domain in it (`OnList`); or a run of it is
at work, which is why a pass would skip it (`RunAtWork`). Each carries the time
by which the backup is there, measured with `Ahead`, the longest the ticker's
pass still takes: what is left of its scan, what is left of the backup at work,
and `Longest` for each further domain. `WorkInTime`, `ScanInTime` and
`TickIsNear` say that each of these ends in time. A tick is an hour away at
most; it may have to wait for one pass before it gets its own (`First`); that
may be lost to its scan, and then the next tick's has none, since less than
`ScanPeriod` has passed (`Second`, here a scan must be shorter than eighteen
hours); and the pass takes `Round`. That makes the deadline of the property.
That a domain that is owed a backup is due (`OwedIsDue`) is where the due rule
comes in: its floor is under the period, and its hour's slot comes round every
day.

**SessionGate.** A session is accepted by what a request read, or by an entry an
earlier request stored. `RevokedIsOld` says of a revoked session that the
version or the list denies it, and that whatever still does not is from a
request that began by the time of the revocation, or is an entry such a request
stored. `InTime` bounds a request's age by `Latency` and `InThePast` keeps every
time behind the clock, so that such an entry is at most `Latency` younger than
the revocation, is used for `stateCacheTTL`, and by a request that takes
`Latency` itself: the bound of the property. For the timeout, `IdleInv` says
that the stamp is never later than the last accepted request (`Stamped`), and
that whatever still differs from the saved timeout is dated by the save: a
cached one was stored at most `Latency` after it (`SettingIsOld`), and a request
that holds one read it by then or from that entry (`LimitIsOld`).
`settingTTL > 0` because with a lifetime of 0 the request that read the old value
before the save still uses it `Latency` later.

**MailMigration.** `OneHand`: a job is in one hand at most, a request's that is
to push it, the queue's or one worker's, and once in each. `Known`: ids
that were not handed out are nowhere. `OneActiveRow` is the unique index, kept by
the guarded claim and by the requeue. `CopyHasItsRow`: a copy's row is running,
unless a cancel raced it. Two copies of one mailbox would then be two hands on
one row, or two active rows. `Reachable`: every queued row whose statements
succeeded is in somebody's hand, since each step that takes it from one hand
gives it to the next, closes it, or leaves it because a statement failed.

**Quarantine.** A found file is not safe because some copy of it exists, but
because every step that takes a copy away knows of another one. `Kept` therefore
counts the stored copy only while no request is about to take it away
(`Leaving`): a containment that has yet to remove the original, a restore that
has yet to mark the row or drop the copy. `RowsKnown` says that what a request
read of its row stays true, `RowsOwned` that a containment is alone with its row
until it has named it (a restore of a row without a name ends when it opens the
file), and `CopyInStore` where its copy is. `RestoresWrite` says that a restore
writes a file it created, and that nobody else does: a containment that copies
such a file, and one that removes it, are the losses "torn" and "swapped".
`Contained` needs the same of a flag that is about to be set.

**ScanSlot.** `FlagHeld` (an asker that is not idle has its process's flag, and
a set flag has one asker), `ConnectionHeld` (from its lock on an asker has a
connection of its own process) and `LockHeld` (that connection has the lock
unless it was lost; a taken lock was taken once and has an asker, unless a
release was refused).

**PanelPort.** Unless a change joined another, one hand is on the files: the
change that has the mutex (`MutexHeld`) or the helper, for which the outcome
file says "running", or nothing any more once a start has taken it for dead
(`HelperAlone`). `OwnFiles` says what that hand has written so far and that the
backups differ from it in nothing but its own port, which makes the rollback its
own. `BackupsAgree` adds, unless a process died between two steps, that the
backups are what the panel listens on and, unless a reload has failed, what
nginx has loaded: whichever half-way state is left, put back or completed, the
parts agree again. The verdict stays in the file because only `FoldOutcome`,
which closes the row, and the next change's "running" replace it.

**QuotaGate.** For a plan, `InFlight` (a creation that notes the lock holds it)
and `RoomFound` (one past its check of the plan still has the room it found,
since whoever inserts beside it is noted in `unguarded`, and so is a move that
takes its domain away): the insert then keeps `PlanIsKept`. An unchecked row
raises the count and what is excused alike, and one that is moved away only
makes room, so that such rows disturb neither (`GivenKeeps`, `RowsMoved`). For a
reseller nothing of the kind holds, as customers' locks do not exclude each
other. `ClaimsFit` counts instead: the rows, and the customers for whom a
creation is past its check (`Claims`, one creation for each because of its
lock), are together one less than the ceiling and the customers at most; a check
that passes finds the rows under the ceiling and claims one, an insert turns a
claim into a row. A creation that passes the check without a lock claims
nothing: as long as nobody has inserted beside it, the total is where the check
found it, but for rows the reseller was not asked for. The total is a fold over
the customers, so that what an insert adds to it is a fact about a recursion.
The sum's lemmas prove it without an induction: the set of counterexamples has
no least element, hence is empty (`Descent`, `SetDescent`, from the library's
well-foundedness of `<`); a sum exists (`SumExists`), and moves with one value
by that value's change (`SumMoves`); a move from one customer of the reseller to
another leaves it alone (`TotalOfMoved`).

**SchemaMigrations.** `RanIsKnown`: unless something went unrecorded, what ran is
what a row vouches for between two starts, and during one the body up to the
statement it is at; `AtWork`: such a start is past a head of its body that the
progress row vouches for, and the file is not applied yet; `Finished`: a start
past its statements has applied the file.

**The three other claims.** The scan flag, the customer's lock and the mutex of
the port changes implement `ExclusiveUse` too, of a process, a customer and the
files. In each a user enters where the code takes the claim, alone because
`FlagHeld`, `InFlight` or `MutexHeld` says whose it is. Every other step is one in
which nobody sets out, and then those who are no longer at it are a set that
`Leave`s, possibly empty: the one that was refused, failed or finished, or all
that a process took with it. So no path takes a claim beside its holder, or gives
one back while its holder is still at work. That it is given back at all is
another matter: of the flag `SlotComesBack` says so, of the mutex `MutexHeld`. A
creation that went on without the lock, or whose domain was moved from under it, is
outside of the claim, and so is the
helper of a port change, which works after the mutex is given back; what they can
do is `unguarded` and `joined`.

**The types.** The invariants above contain the types their arguments need. The
`TypeCorrect` theorems of the seven other parts add the rest: the counters of
faults and stops, ids that are handed out up to a bound (`MailBounds`,
`QuarantineBounds`), times between the start and the horizon (`RequestTyped`),
and bodies of a migration file whose heads and repairs are no longer than the
file (`BodiesAreShort`, `HeadsAreShort`, `EditsAreShort`).

**The composition.** `MCPanel` checks its parts one at a time (`part`), and each
property while its own part moves. That the composition does nothing its parts do
not do is a theorem: a step of the panel is, seen from any part, a step of that
part or a stutter (the lemmas `MailMoves` to `ScheduleMoves`, one for each), the
scenarios of the session gate and the schedule included, so each behaviour of
`PanelSpec` is one of all eight parts (`PanelRunsItsParts`) and everything proved
of a part holds of the composition (`PanelTypeCorrect`, `PanelKeepsItsPromises`).

**Only model-checked:** the liveness properties (`DomainIsReleased`,
`SlotIsReleased`, `ManualJobCloses`, `UploadSettles`, `JobSettles`), which rest
on fairness and `ENABLED`. Every other property of a run that passes is a
theorem. Proofs are about the safety part of each specification.

## 7. Not modelled

`PROJECT.json` lists every component of the repository with its status and the
reason. Components without a module are:

* **Rendering and host commands**: the provisioner and the web server's
  configuration, DNS and DNSSEC, the mail service, firewall and WAF, PHP
  versions and packages, resource limits, the database tools. Their state is in
  nginx, PHP-FPM, BIND, Postfix and the kernel, and what can go wrong is in the
  text they render. They are most of the code; the control around each call is a
  sequence of commands with an early return, inside one request.
* **Sequences with compensation**: the creation and removal of domains, host
  applications, site imports and staging copies. They could be modelled in the
  order of their steps; the properties would restate that order until the host's
  commands have a model of their own.
* **Protocols like one modelled here**: the tuning of the server (`optimize`:
  write, check, put back, as `PanelPort`), the account transfers and the install
  jobs of host applications (rows opened, running, closed and healed, as
  `MailMigration` and `BackupJobs`).
* **One-row handlers and screens**: users, customers, plans, settings, logs,
  backup progress, the React front end.
* **Programs of their own**: the Windows agent, the installer and the updater's
  scripts.

### Left out of the modelled parts

* *Backups.* What is in an archive: the files of the home, the text of a dump,
  the MySQL account replay, the granular restore of one file or one database (it
  writes the same resources as the mode it belongs to). Transports: lftp, S3,
  credentials, host keys and the editing of destinations are a call that works,
  fails or delivers short. The fetch of an off-site archive, whose partial file
  two fetches share (`destination.go:426`). The verification a restore reads
  before it claims the domain (`restore.go:86`). Of the schedule: changes of a
  domain's schedule while a pass runs, and summer time. The removal of a domain
  while its backups run.
* *Two statements of `BackupStore` no run verifies.* `UploadsIndependent`
  (`jobs.go:143`): delete-local after the system-wide upload can take the
  archive from under the domain's own. `MismatchIsBitRot` (`integrity.go:4`): a
  domain and its addon backed up in one second write one name. The instances
  here give every archive a name of its own.
* *Quarantine.* Refusals that change nothing, the size limit, and the removal of
  a store with its domain. *Scan slot.* The scan's row and the timing of sweeps.
* *Session gate.* The absolute lifetime of a token, the sweep of expired rows
  and the pruning of a full cache; a save of the timeout is one step with its
  `Invalidate`.
* *Mailbox copies.* The IMAP copy, its counters, and the discovery of the remote
  account.
* *Panel port.* The parsing of the two files; an old port that does not answer
  after the rollback either. Assumed to work: writing a file back, `systemctl
  restart` of the panel, and the removal of the outcome file; a `systemd-run` that
  reports an error has started nothing.
* *Quotas.* The disk and traffic ceilings, edits of a plan, and a customer that
  changes its plan or reseller.
* *Migrations.* The order of files, rows from before checksums, the trust checks,
  the splitting of a file into statements, and the data backfills.

A hazard of `PROJECT.json` without a property carries a note that says why.

## 8. What would come next

In the order of their weight: the fetch of off-site archives beside
`BackupStore`'s rows; an abstract life of a job (opened, running, closed once)
that `MailMigration` and the transfers would implement, and `BackupJobs` but for the
row a second stop request closes early (section 5); and the
removal of a domain while its backups and uploads run.
