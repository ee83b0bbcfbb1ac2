----------------------------- MODULE BackupJobs -----------------------------
(***************************************************************************)
(* The life of a bulk job of internal/backups: the backup_jobs row, the    *)
(* table of cancel functions (runningJobs), the goroutine that works       *)
(* through the domains, the operators who stop it, panics, database errors *)
(* and restarts of the panel.                                              *)
(*                                                                         *)
(* A "manual" job is started over HTTP (StartBackupJob, StartRestoreJob)   *)
(* and runs under bgjob.Go; a "scheduled" one is a pass of tickOnce, which *)
(* runs under bgjob.Guard.                                                 *)
(***************************************************************************)
EXTENDS Naturals, FiniteSets

CONSTANTS
    Job,          \* job ids
    Kind,         \* "manual" or "scheduled"
    Total,        \* the number of domains of a job
    Stopper,      \* requests to stop a job, in flight at one time
    NoJob,
    MaxRestarts,  \* bound on panel restarts
    MaxFaults     \* bound on database writes that fail

ASSUME JobsAssumption ==
    /\ Kind \in [Job -> {"manual", "scheduled"}]
    /\ Total \in [Job -> Nat \ {0}]
    /\ NoJob \notin Job
    /\ MaxRestarts \in Nat /\ MaxFaults \in Nat

VARIABLES
    row,         \* the backup_jobs row of each job
    registered,  \* the keys of runningJobs
    cancelled,   \* the jobs whose jobCtx is cancelled
    worker,      \* where the job's goroutine is
    tally,       \* its local counters
    late,        \* domains it began under a context already cancelled
    stopper,     \* where each StopJob request is, and for which job
    restarts, faults

vars == <<row, registered, cancelled, worker, tally, late, stopper, restarts, faults>>

Final  == {"done", "partial", "failed", "stopped"}
Status == {"none", "running"} \cup Final
Live == {"opened", "checking", "marking", "working", "counting", "finishing",
         "closing", "unwinding", "panicked"}

Began(j) == tally[j].succeeded + tally[j].failed

-----------------------------------------------------------------------------
(* The SQL statements.                                                     *)

SetStatus(j, s) == row' = [row EXCEPT ![j].status = s]

\* jobStatus: the tallies of the domains give the job's terminal status.
jobStatus(s, f) == IF f = 0 THEN "done" ELSE IF s = 0 THEN "failed" ELSE "partial"

\* A statement that fails is logged and nothing else happens.
WriteFails ==
    /\ faults < MaxFaults
    /\ faults' = faults + 1
    /\ UNCHANGED row

-----------------------------------------------------------------------------

Init ==
    /\ row = [j \in Job |-> [status |-> "none", succeeded |-> 0, failed |-> 0]]
    /\ registered = {}
    /\ cancelled = {}
    /\ worker = [j \in Job |-> "none"]
    /\ tally = [j \in Job |-> [succeeded |-> 0, failed |-> 0, stopped |-> FALSE]]
    /\ late = [j \in Job |-> 0]
    /\ stopper = [x \in Stopper |-> [at |-> "idle", job |-> NoJob]]
    /\ restarts = 0
    /\ faults = 0

goto(j, from, to) ==
    /\ worker[j] = from
    /\ worker' = [worker EXCEPT ![j] = to]

(***************************************************************************)
(* startJob or openScheduledJob: the INSERT.  An HTTP job whose row cannot *)
(* be written does not run; the nightly pass runs without a row.           *)
(***************************************************************************)
OpenJob(j) ==
    /\ goto(j, "none", "opened")
    /\ \/ SetStatus(j, "running") /\ UNCHANGED faults
       \/ Kind[j] = "scheduled" /\ WriteFails
    /\ UNCHANGED <<registered, cancelled, tally, late, stopper, restarts>>

\* registerJob, once the row exists.
RegisterJob(j) ==
    /\ goto(j, "opened", "checking")
    /\ registered' = registered \cup {j}
    /\ UNCHANGED <<row, cancelled, tally, late, stopper, restarts, faults>>

\* A slip: the list is run one domain past its end.
CheckStopPastEnd(j) ==
    /\ \/ /\ Began(j) <= Total[j]
          /\ goto(j, "checking", "marking")
          /\ UNCHANGED tally
       \/ /\ Began(j) > Total[j]
          /\ goto(j, "checking", "finishing")
          /\ UNCHANGED tally
    /\ UNCHANGED <<row, registered, cancelled, late, stopper, restarts, faults>>

\* A slip: the loop goes on to the next domain without asking the context.
CheckStopNever(j) ==
    /\ \/ /\ Began(j) < Total[j]
          /\ goto(j, "checking", "marking")
       \/ /\ Began(j) = Total[j]
          /\ goto(j, "checking", "finishing")
    /\ UNCHANGED <<row, registered, cancelled, tally, late, stopper, restarts, faults>>

\* The head of the loop: the next domain, or the end of the list, or a stop.
CheckStop(j) ==
    /\ \/ /\ Began(j) < Total[j]
          /\ j \notin cancelled
          /\ goto(j, "checking", "marking")
          /\ UNCHANGED tally
       \/ /\ Began(j) < Total[j]
          /\ j \in cancelled
          /\ goto(j, "checking", "finishing")
          /\ tally' = [tally EXCEPT ![j].stopped = TRUE]
       \/ /\ Began(j) = Total[j]
          /\ goto(j, "checking", "finishing")
          /\ UNCHANGED tally
    /\ UNCHANGED <<row, registered, cancelled, late, stopper, restarts, faults>>

\* markActiveDomain has been written (or not); the domain's work begins.
BeginDomain(j) ==
    /\ goto(j, "marking", "working")
    /\ late' = [late EXCEPT ![j] = IF j \in cancelled THEN @ + 1 ELSE @]
    /\ UNCHANGED <<row, registered, cancelled, tally, stopper, restarts, faults>>

\* backupOneDomain, runOneBackup or restoreCore returned no error.  Under a
\* context that was cancelled before it began, every command it runs fails.
DomainSucceeds(j) ==
    /\ late[j] = 0
    /\ goto(j, "working", "counting")
    /\ tally' = [tally EXCEPT ![j].succeeded = @ + 1]
    /\ UNCHANGED <<row, registered, cancelled, late, stopper, restarts, faults>>

\* A slip: a failure the stop caused is counted like any other.
DomainFailsCounted(j) ==
    /\ goto(j, "working", "counting")
    /\ tally' = [tally EXCEPT ![j].failed = @ + 1]
    /\ UNCHANGED <<row, registered, cancelled, late, stopper, restarts, faults>>

\* It returned an error: counted, unless the context says that a stop caused it.
DomainFails(j) ==
    /\ \/ /\ j \notin cancelled
          /\ goto(j, "working", "counting")
          /\ tally' = [tally EXCEPT ![j].failed = @ + 1]
       \/ /\ j \in cancelled
          /\ goto(j, "working", "finishing")
          /\ tally' = [tally EXCEPT ![j].stopped = TRUE]
    /\ UNCHANGED <<row, registered, cancelled, late, stopper, restarts, faults>>

\* Retention, then UPDATE completed, succeeded, failed: absolute values.
RecordProgress(j) ==
    /\ goto(j, "counting", "checking")
    /\ \/ /\ row' = IF row[j].status = "none" THEN row
                    ELSE [row EXCEPT ![j] = [status    |-> @.status,
                                             succeeded |-> tally[j].succeeded,
                                             failed    |-> tally[j].failed]]
          /\ UNCHANGED faults
       \/ WriteFails
    /\ UNCHANGED <<registered, cancelled, tally, late, stopper, restarts>>

\* A slip: the tallies alone decide, so a run cut short can read "done".
finishJob(j) ==
    /\ goto(j, "finishing", "closing")
    /\ IF row[j].status = "none" THEN UNCHANGED row
       ELSE SetStatus(j, jobStatus(tally[j].succeeded, tally[j].failed))
    /\ UNCHANGED <<registered, cancelled, tally, late, stopper, restarts, faults>>

\* finishJobStopped: its UPDATE does not ask what the status is.
finishJobStopped(j) ==
    /\ goto(j, "finishing", "closing")
    /\ \/ /\ IF row[j].status = "none" THEN UNCHANGED row
             ELSE SetStatus(j, IF tally[j].stopped THEN "stopped"
                               ELSE jobStatus(tally[j].succeeded, tally[j].failed))
          /\ UNCHANGED faults
       \/ WriteFails
    /\ UNCHANGED <<registered, cancelled, tally, late, stopper, restarts>>

\* A slip: unregisterJob is called on return, not deferred.
UnregisterOnReturn(j) ==
    /\ \/ goto(j, "closing", "gone") /\ registered' = registered \ {j}
       \/ goto(j, "unwinding", "panicked") /\ UNCHANGED registered
    /\ cancelled' = cancelled \cup {j}
    /\ UNCHANGED <<row, tally, late, stopper, restarts, faults>>

\* The deferred jobCancel and unregisterJob, on return and on panic.
Unregister(j) ==
    /\ \/ goto(j, "closing", "gone")
       \/ goto(j, "unwinding", "panicked")
    /\ registered' = registered \ {j}
    /\ cancelled' = cancelled \cup {j}
    /\ UNCHANGED <<row, tally, late, stopper, restarts, faults>>

\* A panic in the work of a domain.
Panic(j) ==
    /\ goto(j, "working", "unwinding")
    /\ UNCHANGED <<row, registered, cancelled, tally, late, stopper, restarts, faults>>

\* A slip: bgjob.Go without its onPanic.
failJobForgotten(j) ==
    /\ goto(j, "panicked", "gone")
    /\ UNCHANGED <<row, registered, cancelled, tally, late, stopper, restarts, faults>>

\* After the panic: bgjob.Go calls failJob; bgjob.Guard only logs.
failJob(j) ==
    /\ goto(j, "panicked", "gone")
    /\ \/ Kind[j] = "manual" /\ SetStatus(j, "failed") /\ UNCHANGED faults
       \/ Kind[j] = "manual" /\ WriteFails
       \/ Kind[j] = "scheduled" /\ UNCHANGED <<row, faults>>
    /\ UNCHANGED <<registered, cancelled, tally, late, stopper, restarts>>

-----------------------------------------------------------------------------
(* An operator stops a job.                                                *)

\* StopJob reads the row; a job that is not running is answered 409.
StopReads(x, j) ==
    /\ stopper[x].at = "idle"
    /\ row[j].status = "running"
    /\ stopper' = [stopper EXCEPT ![x] = [at |-> "found", job |-> j]]
    /\ UNCHANGED <<row, registered, cancelled, worker, tally, late, restarts, faults>>

\* stopJob: Load, cancel, Delete; FALSE when nothing is registered.
stopJob(x) ==
    LET j == stopper[x].job
    IN  /\ stopper[x].at = "found"
        /\ \/ /\ j \in registered
              /\ registered' = registered \ {j}
              /\ cancelled' = cancelled \cup {j}
              /\ stopper' = [stopper EXCEPT ![x] = [at |-> "idle", job |-> NoJob]]
           \/ /\ j \notin registered
              /\ stopper' = [stopper EXCEPT ![x].at = "hung"]
              /\ UNCHANGED <<registered, cancelled>>
        /\ UNCHANGED <<row, worker, tally, late, restarts, faults>>

\* A slip: the status is not asked again, so a row that closed is rewritten.
CloseAnyRow(x) ==
    /\ stopper[x].at = "hung"
    /\ stopper' = [stopper EXCEPT ![x] = [at |-> "idle", job |-> NoJob]]
    /\ SetStatus(stopper[x].job, "failed")
    /\ UNCHANGED <<registered, cancelled, worker, tally, late, restarts, faults>>

\* The UPDATE ... SET status='failed' WHERE id=? AND status='running'.
CloseHungRow(x) ==
    LET j == stopper[x].job
    IN  /\ stopper[x].at = "hung"
        /\ stopper' = [stopper EXCEPT ![x] = [at |-> "idle", job |-> NoJob]]
        /\ \/ /\ IF row[j].status = "running" THEN SetStatus(j, "failed") ELSE UNCHANGED row
              /\ UNCHANGED faults
           \/ WriteFails
        /\ UNCHANGED <<registered, cancelled, worker, tally, late, restarts>>

(***************************************************************************)
(* The panel process ends and starts again: memory is gone, and            *)
(* HealJobsOnStartup closes the rows left running before anything listens. *)
(***************************************************************************)
Restart ==
    /\ restarts < MaxRestarts
    /\ restarts' = restarts + 1
    /\ registered' = {}
    /\ cancelled' = {}
    /\ worker' = [j \in Job |-> IF worker[j] \in Live THEN "gone" ELSE worker[j]]
    /\ stopper' = [x \in Stopper |-> [at |-> "idle", job |-> NoJob]]
    /\ \/ /\ row' = [j \in Job |-> IF row[j].status = "running"
                                   THEN [row[j] EXCEPT !.status = "failed"] ELSE row[j]]
          /\ UNCHANGED faults
       \/ WriteFails
    /\ UNCHANGED <<tally, late>>

-----------------------------------------------------------------------------

Work(j) ==
    \/ RegisterJob(j) \/ CheckStop(j) \/ BeginDomain(j)
    \/ DomainSucceeds(j) \/ DomainFails(j) \/ Panic(j) \/ RecordProgress(j)
    \/ finishJobStopped(j) \/ Unregister(j) \/ failJob(j)

Stop(x) == stopJob(x) \/ CloseHungRow(x)

Next ==
    \/ \E j \in Job : OpenJob(j) \/ Work(j)
    \/ \E x \in Stopper : (\E j \in Job : StopReads(x, j)) \/ Stop(x)
    \/ Restart

Spec == Init /\ [][Next]_vars

(***************************************************************************)
(* A domain's work has a deadline (20, 25 or 30 minutes), and the rest of  *)
(* the goroutine and of a request does not wait for anything.              *)
(***************************************************************************)
FairSpec ==
    /\ Spec
    /\ \A j \in Job : WF_vars(Work(j))
    /\ \A x \in Stopper : WF_vars(Stop(x))

-----------------------------------------------------------------------------
(* Properties.                                                             *)

\* The types of the variables.
TypeOK ==
    /\ row \in [Job -> [status : Status, succeeded : Nat, failed : Nat]]
    /\ tally \in [Job -> [succeeded : Nat, failed : Nat, stopped : BOOLEAN]]
    /\ \A j \in Job : /\ Began(j) <= Total[j]
                      /\ row[j].succeeded + row[j].failed <= Total[j]
    /\ late \in [Job -> Nat]
    /\ worker \in [Job -> Live \cup {"none", "gone"}]
    /\ registered \subseteq Job /\ cancelled \subseteq Job
    /\ stopper \in [Stopper -> [at : {"idle", "found", "hung"}, job : Job \cup {NoJob}]]
    /\ \A x \in Stopper : stopper[x].at # "idle" => stopper[x].job \in Job
    /\ restarts \in 0 .. MaxRestarts /\ faults \in 0 .. MaxFaults

(***************************************************************************)
(* A stop is seen before the next domain: one whose turn had not come when *)
(* the job was cancelled is never started (StopJob).                       *)
(***************************************************************************)
RemainingNeverStarted ==
    [][\A j \in Job : j \in cancelled /\ worker[j] # "marking"
                          => worker'[j] \notin {"marking", "working"} \/ worker'[j] = worker[j]]_vars

(***************************************************************************)
(* While no write has failed, a closed row says what happened: "done" that *)
(* every domain was archived or restored, "partial" that every domain was  *)
(* tried and some failed; a stop never reads as either.                    *)
(***************************************************************************)
StatusTellsOutcome ==
    faults = 0 =>
        \A j \in Job :
            /\ row[j].status = "done" => row[j].succeeded = Total[j] /\ row[j].failed = 0
            /\ row[j].status = "partial" =>
                   /\ row[j].succeeded > 0 /\ row[j].failed > 0
                   /\ row[j].succeeded + row[j].failed = Total[j]

(***************************************************************************)
(* A failure that the stop itself caused is not counted: once the operator *)
(* stopped a job, its count of failed domains is final.                    *)
(***************************************************************************)
StopIsNotAFailure ==
    [][\A j \in Job : j \in cancelled => tally'[j].failed = tally[j].failed]_vars

(***************************************************************************)
(* A cancel function in the table belongs to a live goroutine: StopJob     *)
(* trusts it, answers ok and leaves the closing of the row to it.          *)
(***************************************************************************)
RegisteredIsLive == \A j \in registered : worker[j] \in Live

(***************************************************************************)
(* Once the goroutine is gone and its row closed, no stop request still in *)
(* flight and no restart rewrites the result.                              *)
(***************************************************************************)
ResultIsFinal ==
    [][\A j \in Job : worker[j] = "gone" /\ row[j].status \in Final => row'[j] = row[j]]_vars

(***************************************************************************)
(* StopJob closes by itself only a row without a goroutine: "Every job     *)
(* this panel starts registers itself, so a running row with no cancel     *)
(* function belongs to a process that is gone."                            *)
(***************************************************************************)
OnlyHungRowsAreClosed ==
    [][\A j \in Job :
        /\ row[j].status = "running" /\ row'[j].status = "failed"
        /\ worker'[j] = worker[j]
        => worker[j] \notin Live]_vars

(***************************************************************************)
(* A manual job's row does not say "running" for ever, whatever panics,    *)
(* stops or restarts (failJob, HealJobsOnStartup), as long as the          *)
(* statements that close it work.                                          *)
(***************************************************************************)
ManualJobCloses ==
    \A j \in Job : Kind[j] = "manual" =>
        (row[j].status = "running" ~> row[j].status \in Final \/ faults > 0)
=============================================================================
