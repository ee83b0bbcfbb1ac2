--------------------------- MODULE MailMigration ---------------------------
(***************************************************************************)
(* The copies of remote mailboxes (internal/mail, migrate.go): a request   *)
(* inserts a row, which the unique index over the active mailbox may       *)
(* refuse, and puts the job on a bounded queue in memory; workers claim    *)
(* the row and copy; a cancel stops the copy or closes the row; after a    *)
(* restart the unfinished rows are queued again.                           *)
(***************************************************************************)
EXTENDS Naturals, Sequences, FiniteSets, SequencesExt

CONSTANTS
    Mailbox,
    Worker,
    Request,      \* starts and cancels in flight
    NoMailbox,
    QueueSize,    \* maxQueuedMigrations
    MaxJobs, MaxDbFaults, MaxStops    \* bounds

MigrationAssumption ==
    /\ NoMailbox \notin Mailbox
    /\ {QueueSize, MaxJobs, MaxDbFaults, MaxStops} \subseteq Nat

VARIABLES
    job,        \* mail_migration_jobs, by id
    nextJob,
    queue,      \* migrationQueue
    worker,
    cancels,    \* running.cancels: the jobs with a copy to interrupt
    told,       \* the copies whose context was cancelled
    raced,      \* the jobs whose row a cancel closed although a worker had claimed it
    ask,        \* where each request is
    stranded,   \* queued rows that a failed statement left to nobody
    dbFaults, stops

mailVars == <<job, nextJob, queue, worker, cancels, told, raced, ask, stranded, dbFaults, stops>>

Job    == 1..MaxJobs
Active == {"queued", "running"}
Resting == [at |-> "idle", job |-> 0]

MailInit ==
    /\ job = [j \in Job |-> [state |-> "none", mailbox |-> NoMailbox]]
    /\ nextJob = 1
    /\ queue = <<>>
    /\ worker = [w \in Worker |-> Resting]
    /\ cancels = {} /\ told = {} /\ raced = {} /\ stranded = {}
    /\ ask = [r \in Request |-> Resting]
    /\ dbFaults = 0 /\ stops = 0

Works == UNCHANGED dbFaults
Fault == dbFaults < MaxDbFaults /\ dbFaults' = dbFaults + 1
Close(j, state) == job' = [job EXCEPT ![j].state = state]
At(r, a, j) == ask' = [ask EXCEPT ![r] = [at |-> a, job |-> j]]
Rest(r)     == ask' = [ask EXCEPT ![r] = Resting]
Work(w, a, j) == worker' = [worker EXCEPT ![w] = [at |-> a, job |-> j]]

-----------------------------------------------------------------------------
\* startMigrationJob: the index refuses a second active row of the mailbox.
Insert(r, m) ==
    /\ ask[r] = Resting /\ nextJob \in Job
    /\ \A j \in Job : job[j].mailbox = m => job[j].state \notin Active
    /\ job' = [job EXCEPT ![nextJob] = [state |-> "queued", mailbox |-> m]]
    /\ nextJob' = nextJob + 1
    /\ At(r, "push", nextJob)
    /\ UNCHANGED <<queue, worker, cancels, told, stranded, raced, dbFaults, stops>>

Push(r) ==
    LET j == ask[r].job
    IN  /\ ask[r].at = "push"
        /\ \/ /\ Len(queue) < QueueSize
              /\ queue' = Append(queue, j)
              /\ Rest(r) /\ Works
              /\ UNCHANGED <<job, stranded>>
           \/ /\ Len(queue) = QueueSize
              /\ Rest(r)
              /\ \/ Works /\ Close(j, "failed") /\ UNCHANGED stranded
                 \/ Fault /\ stranded' = stranded \cup {j} /\ UNCHANGED job
              /\ UNCHANGED queue
        /\ UNCHANGED <<nextJob, worker, cancels, told, raced, stops>>

-----------------------------------------------------------------------------
Take(w) ==
    /\ worker[w] = Resting /\ queue # <<>>
    /\ Work(w, "claim", Head(queue))
    /\ queue' = Tail(queue)
    /\ UNCHANGED <<job, nextJob, cancels, told, ask, stranded, raced, dbFaults, stops>>

Copying(w) == worker[w].at \in {"remember", "copy"}

\* A slip: the claim does not look at the row.
ClaimUnguarded(w) ==
    LET j == worker[w].job
    IN  /\ worker[w].at = "claim"
        /\ Works /\ Close(j, "running") /\ Work(w, "remember", j)
        /\ UNCHANGED <<nextJob, queue, cancels, told, ask, stranded, raced, stops>>

\* runMigrationJob: only a row that is still queued is claimed, and a claim that
\* fails drops the job.
Claim(w) ==
    LET j == worker[w].job
    IN  /\ worker[w].at = "claim"
        /\ \/ /\ job[j].state = "queued" /\ Works
              /\ Close(j, "running") /\ Work(w, "remember", j)
              /\ UNCHANGED stranded
           \/ /\ job[j].state # "queued" /\ Works
              /\ Work(w, "idle", 0)
              /\ UNCHANGED <<job, stranded>>
           \/ /\ Fault /\ Work(w, "idle", 0)
              /\ stranded' = IF job[j].state = "queued" THEN stranded \cup {j} ELSE stranded
              /\ UNCHANGED job
        /\ UNCHANGED <<nextJob, queue, cancels, told, ask, raced, stops>>

rememberJob(w) ==
    /\ worker[w].at = "remember"
    /\ cancels' = cancels \cup {worker[w].job}
    /\ Work(w, "copy", worker[w].job)
    /\ UNCHANGED <<job, nextJob, queue, told, ask, stranded, raced, dbFaults, stops>>

\* A slip: the outcome is written on the copy's own context, which a cancel ended.
finishJobOnItsContext(w) ==
    LET j == worker[w].job
    IN  /\ worker[w].at = "copy"
        /\ Work(w, "forget", j)
        /\ Works
        /\ IF j \in told THEN UNCHANGED job ELSE Close(j, "done")
        /\ UNCHANGED <<nextJob, queue, cancels, told, ask, stranded, raced, stops>>

\* The copy ends: complete, failed or out of time, and only as cancelled once its
\* context was.  finishJob closes the row whatever it says by now.
finishJob(w) ==
    LET j == worker[w].job
    IN  /\ worker[w].at = "copy"
        /\ Work(w, "forget", j)
        /\ \/ /\ Works
              /\ \E state \in IF j \in told THEN {"done", "failed", "cancelled"}
                                            ELSE {"done", "failed"} : Close(j, state)
              /\ UNCHANGED stranded
           \/ Fault /\ stranded' = stranded \cup {j} /\ UNCHANGED job
        /\ UNCHANGED <<nextJob, queue, cancels, told, ask, raced, stops>>

forgetJob(w) ==
    /\ worker[w].at = "forget"
    /\ Work(w, "idle", 0)
    /\ cancels' = cancels \ {worker[w].job}
    /\ UNCHANGED <<job, nextJob, queue, told, ask, stranded, raced, dbFaults, stops>>

-----------------------------------------------------------------------------
\* CancelMigration reads the newest active row of the mailbox.
Cancel(r, m) ==
    /\ ask[r] = Resting
    /\ \E j \in Job :
         /\ job[j].mailbox = m /\ job[j].state \in Active
         /\ \A i \in Job : job[i].mailbox = m /\ job[i].state \in Active => i <= j
         /\ At(r, "stop", j)
    /\ UNCHANGED <<job, nextJob, queue, worker, cancels, told, stranded, raced, dbFaults, stops>>

\* cancelMigrationJob, if this process has the copy; else the row is closed.
Stop(r) ==
    LET j == ask[r].job
    IN  /\ ask[r].at = "stop"
        /\ IF j \in cancels
           THEN told' = told \cup {j} /\ Rest(r)
           ELSE At(r, "close", j) /\ UNCHANGED told
        /\ UNCHANGED <<job, nextJob, queue, worker, cancels, stranded, raced, dbFaults, stops>>

CloseCancelled(r) ==
    LET j == ask[r].job
    IN  /\ ask[r].at = "close"
        /\ Rest(r)
        /\ \/ Works /\ Close(j, "cancelled")
              /\ raced' = IF \E w \in Worker : Copying(w) /\ worker[w].job = j
                         THEN raced \cup {j} ELSE raced
           \/ Fault /\ UNCHANGED <<job, raced>>
        /\ UNCHANGED <<nextJob, queue, worker, cancels, told, stranded, stops>>

-----------------------------------------------------------------------------
Unfinished == {j \in Job : job[j].state \in Active}

\* The process ends and starts: HealMigrationJobs before the workers.  It queues
\* rows in the order of their ids and closes the others: their credential does
\* not open, or they find the queue full.
Stopped ==
    /\ stops < MaxStops /\ stops' = stops + 1
    /\ worker' = [w \in Worker |-> Resting]
    /\ ask' = [r \in Request |-> Resting]
    /\ cancels' = {} /\ told' = {}
    /\ UNCHANGED <<nextJob, raced>>

\* A slip: rows that find the queue full stay as they are.
RestartKeepsAll ==
    /\ Stopped /\ Works
    /\ LET all == SetToSortSeq(Unfinished, <)
       IN  queue' = SubSeq(all, 1, IF Len(all) < QueueSize THEN Len(all) ELSE QueueSize)
    /\ job' = [j \in Job |-> IF j \in Unfinished THEN [job[j] EXCEPT !.state = "queued"]
                                                 ELSE job[j]]
    /\ stranded' = {}

Restart ==
    /\ Stopped
    /\ \/ /\ \E kept \in BoundedSeq(Unfinished, QueueSize) :
               /\ \A i, k \in DOMAIN kept : i < k => kept[i] < kept[k]
               /\ queue' = kept
               /\ job' = [j \in Job |->
                    IF j \in ToSet(kept) THEN [job[j] EXCEPT !.state = "queued"]
                    ELSE IF j \in Unfinished THEN [job[j] EXCEPT !.state = "failed"]
                    ELSE job[j]]
          /\ stranded' = {} /\ Works
       \/ Fault /\ queue' = <<>> /\ stranded' = Unfinished /\ UNCHANGED job
       \/ /\ Fault /\ queue' = <<>> /\ stranded' = Unfinished
          /\ job' = [j \in Job |-> IF j \in Unfinished THEN [job[j] EXCEPT !.state = "queued"]
                                                       ELSE job[j]]

WorkerStep(w) ==
    Take(w) \/ Claim(w) \/ rememberJob(w) \/ finishJob(w) \/ forgetJob(w)

RequestStep(r) == Push(r) \/ Stop(r) \/ CloseCancelled(r)

MailNext ==
    \/ \E w \in Worker : WorkerStep(w)
    \/ \E r \in Request : RequestStep(r) \/ \E m \in Mailbox : Insert(r, m) \/ Cancel(r, m)
    \/ Restart

MailSpec == MailInit /\ [][MailNext]_mailVars

\* A copy has a budget, a request a timeout, and an idle worker takes a job.
MailFairness ==
    /\ \A w \in Worker : WF_mailVars(WorkerStep(w))
    /\ \A r \in Request : WF_mailVars(RequestStep(r))

-----------------------------------------------------------------------------
\* The types of the variables.
MailTypeOK ==
    /\ job \in [Job -> [state : {"none", "queued", "running", "done", "failed", "cancelled"},
                        mailbox : Mailbox \cup {NoMailbox}]]
    /\ nextJob \in 1..(MaxJobs + 1)
    /\ queue \in BoundedSeq(Job, QueueSize)
    /\ worker \in [Worker -> [at : {"idle", "claim", "remember", "copy", "forget"},
                              job : 0..MaxJobs]]
    /\ {cancels, told, raced, stranded} \subseteq SUBSET Job
    /\ ask \in [Request -> [at : {"idle", "push", "stop", "close"}, job : 0..MaxJobs]]
    /\ dbFaults \in 0..MaxDbFaults /\ stops \in 0..MaxStops

(***************************************************************************)
(* "Nothing claims to be queued while no worker will ever reach it"        *)
(* (resumeMigrationRow): a queued row is on the queue, or a request or a   *)
(* worker has it in hand, unless a statement about it failed.              *)
(***************************************************************************)
QueuedIsReachable ==
    \A j \in Job : job[j].state = "queued" =>
        \/ j \in ToSet(queue) \cup stranded
        \/ \E w \in Worker : worker[w].at = "claim" /\ worker[w].job = j
        \/ \E r \in Request : ask[r].at = "push" /\ ask[r].job = j

(***************************************************************************)
(* One mailbox is copied once at a time (the unique index over the active  *)
(* mailbox), unless a cancel closed the row of a copy that had not yet     *)
(* been remembered; and a job cancelled before its claim is not copied.    *)
(***************************************************************************)
OneCopyPerMailbox ==
    \A w, v \in Worker :
        Copying(w) /\ Copying(v)
        /\ job[worker[w].job].mailbox = job[worker[v].job].mailbox
        => w = v \/ {worker[w].job, worker[v].job} \cap raced # {}

(***************************************************************************)
(* The mailbox is released: a job that is active gets closed, unless a     *)
(* statement about it failed.                                              *)
(***************************************************************************)
JobSettles ==
    \A j \in Job : job[j].state \in Active ~> job[j].state \notin Active \/ j \in stranded
=============================================================================
