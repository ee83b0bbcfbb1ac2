-------------------------- MODULE BackupJobsProofs --------------------------
(***************************************************************************)
(* What a bulk job's row, its cancel function and its counters keep to,    *)
(* for any number of jobs, domains, stop requests, failed writes and       *)
(* restarts.                                                               *)
(***************************************************************************)
EXTENDS BackupJobs, TLAPS

\* The head of the loop lets a job begin a domain only while one is left.
InList == \A j \in Job : worker[j] \in {"marking", "working"} => Began(j) < Total[j]

Typed == TypeOK /\ InList

\* The variables start within their types.
LEMMA TypeInit == Init => Typed
<1> SUFFICES ASSUME Init PROVE Typed
  OBVIOUS
<1> USE JobsAssumption DEF Init
<1>1. \A j \in Job : Began(j) = 0 /\ Total[j] >= 0
  BY DEF Began
<1> QED
  BY <1>1 DEF Typed, TypeOK, InList, Status, Final, Live

\* The rows of the jobs that were opened, and their counts.
RowTyped ==
    /\ row \in [Job -> [status : Status, succeeded : Nat, failed : Nat]]
    /\ \A j \in Job : row[j].succeeded + row[j].failed <= Total[j]

\* A statement that sets a job's status leaves the rows well typed.
LEMMA StatusTyped ==
    ASSUME RowTyped, NEW j \in Job, NEW s \in Status, SetStatus(j, s)
    PROVE  RowTyped'
BY DEF RowTyped, SetStatus

\* The end of a domain adds one to one counter, within the list.
LEMMA CountTyped ==
    ASSUME Typed, NEW j \in Job, worker[j] = "working",
           \/ tally' = [tally EXCEPT ![j].succeeded = @ + 1]
           \/ tally' = [tally EXCEPT ![j].failed = @ + 1]
    PROVE  /\ tally' \in [Job -> [succeeded : Nat, failed : Nat, stopped : BOOLEAN]]
           /\ \A k \in Job : Began(k)' <= Total[k]
           /\ \A k \in Job : k # j => Began(k)' = Began(k)
<1>a. /\ tally \in [Job -> [succeeded : Nat, failed : Nat, stopped : BOOLEAN]]
      /\ \A k \in Job : Began(k) <= Total[k] /\ Total[k] \in Nat
      /\ Began(j) < Total[j]
  BY JobsAssumption DEF Typed, TypeOK, InList
<1>1. CASE tally' = [tally EXCEPT ![j].succeeded = @ + 1]
  <2>1. tally' \in [Job -> [succeeded : Nat, failed : Nat, stopped : BOOLEAN]]
    BY <1>a, <1>1
  <2>2. \A k \in Job : k # j => Began(k)' = Began(k)
    BY <1>a, <1>1 DEF Began
  <2>3. Began(j)' = Began(j) + 1
    BY <1>a, <1>1 DEF Began
  <2>4. Began(j) \in Nat
    BY <1>a DEF Began
  <2> QED
    BY <1>a, <2>1, <2>2, <2>3, <2>4
<1>2. CASE tally' = [tally EXCEPT ![j].failed = @ + 1]
  <2>1. tally' \in [Job -> [succeeded : Nat, failed : Nat, stopped : BOOLEAN]]
    BY <1>a, <1>2
  <2>2. \A k \in Job : k # j => Began(k)' = Began(k)
    BY <1>a, <1>2 DEF Began
  <2>3. Began(j)' = Began(j) + 1
    BY <1>a, <1>2 DEF Began
  <2>4. Began(j) \in Nat
    BY <1>a DEF Began
  <2> QED
    BY <1>a, <2>1, <2>2, <2>3, <2>4
<1> QED
  BY <1>1, <1>2

\* The mark of a stop leaves the counters alone.
LEMMA StopTyped ==
    ASSUME Typed, NEW j \in Job, tally' = [tally EXCEPT ![j].stopped = TRUE]
    PROVE  /\ tally' \in [Job -> [succeeded : Nat, failed : Nat, stopped : BOOLEAN]]
           /\ \A k \in Job : Began(k)' = Began(k)
<1>1. tally \in [Job -> [succeeded : Nat, failed : Nat, stopped : BOOLEAN]] BY DEF Typed, TypeOK
<1>2. \A k \in Job : /\ tally'[k].succeeded = tally[k].succeeded
                     /\ tally'[k].failed = tally[k].failed
  BY <1>1
<1>3. tally' \in [Job -> [succeeded : Nat, failed : Nat, stopped : BOOLEAN]] BY <1>1
<1> QED BY <1>2, <1>3 DEF Began

\* Every step of a goroutine, of a request and of the panel keeps the types.
LEMMA TypeStep == Typed /\ [Next]_vars => Typed'
<1> SUFFICES ASSUME Typed, [Next]_vars PROVE Typed'
  OBVIOUS
<1> USE JobsAssumption
<1>a. /\ RowTyped
      /\ tally \in [Job -> [succeeded : Nat, failed : Nat, stopped : BOOLEAN]]
      /\ \A j \in Job : Began(j) <= Total[j]
      /\ worker \in [Job -> Live \cup {"none", "gone"}]
      /\ faults \in 0 .. MaxFaults
  BY DEF Typed, TypeOK, RowTyped
<1>b. ASSUME RowTyped',
             tally' \in [Job -> [succeeded : Nat, failed : Nat, stopped : BOOLEAN]],
             \A j \in Job : Began(j)' <= Total[j],
             late' \in [Job -> Nat],
             worker' \in [Job -> Live \cup {"none", "gone"}],
             registered' \subseteq Job, cancelled' \subseteq Job,
             UNCHANGED stopper, restarts' \in 0 .. MaxRestarts, faults' \in 0 .. MaxFaults,
             \A j \in Job : worker'[j] \in {"marking", "working"} => Began(j)' < Total[j]
      PROVE  Typed'
  BY <1>b DEF Typed, TypeOK, RowTyped, InList
<1>c. ASSUME UNCHANGED row PROVE RowTyped'
  BY <1>a, <1>c DEF RowTyped
<1>d. ASSUME UNCHANGED tally
      PROVE  /\ tally' \in [Job -> [succeeded : Nat, failed : Nat, stopped : BOOLEAN]]
             /\ \A j \in Job : Began(j)' = Began(j)
             /\ \A j \in Job : Began(j)' <= Total[j]
  BY <1>a, <1>d DEF Began
<1>e. ASSUME WriteFails PROVE UNCHANGED row /\ faults' \in 0 .. MaxFaults
  BY <1>a, <1>e DEF WriteFails
<1>1. ASSUME NEW j \in Job, OpenJob(j) PROVE Typed'
  <2>1. RowTyped' /\ faults' \in 0 .. MaxFaults
    BY <1>1, <1>a, <1>c, <1>e, StatusTyped DEF OpenJob, Status
  <2> QED
    BY <1>1, <2>1, <1>a, <1>b, <1>d DEF OpenJob, goto, Live, Typed, TypeOK, InList
<1>2. ASSUME NEW j \in Job, RegisterJob(j) PROVE Typed'
  BY <1>2, <1>a, <1>b, <1>c, <1>d DEF RegisterJob, goto, Live, Typed, TypeOK, InList
<1>3. ASSUME NEW j \in Job, CheckStop(j) PROVE Typed'
  <2>1. /\ tally' \in [Job -> [succeeded : Nat, failed : Nat, stopped : BOOLEAN]]
        /\ \A k \in Job : Began(k)' = Began(k)
    BY <1>3, <1>d, StopTyped DEF CheckStop
  <2>2. worker' \in [Job -> Live \cup {"none", "gone"}]
    BY <1>3, <1>a DEF CheckStop, goto, Live
  <2>3. \A k \in Job : worker'[k] \in {"marking", "working"} => Began(k)' < Total[k]
    BY <1>3, <2>1, <1>a DEF CheckStop, goto, Typed, InList
  <2> QED
    BY <1>3, <2>1, <2>2, <2>3, <1>a, <1>b, <1>c DEF CheckStop, Typed, TypeOK
<1>4. ASSUME NEW j \in Job, BeginDomain(j) PROVE Typed'
  BY <1>4, <1>a, <1>b, <1>c, <1>d DEF BeginDomain, goto, Live, Typed, TypeOK, InList
<1>5. ASSUME NEW j \in Job, DomainSucceeds(j) PROVE Typed'
  <2>1. /\ tally' \in [Job -> [succeeded : Nat, failed : Nat, stopped : BOOLEAN]]
        /\ \A k \in Job : Began(k)' <= Total[k]
        /\ \A k \in Job : k # j => Began(k)' = Began(k)
    BY <1>5, CountTyped DEF DomainSucceeds, goto
  <2> QED
    BY <1>5, <2>1, <1>a, <1>b, <1>c DEF DomainSucceeds, goto, Live, Typed, TypeOK, InList
<1>6. ASSUME NEW j \in Job, DomainFails(j) PROVE Typed'
  <2>1. /\ tally' \in [Job -> [succeeded : Nat, failed : Nat, stopped : BOOLEAN]]
        /\ \A k \in Job : Began(k)' <= Total[k]
        /\ \A k \in Job : k # j => Began(k)' = Began(k)
    BY <1>6, <1>a, CountTyped, StopTyped DEF DomainFails, goto
  <2>2. worker' \in [Job -> Live \cup {"none", "gone"}]
    BY <1>6, <1>a DEF DomainFails, goto, Live
  <2>3. \A k \in Job : worker'[k] \in {"marking", "working"} => Began(k)' < Total[k]
    BY <1>6, <2>1, <1>a DEF DomainFails, goto, Typed, InList
  <2> QED
    BY <1>6, <2>1, <2>2, <2>3, <1>a, <1>b, <1>c DEF DomainFails, Typed, TypeOK
<1>7. ASSUME NEW j \in Job, RecordProgress(j) PROVE Typed'
  <2>1. ASSUME row' = [row EXCEPT ![j] = [status |-> @.status, succeeded |-> tally[j].succeeded,
                                          failed |-> tally[j].failed]]
        PROVE  RowTyped'
    BY <2>1, <1>a DEF RowTyped, Began
  <2>2. RowTyped' /\ faults' \in 0 .. MaxFaults
    BY <1>7, <2>1, <1>a, <1>c, <1>e DEF RecordProgress
  <2> QED
    BY <1>7, <2>2, <1>a, <1>b, <1>d DEF RecordProgress, goto, Live, Typed, TypeOK, InList
<1>8. ASSUME NEW j \in Job, finishJobStopped(j) PROVE Typed'
  <2>1. RowTyped' /\ faults' \in 0 .. MaxFaults
    BY <1>8, <1>a, <1>c, <1>e, StatusTyped DEF finishJobStopped, jobStatus, Status, Final
  <2> QED
    BY <1>8, <2>1, <1>a, <1>b, <1>d DEF finishJobStopped, goto, Live, Typed, TypeOK, InList
<1>9. ASSUME NEW j \in Job, Unregister(j) PROVE Typed'
  BY <1>9, <1>a, <1>b, <1>c, <1>d DEF Unregister, goto, Live, Typed, TypeOK, InList
<1>10. ASSUME NEW j \in Job, Panic(j) PROVE Typed'
  BY <1>10, <1>a, <1>b, <1>c, <1>d DEF Panic, goto, Live, Typed, TypeOK, InList
<1>11. ASSUME NEW j \in Job, failJob(j) PROVE Typed'
  <2>1. RowTyped' /\ faults' \in 0 .. MaxFaults
    BY <1>11, <1>a, <1>c, <1>e, StatusTyped DEF failJob, Status, Final
  <2> QED
    BY <1>11, <2>1, <1>a, <1>b, <1>d DEF failJob, goto, Live, Typed, TypeOK, InList
<1>12. ASSUME NEW x \in Stopper, NEW j \in Job, StopReads(x, j) PROVE Typed'
  BY <1>12 DEF StopReads, Typed, TypeOK, InList, Began
<1>13. ASSUME NEW x \in Stopper, stopJob(x) PROVE Typed'
  <2>1. /\ stopper' \in [Stopper -> [at : {"idle", "found", "hung"}, job : Job \cup {NoJob}]]
        /\ \A y \in Stopper : stopper'[y].at # "idle" => stopper'[y].job \in Job
    <3>1. CASE stopper' = [stopper EXCEPT ![x] = [at |-> "idle", job |-> NoJob]]
      BY <3>1 DEF Typed, TypeOK
    <3>2. CASE stopper' = [stopper EXCEPT ![x].at = "hung"] /\ stopper[x].at = "found"
      BY <3>2 DEF Typed, TypeOK
    <3> QED
      BY <1>13, <3>1, <3>2 DEF stopJob
  <2>2. /\ registered' \subseteq Job /\ cancelled' \subseteq Job
        /\ UNCHANGED <<row, worker, tally, late, restarts, faults>>
    BY <1>13 DEF stopJob, Typed, TypeOK
  <2> QED
    BY <2>1, <2>2 DEF Typed, TypeOK, InList, Began
<1>14. ASSUME NEW x \in Stopper, CloseHungRow(x) PROVE Typed'
  <2>1. stopper[x].job \in Job
    BY <1>14 DEF CloseHungRow, Typed, TypeOK
  <2>2. RowTyped' /\ faults' \in 0 .. MaxFaults
    BY <1>14, <2>1, <1>a, <1>c, <1>e, StatusTyped DEF CloseHungRow, Status, Final
  <2> QED
    BY <1>14, <2>2 DEF CloseHungRow, Typed, TypeOK, InList, RowTyped, Began
<1>15. ASSUME Restart PROVE Typed'
  <2>1. RowTyped' /\ faults' \in 0 .. MaxFaults
    BY <1>15, <1>a, <1>c, <1>e DEF Restart, RowTyped, Status, Final
  <2> QED
    BY <1>15, <2>1 DEF Restart, Typed, TypeOK, InList, RowTyped, Began, Live
<1>16. ASSUME UNCHANGED vars PROVE Typed'
  BY <1>16 DEF vars, Typed, TypeOK, InList, Began
<1> QED
  BY <1>1, <1>2, <1>3, <1>4, <1>5, <1>6, <1>7, <1>8, <1>9, <1>10, <1>11, <1>12, <1>13,
     <1>14, <1>15, <1>16 DEF Next, Work, Stop

\* What is common to the theorems below.
LEMMA Typing == Spec => []Typed
<1>1. Init => Typed
  BY TypeInit
<1>2. Typed /\ [Next]_vars => Typed'
  BY TypeStep
<1> QED
  BY <1>1, <1>2, PTL DEF Spec

(***************************************************************************)
(* The rows, the counters and the table of cancel functions keep their     *)
(* types, and no job counts more domains than its list has.                *)
(***************************************************************************)
THEOREM TypeCorrect == Spec => []TypeOK
<1>1. Typed => TypeOK
  BY DEF Typed
<1> QED
  BY <1>1, Typing, PTL

-----------------------------------------------------------------------------
(* The table of cancel functions.                                          *)

\* A job is in the table only between registerJob and the deferred
\* unregisterJob; that the goroutine is live then is not inductive by itself.
InTable == \A j \in registered : worker[j] \in Live \ {"opened", "panicked"}

\* Every step keeps the table to the goroutines that registered themselves.
LEMMA InTableStep == Typed /\ InTable /\ [Next]_vars => InTable'
<1> SUFFICES ASSUME Typed, InTable, [Next]_vars PROVE InTable'
  OBVIOUS
<1> USE DEF InTable, Live
<1>a. worker \in [Job -> Live \cup {"none", "gone"}] /\ registered \subseteq Job
  BY DEF Typed, TypeOK
<1>1. ASSUME NEW j \in Job, OpenJob(j) PROVE InTable'
  BY <1>1, <1>a DEF OpenJob, goto
<1>2. ASSUME NEW j \in Job, RegisterJob(j) PROVE InTable'
  BY <1>2, <1>a DEF RegisterJob, goto
<1>3. ASSUME NEW j \in Job, CheckStop(j) PROVE InTable'
  BY <1>3, <1>a DEF CheckStop, goto
<1>4. ASSUME NEW j \in Job, BeginDomain(j) PROVE InTable'
  BY <1>4, <1>a DEF BeginDomain, goto
<1>5. ASSUME NEW j \in Job, DomainSucceeds(j) PROVE InTable'
  BY <1>5, <1>a DEF DomainSucceeds, goto
<1>6. ASSUME NEW j \in Job, DomainFails(j) PROVE InTable'
  BY <1>6, <1>a DEF DomainFails, goto
<1>7. ASSUME NEW j \in Job, RecordProgress(j) PROVE InTable'
  BY <1>7, <1>a DEF RecordProgress, goto
<1>8. ASSUME NEW j \in Job, finishJobStopped(j) PROVE InTable'
  BY <1>8, <1>a DEF finishJobStopped, goto
<1>9. ASSUME NEW j \in Job, Unregister(j) PROVE InTable'
  BY <1>9, <1>a DEF Unregister, goto
<1>10. ASSUME NEW j \in Job, Panic(j) PROVE InTable'
  BY <1>10, <1>a DEF Panic, goto
<1>11. ASSUME NEW j \in Job, failJob(j) PROVE InTable'
  BY <1>11, <1>a DEF failJob, goto
<1>12. ASSUME NEW x \in Stopper, NEW j \in Job, StopReads(x, j) PROVE InTable'
  BY <1>12 DEF StopReads
<1>13. ASSUME NEW x \in Stopper, stopJob(x) PROVE InTable'
  BY <1>13 DEF stopJob
<1>14. ASSUME NEW x \in Stopper, CloseHungRow(x) PROVE InTable'
  BY <1>14 DEF CloseHungRow
<1>15. ASSUME Restart PROVE InTable'
  BY <1>15 DEF Restart
<1>16. ASSUME UNCHANGED vars PROVE InTable'
  BY <1>16 DEF vars
<1> QED
  BY <1>1, <1>2, <1>3, <1>4, <1>5, <1>6, <1>7, <1>8, <1>9, <1>10, <1>11, <1>12, <1>13,
     <1>14, <1>15, <1>16 DEF Next, Work, Stop

(***************************************************************************)
(* A cancel function that StopJob finds belongs to a goroutine that is     *)
(* still there to close the row, with any number of jobs, stop requests,   *)
(* panics and restarts.                                                    *)
(***************************************************************************)
THEOREM CancelFunctionsAreLive == Spec => []RegisteredIsLive
<1>1. Init => InTable
  BY DEF Init, InTable
<1>2. InTable => RegisteredIsLive
  BY DEF InTable, RegisteredIsLive
<1> QED
  BY <1>1, <1>2, InTableStep, Typing, PTL DEF Spec

-----------------------------------------------------------------------------
(* What the closed row says.                                               *)

\* Only a goroutine that finished gives its row a verdict over the domains.
Verdict == \A j \in Job : row[j].status \in {"done", "partial"}
                              => worker[j] \in {"closing", "gone"}

\* The phases in which the row's counts and the goroutine's are the same,
\* unless a write has failed.
Even == {"none", "opened", "checking", "marking", "working", "finishing"}

Mirror ==
    \A j \in Job :
        /\ worker[j] \in Even => /\ row[j].succeeded = tally[j].succeeded
                                /\ row[j].failed = tally[j].failed
        /\ worker[j] # "none" => row[j].status # "none"

\* The loop ends because of a stop, or because the list does.
Ended == \A j \in Job : worker[j] = "finishing" =>
              tally[j].stopped = TRUE \/ Began(j) = Total[j]

Outcome == Verdict /\ Ended /\ (faults = 0 => Mirror) /\ StatusTellsOutcome

\* A write that fails is counted, and no step takes one back.
LEMMA FaultsGrow == Typed /\ [Next]_vars => (faults' = 0 => faults = 0)
<1> SUFFICES ASSUME Typed, [Next]_vars, faults' = 0 PROVE faults = 0
  OBVIOUS
<1>1. faults \in Nat
  BY JobsAssumption DEF Typed, TypeOK
<1>2. ~WriteFails
  BY <1>1 DEF WriteFails
<1> QED
  BY <1>2 DEF Next, Work, Stop, vars, OpenJob, RegisterJob, CheckStop, BeginDomain,
     DomainSucceeds, DomainFails, RecordProgress, finishJobStopped, Unregister, Panic,
     failJob, StopReads, stopJob, CloseHungRow, Restart

\* A change of one job's status can only disturb that job's verdict.
LEMMA StatusKeeps ==
    ASSUME Typed, NEW j \in Job, NEW s \in Status, SetStatus(j, s)
    PROVE  /\ row'[j].status = s
           /\ row'[j].succeeded = row[j].succeeded /\ row'[j].failed = row[j].failed
           /\ \A k \in Job : k # j => row'[k] = row[k]
BY DEF SetStatus, Typed, TypeOK

\* A row that says "failed", "stopped" or "running" claims nothing about domains.
Claims(r, n) ==
    /\ r.status = "done" => r.succeeded = n /\ r.failed = 0
    /\ r.status = "partial" => r.succeeded > 0 /\ r.failed > 0 /\ r.succeeded + r.failed = n

\* What a step must show of the jobs it touches.
LEMMA OutcomeShape ==
    ASSUME Typed, Outcome, [Next]_vars,
           Verdict', Ended', faults' = 0 => Mirror',
           faults' = 0 => \A j \in Job : row'[j] = row[j] \/ Claims(row'[j], Total[j])
    PROVE  Outcome'
<1>1. faults' = 0 => faults = 0
  BY FaultsGrow
<1>2. faults' = 0 => \A j \in Job : Claims(row[j], Total[j])
  BY <1>1 DEF Outcome, StatusTellsOutcome, Claims
<1>3. faults' = 0 => \A j \in Job : Claims(row'[j], Total[j])
  BY <1>2
<1>4. StatusTellsOutcome'
  BY <1>3 DEF StatusTellsOutcome, Claims
<1> QED
  BY <1>4 DEF Outcome

\* The goroutine's own last statement tells the truth about its domains.
LEMMA FinishTells ==
    ASSUME Typed, Ended, Mirror, NEW j \in Job, worker[j] = "finishing",
           SetStatus(j, IF tally[j].stopped THEN "stopped"
                        ELSE jobStatus(tally[j].succeeded, tally[j].failed))
    PROVE  Claims(row'[j], Total[j])
<1>1. /\ tally[j].succeeded \in Nat /\ tally[j].failed \in Nat /\ tally[j].stopped \in BOOLEAN
      /\ Total[j] \in Nat \ {0}
  BY JobsAssumption DEF Typed, TypeOK
<1>2. /\ row[j].succeeded = tally[j].succeeded /\ row[j].failed = tally[j].failed
  BY DEF Mirror, Even
<1>3. CASE tally[j].stopped = TRUE
  <2>1. row'[j].status = "stopped"
    BY <1>3, StatusKeeps DEF Status, Final
  <2> QED
    BY <2>1 DEF Claims
<1>4. CASE tally[j].stopped = FALSE
  <2>1. tally[j].succeeded + tally[j].failed = Total[j]
    BY <1>4 DEF Ended, Began
  <2> DEFINE s == jobStatus(tally[j].succeeded, tally[j].failed)
  <2>2. s \in Status /\ SetStatus(j, s)
    BY <1>4 DEF jobStatus, Status, Final
  <2>3. /\ row'[j].status = s
        /\ row'[j].succeeded = row[j].succeeded /\ row'[j].failed = row[j].failed
    BY <2>2, StatusKeeps
  <2> QED
    BY <1>1, <1>2, <2>1, <2>3 DEF Claims, jobStatus
<1> QED
  BY <1>1, <1>3, <1>4

\* Every step keeps what the rows say of their domains true.
LEMMA OutcomeStep == Typed /\ Outcome /\ [Next]_vars => Outcome'
<1> SUFFICES ASSUME Typed, Outcome, [Next]_vars PROVE Outcome'
  OBVIOUS
<1>a. /\ worker \in [Job -> Live \cup {"none", "gone"}]
      /\ row \in [Job -> [status : Status, succeeded : Nat, failed : Nat]]
      /\ tally \in [Job -> [succeeded : Nat, failed : Nat, stopped : BOOLEAN]]
  BY DEF Typed, TypeOK
<1>b. Verdict /\ Ended /\ (faults' = 0 => Mirror)
  BY FaultsGrow DEF Outcome
<1>c. ASSUME UNCHANGED row, Verdict', Ended', faults' = 0 => Mirror' PROVE Outcome'
  BY <1>c, OutcomeShape
\* A step that moves one goroutine on, outside the start and the end of a job.
<1>m. ASSUME NEW j \in Job, NEW from \in Live, NEW to \in Live \ {"finishing"}, goto(j, from, to),
             from \in Even \/ to \notin Even,
             from # "closing", UNCHANGED <<row, tally>>
      PROVE  Outcome'
  <2>1. Verdict'
    BY <1>a, <1>b, <1>m DEF Verdict, goto, Live
  <2>2. Ended'
    BY <1>a, <1>b, <1>m DEF Ended, goto, Live, Began
  <2>3. faults' = 0 => Mirror'
    BY <1>a, <1>b, <1>m DEF Mirror, goto, Even, Live
  <2> QED
    BY <1>c, <1>m, <2>1, <2>2, <2>3
<1>1. ASSUME NEW j \in Job, OpenJob(j) PROVE Outcome'
  <2>1. CASE SetStatus(j, "running")
    <3>1. /\ row'[j].status = "running"
          /\ row'[j].succeeded = row[j].succeeded /\ row'[j].failed = row[j].failed
          /\ \A k \in Job : k # j => row'[k] = row[k]
      BY <2>1, StatusKeeps DEF Status
    <3>2. Verdict'
      BY <1>1, <3>1, <1>a, <1>b DEF Verdict, OpenJob, goto
    <3>3. Ended'
      BY <1>1, <1>a, <1>b DEF Ended, OpenJob, goto, Began
    <3>4. faults' = 0 => Mirror'
      BY <1>1, <3>1, <1>a, <1>b DEF Mirror, OpenJob, goto, Even
    <3> QED
      BY <3>1, <3>2, <3>3, <3>4, OutcomeShape DEF Claims
  <2>2. CASE WriteFails
    <3>1. faults' # 0 /\ UNCHANGED row
      BY <2>2, JobsAssumption DEF WriteFails, Typed, TypeOK
    <3>2. Verdict'
      BY <1>1, <3>1, <1>a, <1>b DEF Verdict, OpenJob, goto
    <3>3. Ended'
      BY <1>1, <1>a, <1>b DEF Ended, OpenJob, goto, Began
    <3> QED
      BY <1>c, <3>1, <3>2, <3>3
  <2> QED
    BY <1>1, <2>1, <2>2 DEF OpenJob
<1>2. ASSUME NEW j \in Job, RegisterJob(j) PROVE Outcome'
  BY <1>2, <1>m DEF RegisterJob, Even, Live
<1>3. ASSUME NEW j \in Job, CheckStop(j) PROVE Outcome'
  <2>1. Verdict'
    BY <1>3, <1>a, <1>b DEF Verdict, CheckStop, goto
  <2>2. Ended'
    BY <1>3, <1>a, <1>b DEF Ended, CheckStop, goto, Began
  <2>3. faults' = 0 => Mirror'
    BY <1>3, <1>a, <1>b DEF Mirror, CheckStop, goto, Even
  <2> QED
    BY <1>3, <1>c, <2>1, <2>2, <2>3 DEF CheckStop
<1>4. ASSUME NEW j \in Job, BeginDomain(j) PROVE Outcome'
  BY <1>4, <1>m DEF BeginDomain, Even, Live
<1>5. ASSUME NEW j \in Job, DomainSucceeds(j) PROVE Outcome'
  <2>1. Verdict'
    BY <1>5, <1>a, <1>b DEF Verdict, DomainSucceeds, goto
  <2>2. Ended'
    BY <1>5, <1>a, <1>b DEF Ended, DomainSucceeds, goto, Began
  <2>3. faults' = 0 => Mirror'
    BY <1>5, <1>a, <1>b DEF Mirror, DomainSucceeds, goto, Even
  <2> QED
    BY <1>5, <1>c, <2>1, <2>2, <2>3 DEF DomainSucceeds
<1>6. ASSUME NEW j \in Job, DomainFails(j) PROVE Outcome'
  <2>1. Verdict'
    BY <1>6, <1>a, <1>b DEF Verdict, DomainFails, goto
  <2>2. Ended'
    BY <1>6, <1>a, <1>b DEF Ended, DomainFails, goto, Began
  <2>3. faults' = 0 => Mirror'
    BY <1>6, <1>a, <1>b DEF Mirror, DomainFails, goto, Even
  <2> QED
    BY <1>6, <1>c, <2>1, <2>2, <2>3 DEF DomainFails
<1>7. ASSUME NEW j \in Job, RecordProgress(j) PROVE Outcome'
  <2>1. Verdict /\ Ended /\ worker[j] = "counting" /\ worker' = [worker EXCEPT ![j] = "checking"]
        /\ UNCHANGED tally
    BY <1>7, <1>b DEF RecordProgress, goto
  <2>2. row[j].status \notin {"done", "partial"}
    BY <2>1 DEF Verdict
  <2>3. Ended'
    BY <2>1, <1>a DEF Ended, Began
  <2>4. CASE WriteFails
    <3>1. faults' # 0 /\ UNCHANGED row
      BY <2>4, JobsAssumption DEF WriteFails, Typed, TypeOK
    <3>2. Verdict'
      BY <2>1, <2>2, <3>1, <1>a DEF Verdict
    <3> QED
      BY <1>c, <2>3, <3>1, <3>2
  <2>5. CASE row[j].status = "none" /\ UNCHANGED row
    <3>1. faults' # 0
      BY <2>1, <2>5, <1>b DEF Mirror
    <3>2. Verdict'
      BY <2>1, <2>2, <2>5, <1>a DEF Verdict
    <3> QED
      BY <1>c, <2>3, <2>5, <3>1, <3>2
  <2>6. CASE /\ row[j].status # "none"
             /\ row' = [row EXCEPT ![j] = [status |-> @.status, succeeded |-> tally[j].succeeded,
                                           failed |-> tally[j].failed]]
    <3>1. /\ row'[j].status = row[j].status
          /\ row'[j].succeeded = tally[j].succeeded /\ row'[j].failed = tally[j].failed
          /\ \A k \in Job : k # j => row'[k] = row[k]
      BY <2>6, <1>a
    <3>2. Verdict'
      BY <2>1, <2>2, <3>1, <1>a DEF Verdict
    <3>3. faults' = 0 => Mirror'
      BY <2>1, <2>6, <3>1, <1>a, <1>b DEF Mirror, Even
    <3> QED
      BY <2>2, <2>3, <3>1, <3>2, <3>3, OutcomeShape DEF Claims
  <2> QED
    BY <1>7, <2>4, <2>5, <2>6 DEF RecordProgress
<1>8. ASSUME NEW j \in Job, finishJobStopped(j) PROVE Outcome'
  <2>1. /\ worker[j] = "finishing" /\ worker' = [worker EXCEPT ![j] = "closing"]
        /\ UNCHANGED tally
    BY <1>8 DEF finishJobStopped, goto
  <2>2. Ended'
    BY <2>1, <1>a, <1>b DEF Ended, Began
  <2>3. CASE UNCHANGED row
    <3>1. Verdict'
      BY <2>1, <2>3, <1>a, <1>b DEF Verdict
    <3>2. faults' = 0 => Mirror'
      BY <2>1, <2>3, <1>a, <1>b DEF Mirror, Even
    <3> QED
      BY <1>c, <2>2, <2>3, <3>1, <3>2
  <2>4. CASE SetStatus(j, IF tally[j].stopped THEN "stopped"
                          ELSE jobStatus(tally[j].succeeded, tally[j].failed))
    <3> DEFINE s == IF tally[j].stopped THEN "stopped"
                    ELSE jobStatus(tally[j].succeeded, tally[j].failed)
    <3>1. s \in Status \ {"none"}
      BY DEF jobStatus, Status, Final
    <3>2. /\ row'[j].status = s
          /\ \A k \in Job : k # j => row'[k] = row[k]
      BY <2>4, <3>1, StatusKeeps
    <3>3. Verdict'
      BY <2>1, <3>2, <1>a, <1>b DEF Verdict
    <3>4. faults' = 0 => Mirror'
      BY <2>1, <3>1, <3>2, <1>a, <1>b DEF Mirror, Even
    <3>5. faults' = 0 => Claims(row'[j], Total[j])
      BY <2>1, <2>4, <1>b, FinishTells
    <3> QED
      BY <2>2, <3>2, <3>3, <3>4, <3>5, OutcomeShape
  <2> QED
    BY <1>8, <2>3, <2>4 DEF finishJobStopped, WriteFails
<1>9. ASSUME NEW j \in Job, Unregister(j) PROVE Outcome'
  <2>1. Verdict'
    BY <1>9, <1>a, <1>b DEF Verdict, Unregister, goto
  <2>2. Ended'
    BY <1>9, <1>a, <1>b DEF Ended, Unregister, goto, Began
  <2>3. faults' = 0 => Mirror'
    BY <1>9, <1>a, <1>b DEF Mirror, Unregister, goto, Even
  <2> QED
    BY <1>9, <1>c, <2>1, <2>2, <2>3 DEF Unregister
<1>10. ASSUME NEW j \in Job, Panic(j) PROVE Outcome'
  BY <1>10, <1>m DEF Panic, Even, Live
\* A row closed as failed, by failJob or by StopJob, claims nothing.
<1>f. ASSUME NEW j \in Job, SetStatus(j, "failed"), UNCHANGED tally, Ended',
             \/ UNCHANGED worker
             \/ worker' = [worker EXCEPT ![j] = "gone"]
      PROVE  Outcome'
  <2>1. /\ row'[j].status = "failed"
        /\ row'[j].succeeded = row[j].succeeded /\ row'[j].failed = row[j].failed
        /\ \A k \in Job : k # j => row'[k] = row[k]
    BY <1>f, StatusKeeps DEF Status, Final
  <2>2. Verdict'
    BY <1>f, <2>1, <1>a, <1>b DEF Verdict
  <2>3. faults' = 0 => Mirror'
    BY <1>f, <2>1, <1>a, <1>b DEF Mirror, Even
  <2> QED
    BY <1>f, <2>1, <2>2, <2>3, OutcomeShape DEF Claims
<1>11. ASSUME NEW j \in Job, failJob(j) PROVE Outcome'
  <2>1. /\ worker[j] = "panicked" /\ worker' = [worker EXCEPT ![j] = "gone"] /\ UNCHANGED tally
    BY <1>11 DEF failJob, goto
  <2>2. Ended'
    BY <2>1, <1>a, <1>b DEF Ended, Began
  <2>3. CASE SetStatus(j, "failed")
    BY <2>1, <2>2, <2>3, <1>f
  <2>4. CASE UNCHANGED row
    <3>1. Verdict'
      BY <2>1, <2>4, <1>a, <1>b DEF Verdict
    <3>2. faults' = 0 => Mirror'
      BY <2>1, <2>4, <1>a, <1>b DEF Mirror, Even
    <3> QED
      BY <1>c, <2>2, <2>4, <3>1, <3>2
  <2> QED
    BY <1>11, <2>3, <2>4 DEF failJob, WriteFails
\* A step that touches neither rows nor counters nor goroutines.
<1>u. ASSUME UNCHANGED <<row, worker, tally>> PROVE Outcome'
  <2>1. Verdict' /\ Ended' /\ (faults' = 0 => Mirror')
    BY <1>u, <1>b DEF Verdict, Ended, Mirror, Began
  <2> QED
    BY <1>c, <1>u, <2>1
<1>12. ASSUME NEW x \in Stopper, NEW j \in Job, StopReads(x, j) PROVE Outcome'
  BY <1>12, <1>u DEF StopReads
<1>13. ASSUME NEW x \in Stopper, stopJob(x) PROVE Outcome'
  BY <1>13, <1>u DEF stopJob
<1>14. ASSUME NEW x \in Stopper, CloseHungRow(x) PROVE Outcome'
  <2>1. UNCHANGED <<worker, tally>> /\ stopper[x].job \in Job
    BY <1>14 DEF CloseHungRow, Typed, TypeOK
  <2>2. CASE SetStatus(stopper[x].job, "failed")
    BY <2>1, <2>2, <1>b, <1>f DEF Ended, Began
  <2>3. CASE UNCHANGED row
    BY <2>1, <2>3, <1>u
  <2> QED
    BY <1>14, <2>2, <2>3 DEF CloseHungRow, WriteFails
<1>15. ASSUME Restart PROVE Outcome'
  <2>1. /\ UNCHANGED tally
        /\ \A j \in Job : worker'[j] = IF worker[j] \in Live THEN "gone" ELSE worker[j]
    BY <1>15, <1>a DEF Restart
  <2>2. \A j \in Job : row'[j] = row[j] \/ (/\ row'[j].status = "failed"
                                            /\ row'[j].succeeded = row[j].succeeded
                                            /\ row'[j].failed = row[j].failed)
    BY <1>15, <1>a DEF Restart, WriteFails
  <2>3. Verdict'
    BY <2>1, <2>2, <1>a, <1>b DEF Verdict, Live
  <2>4. Ended'
    BY <2>1, <1>a, <1>b DEF Ended, Began, Live
  <2>5. faults' = 0 => Mirror'
    BY <2>1, <2>2, <1>a, <1>b DEF Mirror, Even, Live
  <2> QED
    BY <2>2, <2>3, <2>4, <2>5, OutcomeShape DEF Claims
<1>16. ASSUME UNCHANGED vars PROVE Outcome'
  BY <1>16, <1>u DEF vars
<1> QED
  BY <1>1, <1>2, <1>3, <1>4, <1>5, <1>6, <1>7, <1>8, <1>9, <1>10, <1>11, <1>12, <1>13,
     <1>14, <1>15, <1>16 DEF Next, Work, Stop

(***************************************************************************)
(* While every statement works, a closed row tells the truth about the     *)
(* domains (finishJobStopped): "done" is every domain, "partial" is every  *)
(* domain tried, and a stop reads as neither.                              *)
(***************************************************************************)
THEOREM ClosedRowsTellTheTruth == Spec => []StatusTellsOutcome
<1>1. Init => Outcome
  BY DEF Init, Outcome, Verdict, Ended, Mirror, StatusTellsOutcome
<1>2. Outcome => StatusTellsOutcome
  BY DEF Outcome
<1> QED
  BY <1>1, <1>2, OutcomeStep, Typing, PTL DEF Spec

-----------------------------------------------------------------------------
(* What a stop may not do.                                                 *)

(***************************************************************************)
(* Once a job was stopped, no domain of it whose turn had not come is      *)
(* started (the head of the loop asks the context first).                  *)
(***************************************************************************)
THEOREM StoppedJobsStartNothing == Spec => RemainingNeverStarted
<1>1. ASSUME Typed, [Next]_vars, NEW j \in Job, j \in cancelled, worker[j] # "marking"
      PROVE  worker'[j] \notin {"marking", "working"} \/ worker'[j] = worker[j]
  <2>a. worker \in [Job -> Live \cup {"none", "gone"}]
    BY <1>1 DEF Typed, TypeOK
  <2>b. ASSUME NEW k \in Job, NEW from, NEW to, goto(k, from, to),
               to \notin {"marking", "working"} \/ k # j \/ from = "marking"
        PROVE  worker'[j] \notin {"marking", "working"} \/ worker'[j] = worker[j]
    BY <1>1, <2>a, <2>b DEF goto
  <2>1. ASSUME NEW k \in Job, OpenJob(k) \/ Work(k)
        PROVE  worker'[j] \notin {"marking", "working"} \/ worker'[j] = worker[j]
    <3>1. CASE CheckStop(k)
      BY <1>1, <3>1, <2>b DEF CheckStop
    <3>2. CASE BeginDomain(k)
      BY <3>2, <2>b DEF BeginDomain
    <3>3. CASE OpenJob(k) \/ RegisterJob(k) \/ DomainSucceeds(k) \/ DomainFails(k) \/ Panic(k)
      BY <3>3, <2>b DEF OpenJob, RegisterJob, DomainSucceeds, DomainFails, Panic
    <3>4. CASE RecordProgress(k) \/ finishJobStopped(k) \/ Unregister(k) \/ failJob(k)
      BY <3>4, <2>b DEF RecordProgress, finishJobStopped, Unregister, failJob
    <3> QED
      BY <2>1, <3>1, <3>2, <3>3, <3>4 DEF Work
  <2>2. ASSUME Restart
        PROVE  worker'[j] \notin {"marking", "working"} \/ worker'[j] = worker[j]
    BY <2>2 DEF Restart
  <2> QED
    BY <1>1, <2>1, <2>2 DEF Next, Stop, StopReads, stopJob, CloseHungRow, vars
<1>2. Typed /\ [Next]_vars => [\A j \in Job : j \in cancelled /\ worker[j] # "marking"
                  => worker'[j] \notin {"marking", "working"} \/ worker'[j] = worker[j]]_vars
  BY <1>1
<1> QED
  BY <1>2, Typing, PTL DEF Spec, RemainingNeverStarted

(***************************************************************************)
(* The failure that a stop causes is not counted as a failed domain (the   *)
(* loop asks jobCtx.Err() before it counts).                               *)
(***************************************************************************)
THEOREM StopsCountNoFailure == Spec => StopIsNotAFailure
<1>1. ASSUME Typed, [Next]_vars, NEW j \in Job, j \in cancelled
      PROVE  tally'[j].failed = tally[j].failed
  <2>a. tally \in [Job -> [succeeded : Nat, failed : Nat, stopped : BOOLEAN]]
    BY <1>1 DEF Typed, TypeOK
  <2>1. CASE \E k \in Job : CheckStop(k)
    BY <2>1, <2>a DEF CheckStop
  <2>2. CASE \E k \in Job : DomainSucceeds(k)
    BY <2>2, <2>a DEF DomainSucceeds
  <2>3. CASE \E k \in Job : DomainFails(k)
    BY <1>1, <2>3, <2>a DEF DomainFails
  <2>4. CASE UNCHANGED tally
    BY <2>4
  <2> QED
    BY <1>1, <2>1, <2>2, <2>3, <2>4 DEF Next, Work, Stop, vars, OpenJob, RegisterJob, BeginDomain,
       RecordProgress, finishJobStopped, Unregister, Panic, failJob, StopReads, stopJob,
       CloseHungRow, Restart
<1>2. Typed /\ [Next]_vars => [\A j \in Job : j \in cancelled => tally'[j].failed = tally[j].failed]_vars
  BY <1>1
<1> QED
  BY <1>2, Typing, PTL DEF Spec, StopIsNotAFailure

(***************************************************************************)
(* The result of a job whose goroutine is gone is never written again, by  *)
(* a stop request still in flight (StopJob's UPDATE asks for 'running') or *)
(* by a restart.                                                           *)
(***************************************************************************)
THEOREM ResultsAreFinal == Spec => ResultIsFinal
<1>1. ASSUME Typed, [Next]_vars, NEW j \in Job, worker[j] = "gone", row[j].status \in Final
      PROVE  row'[j] = row[j]
  <2>a. /\ row \in [Job -> [status : Status, succeeded : Nat, failed : Nat]]
        /\ row[j].status # "running"
    BY <1>1 DEF Typed, TypeOK, Final
  <2>b. ASSUME NEW k \in Job, NEW s, SetStatus(k, s), k # j
        PROVE  row'[j] = row[j]
    BY <2>a, <2>b DEF SetStatus
  <2>1. ASSUME NEW k \in Job, OpenJob(k) \/ Work(k) PROVE row'[j] = row[j]
    <3>1. CASE OpenJob(k)
      BY <1>1, <2>b, <3>1 DEF OpenJob, goto, WriteFails
    <3>2. CASE RecordProgress(k)
      BY <1>1, <2>a, <3>2 DEF RecordProgress, goto, WriteFails
    <3>3. CASE finishJobStopped(k)
      BY <1>1, <2>b, <3>3 DEF finishJobStopped, goto, WriteFails
    <3>4. CASE failJob(k)
      BY <1>1, <2>b, <3>4 DEF failJob, goto, WriteFails
    <3>5. CASE UNCHANGED row
      BY <3>5
    <3> QED
      BY <2>1, <3>1, <3>2, <3>3, <3>4, <3>5 DEF Work, RegisterJob, CheckStop, BeginDomain,
         DomainSucceeds, DomainFails, Unregister, Panic
  <2>2. ASSUME NEW x \in Stopper, CloseHungRow(x) PROVE row'[j] = row[j]
    <3>1. stopper[x].job \in Job
      BY <1>1, <2>2 DEF CloseHungRow, Typed, TypeOK
    <3> QED
      BY <2>a, <2>b, <2>2, <3>1 DEF CloseHungRow, WriteFails
  <2>3. ASSUME Restart PROVE row'[j] = row[j]
    BY <2>a, <2>3 DEF Restart, WriteFails
  <2> QED
    BY <1>1, <2>1, <2>2, <2>3 DEF Next, Stop, StopReads, stopJob, vars
<1>2. Typed /\ [Next]_vars => [\A j \in Job : worker[j] = "gone" /\ row[j].status \in Final
                                   => row'[j] = row[j]]_vars
  BY <1>1
<1> QED
  BY <1>2, Typing, PTL DEF Spec, ResultIsFinal
=============================================================================
