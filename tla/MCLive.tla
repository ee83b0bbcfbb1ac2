------------------------------- MODULE MCLive -------------------------------
(***************************************************************************)
(* What the panel must bring to an end: the two claims of a backup run and *)
(* the copy of a mailbox.  They share the process and no state, so a       *)
(* behaviour is one of a single part, which "part" names, and leaves the   *)
(* variables of the other alone.                                           *)
(***************************************************************************)
EXTENDS MCBackupOps

CONSTANTS m1, m2, w1, r1, NoMailbox

VARIABLES part, job, nextJob, queue, worker, cancels, told, raced, ask, stranded,
          dbFaults, stops

Mail == INSTANCE MailMigration WITH
    Mailbox <- {m1, m2}, Worker <- {w1}, Request <- {r1}, QueueSize <- 1,
    MaxJobs <- 2, MaxDbFaults <- 1, MaxStops <- 1

mailVars == <<job, nextJob, queue, worker, cancels, told, raced, ask, stranded,
              dbFaults, stops>>
liveVars == <<part, vars, mailVars>>

InBackups == part = "backups" /\ UNCHANGED <<part, mailVars>>
InMail    == part = "mail" /\ UNCHANGED <<part, vars>>

LiveInit == part \in {"backups", "mail"} /\ Init /\ Mail!MailInit

LiveNext == (InBackups /\ Next) \/ (InMail /\ Mail!MailNext)

\* The fairness each part states: FairSpec of BackupOps, MailFairness of MailMigration.
LiveFairness ==
    /\ \A o \in Op : WF_liveVars(InBackups /\ Advance(o))
    /\ WF_liveVars(InMail /\ Mail!WorkerStep(w1))
    /\ WF_liveVars(InMail /\ Mail!RequestStep(r1))

LiveSpec == LiveInit /\ [][LiveNext]_liveVars /\ LiveFairness

\* MailMigration's property of the same name: a job that is active gets closed.
JobSettles == Mail!JobSettles
=============================================================================
