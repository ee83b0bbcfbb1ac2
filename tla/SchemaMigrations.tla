-------------------------- MODULE SchemaMigrations --------------------------
(***************************************************************************)
(* The life of one migration file (internal/dbmigrate, migrate.go).  Each  *)
(* start of the panel runs the statements that have not run, one after the *)
(* other and outside any transaction.  A statement that fails leaves a row *)
(* with how far the file came and a checksum of what ran, and ends the     *)
(* start; the operator may repair the file before the next one.            *)
(*                                                                         *)
(* A checksum is the sequence of statements it digests.  A progress row of *)
(* no statements is no row.  Legacy rows without a checksum are left out.  *)
(***************************************************************************)
EXTENDS SequencesExt

CONSTANTS
    Statements,                                  \* of the file as it was shipped
    MaxEdits, MaxSqlFaults, MaxRunnerStops       \* bounds

MigrationsAssumption == {Statements, MaxEdits, MaxSqlFaults, MaxRunnerStops} \subseteq Nat

VARIABLES
    file,       \* the statements in the directory
    ran,        \* the statements that committed, in their order
    progress,   \* schema_migration_progress: the statements its row vouches for
    applied,    \* schema_migrations: the checksum, or NotApplied
    runner,     \* where the start of the panel is
    body, nth,  \* what it read, and the statement it is at
    unrecorded, \* it ended with a committed statement that no row knows of
    edits, sqlFaults, runnerStops

schemaVars == <<file, ran, progress, applied, runner, body, nth, unrecorded,
          edits, sqlFaults, runnerStops>>

NotApplied == <<0>>

SchemaInit ==
    /\ file = [i \in 1..Statements |-> i]
    /\ ran = <<>> /\ progress = <<>> /\ applied = NotApplied
    /\ runner = "down" /\ body = <<>> /\ nth = 0
    /\ unrecorded = FALSE
    /\ edits = 0 /\ sqlFaults = 0 /\ runnerStops = 0

SqlRuns  == UNCHANGED sqlFaults
SqlFails == sqlFaults < MaxSqlFaults /\ sqlFaults' = sqlFaults + 1
Down ==
    /\ runner' = "down"
    /\ unrecorded' = (unrecorded \/ (applied' = NotApplied /\ Len(ran) > Len(progress')))

\* A slip: the row is believed whatever the file has become.
ResumableByLength == Len(progress) <= Len(file)

\* resumePoint, on the prefix the row vouches for.
Resumable == Len(progress) <= Len(file) /\ progress = SubSeq(file, 1, Len(progress))

\* reconcileApplied and resumePoint.  A file that changed after it was applied,
\* or under its progress row, ends the start.
Start ==
    /\ runner = "down"
    /\ body' = file
    /\ \/ /\ applied = file
          /\ runner' = "up" /\ nth' = 0
       \/ /\ applied = NotApplied /\ Resumable
          /\ runner' = "execute" /\ nth' = Len(progress) + 1
    /\ UNCHANGED <<file, ran, progress, applied, unrecorded, edits, sqlFaults, runnerStops>>

\* A statement that committed before may fail for it, or commit again.  One may
\* commit while its answer is lost with the connection.
Execute ==
    /\ runner = "execute" /\ nth <= Len(body)
    /\ \/ /\ SqlRuns /\ ran' = Append(ran, body[nth])
          /\ nth' = nth + 1 /\ UNCHANGED runner
       \/ /\ IF Contains(ran, body[nth]) THEN SqlRuns ELSE SqlFails
          /\ runner' = "record" /\ UNCHANGED <<ran, nth>>
       \/ SqlFails /\ ran' = Append(ran, body[nth]) /\ runner' = "record" /\ UNCHANGED nth
    /\ UNCHANGED <<file, progress, applied, body, unrecorded, edits, runnerStops>>

\* A slip: the row counts the statement that failed.
recordProgressPastFailure ==
    /\ runner = "record"
    /\ \/ SqlRuns /\ progress' = SubSeq(body, 1, nth)
       \/ SqlFails /\ UNCHANGED progress
    /\ UNCHANGED <<file, ran, applied, body, nth, edits, runnerStops>>
    /\ Down

recordProgress ==
    /\ runner = "record"
    /\ \/ SqlRuns /\ progress' = SubSeq(body, 1, nth - 1)
       \/ SqlFails /\ UNCHANGED progress
    /\ UNCHANGED <<file, ran, applied, body, nth, edits, runnerStops>>
    /\ Down

\* finish: the file is applied, then its progress row goes.  No progress is
\* recorded when the first of the two fails.
FinishInsert ==
    /\ runner = "execute" /\ nth > Len(body)
    /\ \/ SqlRuns /\ applied' = body /\ runner' = "clear" /\ UNCHANGED <<progress, unrecorded>>
       \/ SqlFails /\ applied' \in {applied, body} /\ UNCHANGED progress /\ Down
    /\ UNCHANGED <<file, ran, body, nth, edits, runnerStops>>

FinishDelete ==
    /\ runner = "clear" /\ UNCHANGED applied
    /\ \/ SqlRuns /\ progress' = <<>> /\ runner' = "up" /\ UNCHANGED unrecorded
       \/ SqlFails /\ UNCHANGED progress /\ Down
    /\ UNCHANGED <<file, ran, body, nth, edits, runnerStops>>

\* The panel is killed, or restarts once it is up.
RunnerStops ==
    /\ runner # "down" /\ runnerStops < MaxRunnerStops
    /\ runnerStops' = runnerStops + 1
    /\ UNCHANGED <<file, ran, progress, applied, body, nth, edits, sqlFaults>>
    /\ Down

\* The operator, or an update, replaces or takes out a statement.
Edit ==
    /\ edits < MaxEdits /\ edits' = edits + 1
    /\ \E i \in DOMAIN file :
           file' \in {[file EXCEPT ![i] = Statements + edits'], RemoveAt(file, i)}
    /\ UNCHANGED <<ran, progress, applied, runner, body, nth, unrecorded, sqlFaults, runnerStops>>

SchemaNext == Start \/ Execute \/ recordProgress \/ FinishInsert \/ FinishDelete \/ RunnerStops \/ Edit

SchemaSpec == SchemaInit /\ [][SchemaNext]_schemaVars

-----------------------------------------------------------------------------
\* The types of the variables.
SchemaTypeOK ==
    LET Statement == 1..Statements + MaxEdits
        Body      == UNION {[1..n -> Statement] : n \in 0..Statements}
    IN  /\ {file, progress, body} \subseteq Body /\ applied \in Body \cup {NotApplied}
        /\ \A i \in DOMAIN ran : ran[i] \in Statement
        /\ runner \in {"down", "execute", "record", "clear", "up"} /\ nth \in 0..Statements + 1
        /\ unrecorded \in BOOLEAN
        /\ edits \in 0..MaxEdits /\ sqlFaults \in 0..MaxSqlFaults /\ runnerStops \in 0..MaxRunnerStops

(***************************************************************************)
(* A file recorded as applied is the file that ran, each statement once    *)
(* and in its order ("applies the numbered SQL files ... exactly once      *)
(* each, and resumes a file that failed part way through"), over failures, *)
(* repairs and restarts; unless a start ended with a committed statement   *)
(* no row knows of: the panel was killed, a row could not be written, or   *)
(* an answer was lost.                                                     *)
(***************************************************************************)
AppliedIsWhatRan == applied # NotApplied /\ ~unrecorded => ran = applied

(***************************************************************************)
(* A statement runs after the statements that precede it in its own file   *)
(* (prefixChecksum: a repair that rewrites committed statements "is        *)
(* refused, which is the case that would join the head of one file to the  *)
(* tail of another"), with the same exception.                             *)
(***************************************************************************)
OwnHead == ran' # ran /\ ~unrecorded => ran = SubSeq(body, 1, nth - 1)

TailFollowsItsHead == [][OwnHead]_schemaVars
=============================================================================
