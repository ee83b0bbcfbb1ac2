---------------------------- MODULE BackupStore -----------------------------
(***************************************************************************)
(* Where the copies of a backup are and what its row says of them:         *)
(* the rows of the backups table, the archives under the backup root, the  *)
(* objects at each domain's own destination and at the system-wide one,    *)
(* the two uploads started behind every backup, delete-local, the delete   *)
(* button, retention, the integrity scan and a restart of the panel.       *)
(*                                                                         *)
(* Backup ids are handed out in the order of the INSERTs.  Two different   *)
(* archives are assumed to differ in size and in digest.                   *)
(***************************************************************************)
EXTENDS Naturals, FiniteSets

CONSTANTS
    N,            \* backups ever made: ids 1..N
    Domain,
    DomainOf,     \* the domain of a backup
    File,
    FileOf,       \* its archive's name: system user and a time in seconds
    Retention,    \* newest backups a domain keeps
    DeleteLocal,  \* backup_settings.delete_local
    Blind,        \* whether a destination may fail to tell an object's size
    Deleter,      \* delete requests and retention passes in flight
    System,       \* the system-wide destination
    Nothing,
    MaxScans, MaxFaults, MaxRestarts   \* bounds

Backup == 1..N
Place  == Domain \cup {System}
Route  == {"domain", "global"}
Object == [of : Backup, whole : BOOLEAN]   \* whose archive, and all of it?

ASSUME StoreAssumption ==
    /\ N \in Nat /\ Retention \in Nat \ {0}
    /\ MaxScans \in Nat /\ MaxFaults \in Nat /\ MaxRestarts \in Nat
    /\ DomainOf \in [Backup -> Domain] /\ FileOf \in [Backup -> File]
    /\ System \notin Domain
    /\ Nothing \notin Backup /\ Nothing \notin Object
    /\ DeleteLocal \in BOOLEAN /\ Blind \in BOOLEAN

VARIABLES
    made,      \* how far each backup's run got
    row,       \* its row
    local,     \* which backup's archive is under each name of the backup root
    object,    \* what each destination holds under each name
    upload,    \* where each upload goroutine is
    deleter,   \* where each deletion is, its item, what it has left and has read
    deleting,  \* backups some deletion has read
    scan,      \* where the integrity scan is
    unwritten, \* backups whose row the statement that closes an upload has failed
    scans, faults, restarts

vars == <<made, row, local, object, upload, deleter, deleting, scan, unwritten,
          scans, faults, restarts>>

NoRow  == [at |-> "none", remote |-> "", moved |-> FALSE,
           verification |-> "", sum |-> Nothing]
Listed(b) == row[b].at = "listed"
Idle   == [at |-> "idle", todo |-> {}, item |-> Nothing, seen |-> [b \in Backup |-> ""]]
NoScan == [at |-> "idle", todo |-> {}, item |-> Nothing, read |-> ""]

\* The object a route writes for a backup.
Where(k, b) == <<IF k = "global" THEN System ELSE DomainOf[b], FileOf[b]>>

\* A network call or a statement that fails.
FaultOccurs == faults < MaxFaults /\ faults' = faults + 1
NoFault     == UNCHANGED faults

Init ==
    /\ made = [b \in Backup |-> "none"]
    /\ row = [b \in Backup |-> NoRow]
    /\ local = [f \in File |-> Nothing]
    /\ object = [p \in Place \X File |-> Nothing]
    /\ upload = [k \in Route |-> [b \in Backup |-> "idle"]]
    /\ deleter = [x \in Deleter |-> Idle]
    /\ deleting = {}
    /\ scan = NoScan
    /\ unwritten = {}
    /\ scans = 0 /\ faults = 0 /\ restarts = 0

\* An UPDATE of a row that is gone changes nothing.
Update(b, field, value) ==
    row' = IF Listed(b) THEN [row EXCEPT ![b][field] = value] ELSE row

uploadGoes(k, b, from, to) ==
    /\ upload[k][b] = from
    /\ upload' = [upload EXCEPT ![k][b] = to]

-----------------------------------------------------------------------------
(* A run's last steps: the archive, its digest, the row, the two uploads.  *)

WriteArchive(b) ==
    /\ made[b] = "none"
    /\ \A c \in 1..(b - 1) : made[c] # "none"
    /\ made' = [made EXCEPT ![b] = "written"]
    /\ local' = [local EXCEPT ![FileOf[b]] = b]
    /\ UNCHANGED <<row, object, upload, deleter, deleting, scan, unwritten,
                   scans, faults, restarts>>

\* fileSHA256 of what is under the name now, the INSERT, and the two calls
\* that start a goroutine each.
InsertRow(b) ==
    /\ made[b] = "written"
    /\ \A c \in 1..(b - 1) : made[c] # "written"
    /\ made' = [made EXCEPT ![b] = "inserted"]
    /\ row' = [row EXCEPT ![b] =
                 [at |-> "listed", remote |-> "", moved |-> FALSE,
                  verification |-> IF local[FileOf[b]] = Nothing THEN "" ELSE "ok",
                  sum |-> local[FileOf[b]]]]
    /\ upload' = [k \in Route |-> [upload[k] EXCEPT ![b] = "started"]]
    /\ UNCHANGED <<local, object, deleter, deleting, scan, unwritten,
                   scans, faults, restarts>>

-----------------------------------------------------------------------------
(* pushToDestinationAsync and pushGlobalAsync.                             *)

\* The destination is read: there is none, it is off, or the upload goes on,
\* whether or not the row could be told.
BeginUpload(k, b) ==
    /\ \/ /\ uploadGoes(k, b, "started", "idle")
          /\ UNCHANGED row
          /\ NoFault
       \/ /\ uploadGoes(k, b, "started", "opening")
          /\ IF k = "domain" THEN Update(b, "remote", "uploading") ELSE UNCHANGED row
          /\ NoFault
       \/ /\ uploadGoes(k, b, "started", "opening")
          /\ k = "domain" /\ FaultOccurs /\ UNCHANGED row
    /\ UNCHANGED <<made, local, object, deleter, deleting, scan, unwritten,
                   scans, restarts>>

\* Where an upload that did not work goes: the domain's own is recorded on
\* the row, the system-wide one on the settings row and in an alert.
Refused(k) == IF k = "domain" THEN "failing" ELSE "idle"

\* uploadToRemote opens the archive and starts to write the object.
OpenArchive(k, b) ==
    /\ \/ /\ local[FileOf[b]] # Nothing
          /\ uploadGoes(k, b, "opening", "sending")
          /\ object' = [object EXCEPT ![Where(k, b)] =
                          [of |-> local[FileOf[b]], whole |-> FALSE]]
          /\ NoFault
       \/ /\ local[FileOf[b]] = Nothing
          /\ uploadGoes(k, b, "opening", Refused(k))
          /\ NoFault /\ UNCHANGED object
       \/ /\ uploadGoes(k, b, "opening", Refused(k))
          /\ FaultOccurs /\ UNCHANGED object
    /\ UNCHANGED <<made, row, local, deleter, deleting, scan, unwritten, scans, restarts>>

\* The transfer ends: whole, broken off with an error, or short and yet
\* reported complete.
Send(k, b) ==
    /\ \/ /\ uploadGoes(k, b, "sending", "sent")
          /\ object' = IF object[Where(k, b)] = Nothing THEN object
                       ELSE [object EXCEPT ![Where(k, b)] = [of |-> @.of, whole |-> TRUE]]
          /\ NoFault
       \/ /\ \/ uploadGoes(k, b, "sending", "sent")
             \/ uploadGoes(k, b, "sending", Refused(k))
          /\ FaultOccurs /\ UNCHANGED object
    /\ UNCHANGED <<made, row, local, deleter, deleting, scan, unwritten, scans, restarts>>

Measurable(k, b) == object[Where(k, b)] # Nothing

\* uploadSizeMismatch, with the object's size read: both sizes known, and
\* different.
SizesDiffer(k, b) ==
    /\ local[FileOf[b]] # Nothing
    /\ \/ object[Where(k, b)].of # local[FileOf[b]]
       \/ ~object[Where(k, b)].whole

\* A slip: the local copy is removed although the size was never read.
VerifyRemovesBlind(k, b) ==
    /\ \/ /\ Measurable(k, b) /\ SizesDiffer(k, b)
          /\ uploadGoes(k, b, "sent", Refused(k))
       \/ /\ Blind \/ ~(Measurable(k, b) /\ SizesDiffer(k, b))
          /\ uploadGoes(k, b, "sent", IF k = "domain" THEN "recording"
                                      ELSE IF DeleteLocal THEN "removing" ELSE "idle")
    /\ UNCHANGED <<made, row, local, object, deleter, deleting, scan, unwritten,
                   scans, faults, restarts>>

\* A slip: what the transport reports is not checked at all.
VerifyTrusts(k, b) ==
    /\ uploadGoes(k, b, "sent", IF k = "domain" THEN "recording"
                                ELSE IF DeleteLocal THEN "removing" ELSE "idle")
    /\ UNCHANGED <<made, row, local, object, deleter, deleting, scan, unwritten,
                   scans, faults, restarts>>

\* The check behind an upload.  A size that cannot be read fails nothing, and
\* keeps the local copy.
Verify(k, b) ==
    /\ \/ /\ Measurable(k, b) /\ SizesDiffer(k, b)
          /\ uploadGoes(k, b, "sent", Refused(k))
       \/ /\ Measurable(k, b) /\ ~SizesDiffer(k, b)
          /\ uploadGoes(k, b, "sent", IF k = "domain" THEN "recording"
                                      ELSE IF DeleteLocal THEN "removing" ELSE "idle")
       \/ /\ ~Measurable(k, b) \/ Blind
          /\ uploadGoes(k, b, "sent", IF k = "domain" THEN "recording" ELSE "idle")
    /\ UNCHANGED <<made, row, local, object, deleter, deleting, scan, unwritten,
                   scans, faults, restarts>>

\* The UPDATE that ends an upload, or its failure, which nothing reports.
Conclude(b, from, status) ==
    /\ uploadGoes("domain", b, from, "idle")
    /\ \/ Update(b, "remote", status) /\ NoFault /\ UNCHANGED unwritten
       \/ FaultOccurs /\ unwritten' = unwritten \cup {b} /\ UNCHANGED row
    /\ UNCHANGED <<made, local, object, deleter, deleting, scan, scans, restarts>>

\* A slip: an upload that failed leaves the row as it is.
failUploadSilently(b) ==
    /\ uploadGoes("domain", b, "failing", "idle")
    /\ UNCHANGED <<made, row, local, object, deleter, deleting, scan, unwritten,
                   scans, faults, restarts>>

failDestinationUpload(b)   == Conclude(b, "failing", "failed")
recordDestinationUpload(b) == Conclude(b, "recording", "successful")

\* removeOffSiteLocalCopy: os.Remove, and then the mark on the row.
RemoveOffSiteLocalCopy(b) ==
    /\ uploadGoes("global", b, "removing",
                  IF local[FileOf[b]] = Nothing THEN "idle" ELSE "marking")
    /\ local' = [local EXCEPT ![FileOf[b]] = Nothing]
    /\ UNCHANGED <<made, row, object, deleter, deleting, scan, unwritten,
                   scans, faults, restarts>>

\* A slip: the move is written to remote_status, which has no such value.
MarkMovedAsStatus(b) ==
    /\ uploadGoes("global", b, "marking", "idle")
    /\ Update(b, "remote", "off-site")
    /\ UNCHANGED <<made, local, object, deleter, deleting, scan, unwritten,
                   scans, faults, restarts>>

MarkMoved(b) ==
    /\ uploadGoes("global", b, "marking", "idle")
    /\ \/ Update(b, "moved", TRUE) /\ NoFault
       \/ FaultOccurs /\ UNCHANGED row
    /\ UNCHANGED <<made, local, object, deleter, deleting, scan, unwritten, scans, restarts>>

-----------------------------------------------------------------------------
(* Delete, pruneManualBackups and pruneOld.                                *)

BeginRemoval(x, S) ==
    /\ deleter[x].at = "idle"
    /\ S # {}
    /\ deleter' = [deleter EXCEPT ![x] =
         [at |-> "local", todo |-> S, item |-> Nothing,
          seen |-> [b \in Backup |-> IF b \in S THEN row[b].remote ELSE ""]]]
    /\ deleting' = deleting \cup S
    /\ UNCHANGED <<made, row, local, object, upload, scan, unwritten,
                   scans, faults, restarts>>

Delete(x, b) == Listed(b) /\ BeginRemoval(x, {b})

Rows(d) == {b \in Backup : Listed(b) /\ DomainOf[b] = d}

\* Every row of the domain but the newest ones.  The rows of a pass are taken
\* oldest first by one of the two passes and newest first by the other.
prune(x, d) ==
    BeginRemoval(x, {b \in Rows(d) : Cardinality({c \in Rows(d) : c >= b}) > Retention})

RemoveArchive(x) ==
    /\ deleter[x].at = "local"
    /\ \E b \in deleter[x].todo :
         /\ local' = [local EXCEPT ![FileOf[b]] = Nothing]
         /\ deleter' = [deleter EXCEPT ![x].at = "remote", ![x].item = b, ![x].todo = @ \ {b}]
    /\ UNCHANGED <<made, row, object, upload, deleting, scan, unwritten,
                   scans, faults, restarts>>

\* removeRemoteCopy, by the status that was read before.  The system-wide
\* copy is left alone.
removeRemoteCopy(x) ==
    /\ deleter[x].at = "remote"
    /\ LET b == deleter[x].item
       IN  IF deleter[x].seen[b] = "successful"
           THEN \/ /\ object' = [object EXCEPT ![Where("domain", b)] = Nothing]
                   /\ NoFault
                \/ FaultOccurs /\ UNCHANGED object
           ELSE NoFault /\ UNCHANGED object
    /\ deleter' = [deleter EXCEPT ![x].at = "row"]
    /\ UNCHANGED <<made, row, local, upload, deleting, scan, unwritten, scans, restarts>>

DeleteRow(x) ==
    /\ deleter[x].at = "row"
    /\ \/ /\ row' = [row EXCEPT ![deleter[x].item] = [NoRow EXCEPT !.at = "deleted"]]
          /\ NoFault
       \/ FaultOccurs /\ UNCHANGED row
    /\ deleter' = [deleter EXCEPT ![x] =
         IF @.todo = {} THEN Idle ELSE [@ EXCEPT !.at = "local", !.item = Nothing]]
    /\ UNCHANGED <<made, local, object, upload, deleting, scan, unwritten, scans, restarts>>

-----------------------------------------------------------------------------
(* verifyBackupIntegrity.                                                  *)

\* The newest row with a digest, of each domain.
integrityCheckList ==
    {b \in Backup :
        /\ Listed(b) /\ row[b].sum # Nothing
        /\ \A c \in Rows(DomainOf[b]) : row[c].sum # Nothing => c <= b}

StartScan ==
    /\ scan.at = "idle" /\ scans < MaxScans
    /\ integrityCheckList # {}
    /\ scan' = [NoScan EXCEPT !.at = "hash", !.todo = integrityCheckList]
    /\ scans' = scans + 1
    /\ UNCHANGED <<made, row, local, object, upload, deleter, deleting, unwritten,
                   faults, restarts>>

\* fileSHA256: no file, the recorded digest, or another.  The recorded one was
\* read with the list.
HashArchive ==
    /\ scan.at = "hash"
    /\ \E b \in scan.todo :
         scan' = [at |-> "judge", todo |-> scan.todo \ {b}, item |-> b,
                  read |-> IF local[FileOf[b]] = Nothing THEN "absent"
                           ELSE IF Listed(b) /\ local[FileOf[b]] # row[b].sum THEN "differs"
                           ELSE "matches"]
    /\ UNCHANGED <<made, row, local, object, upload, deleter, deleting, unwritten,
                   scans, faults, restarts>>

\* backupMovedOffSite: any row of that file name carries the mark.
movedOffSite(b) == \E c \in Backup : Listed(c) /\ FileOf[c] = FileOf[b] /\ row[c].moved

classifyIntegrity(b) ==
    IF scan.read = "matches" THEN "ok"
    ELSE IF scan.read = "absent" /\ movedOffSite(b) THEN "remote"
    ELSE "corrupt"

recordIntegrity ==
    /\ scan.at = "judge"
    /\ LET b == scan.item
       IN  /\ IF classifyIntegrity(b) = "remote" /\ row[b].verification = "corrupt"
              THEN UNCHANGED row
              ELSE Update(b, "verification", classifyIntegrity(b))
           /\ scan' = IF scan.todo = {} THEN NoScan
                      ELSE [NoScan EXCEPT !.at = "hash", !.todo = scan.todo]
    /\ UNCHANGED <<made, local, object, upload, deleter, deleting, unwritten,
                   scans, faults, restarts>>

-----------------------------------------------------------------------------
Interrupted == {b \in Backup : row[b].remote = "uploading"}

\* A slip: the rows of interrupted uploads are left as they are.
HealsNothing == UNCHANGED <<row, faults>> /\ unwritten' = {}

\* HealRemoteUploads, one UPDATE: every row that says uploading is closed, or
\* the statement fails, which is logged, and they all stay as they are until
\* another start.
HealRemoteUploads ==
    \/ /\ row' = [b \in Backup |-> IF b \in Interrupted
                                   THEN [row[b] EXCEPT !.remote = "failed"] ELSE row[b]]
       /\ unwritten' = {}
       /\ NoFault
    \/ /\ FaultOccurs /\ UNCHANGED row
       /\ unwritten' = unwritten \cup Interrupted

\* The process ends and comes back: every goroutine is gone, and the rows of
\* interrupted uploads are healed before the panel listens or schedules anything.
Restart ==
    /\ restarts < MaxRestarts
    /\ restarts' = restarts + 1
    /\ made' = [b \in Backup |-> IF made[b] = "written" THEN "lost" ELSE made[b]]
    /\ HealRemoteUploads
    /\ upload' = [k \in Route |-> [b \in Backup |-> "idle"]]
    /\ deleter' = [x \in Deleter |-> Idle]
    /\ scan' = NoScan
    /\ UNCHANGED <<local, object, deleting, scans>>

UploadStep(b) ==
    \/ \E k \in Route : \/ BeginUpload(k, b) \/ OpenArchive(k, b)
                        \/ Send(k, b) \/ Verify(k, b)
    \/ failDestinationUpload(b)
    \/ recordDestinationUpload(b)
    \/ RemoveOffSiteLocalCopy(b)
    \/ MarkMoved(b)

Next ==
    \/ \E b \in Backup : WriteArchive(b) \/ InsertRow(b) \/ UploadStep(b)
    \/ \E x \in Deleter : \/ \E b \in Backup : Delete(x, b)
                          \/ \E d \in Domain : prune(x, d)
                          \/ RemoveArchive(x) \/ removeRemoteCopy(x) \/ DeleteRow(x)
    \/ StartScan \/ HashArchive \/ recordIntegrity
    \/ Restart

Spec == Init /\ [][Next]_vars

\* Every command of an upload runs under a deadline of thirty minutes, so an
\* upload goroutine never stays where it is.
FairSpec == Spec /\ \A b \in Backup : WF_vars(UploadStep(b))

-----------------------------------------------------------------------------
Status  == {"", "uploading", "successful", "failed"}
Row     == [at : {"none", "listed", "deleted"}, remote : Status, moved : BOOLEAN,
            verification : {"", "ok", "remote", "corrupt"}, sum : Backup \cup {Nothing}]
Removal == [at : {"idle", "local", "remote", "row"}, todo : SUBSET Backup,
            item : Backup \cup {Nothing}, seen : [Backup -> Status]]
Scan    == [at : {"idle", "hash", "judge"}, todo : SUBSET Backup,
            item : Backup \cup {Nothing}, read : {"", "absent", "matches", "differs"}]
Stage   == {"idle", "started", "opening", "sending", "sent",
            "failing", "recording", "removing", "marking"}

TypeOK ==
    /\ made \in [Backup -> {"none", "written", "inserted", "lost"}]
    /\ row \in [Backup -> Row]
    /\ local \in [File -> Backup \cup {Nothing}]
    /\ object \in [Place \X File -> Object \cup {Nothing}]
    /\ upload \in [Route -> [Backup -> Stage]]
    /\ deleter \in [Deleter -> Removal]
    /\ deleting \subseteq Backup
    /\ scan \in Scan
    /\ unwritten \subseteq Backup
    /\ scans \in 0..MaxScans /\ faults \in 0..MaxFaults /\ restarts \in 0..MaxRestarts

Whole(k, b) == object[Where(k, b)] = [of |-> b, whole |-> TRUE]

\* A backup that is listed and that nobody asked to delete still exists, whole,
\* on the disk or at a destination: delete-local (pushGlobalAsync) never takes
\* the last copy, whatever the destination did to the transfer.
LastCopySurvives ==
    \A b \in Backup : Listed(b) /\ b \notin deleting =>
        local[FileOf[b]] = b \/ \E k \in Route : Whole(k, b)

\* 'uploading' means that a goroutine is at it, across restarts, unless a
\* statement that would have closed the row failed: the upload's own, or the
\* one of the last start (HealRemoteUploads).
UploadingHasOwner ==
    \A b \in Backup : row[b].remote = "uploading" =>
        upload["domain"][b] # "idle" \/ b \in unwritten

\* 'successful' means that the domain's destination got the whole archive
\* (pushToDestinationAsync: "Verify the object arrived whole").
SuccessfulIsWhole ==
    \A b \in Backup : Listed(b) /\ row[b].remote = "successful" /\ b \notin deleting =>
        Whole("domain", b)

\* The upload to the domain's own destination fails for a reason of its own,
\* never because the system-wide one went first (backupOneDomain: "the two
\* uploads are independent").
UploadsIndependent ==
    [][\A b \in Backup \ deleting :
         upload["domain"][b] = "opening" /\ upload'["domain"][b] = "failing"
            => faults' > faults]_vars

\* Once the deletion of a backup is over and its uploads have ended, the
\* domain's destination holds no object of it (removeRemoteCopy).
DeletedLeavesNothing ==
    \A b \in Backup :
        row[b].at = "deleted" /\ upload["domain"][b] = "idle" =>
            object[Where("domain", b)] = Nothing

\* A backup whose only copy is off-site by design is never called corrupt
\* (classifyIntegrity).
OffSiteIsNotCorrupt ==
    \A b \in Backup : Listed(b) /\ row[b].verification = "corrupt" =>
        b \in deleting \/ ~Whole("global", b)

\* No bit flips in this model, so no archive differs from its digest
\* (verifyBackupIntegrity: "a mismatch is silent bit-rot").
MismatchIsBitRot == scan.read # "differs"

\* An upload that was shown as running ends, in the row too, unless a statement
\* that would have closed the row fails, the upload's own or a start's.
UploadSettles ==
    \A b \in Backup :
        row[b].remote = "uploading" ~> row[b].remote # "uploading" \/ b \in unwritten
=============================================================================
