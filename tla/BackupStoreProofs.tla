------------------------- MODULE BackupStoreProofs -------------------------
(***************************************************************************)
(* What the rows and the copies of backups keep to, for any number of      *)
(* backups, domains, deletions, faults and restarts.                       *)
(***************************************************************************)
EXTENDS BackupStore, TLAPS

\* The variables start within their types.
LEMMA TypeInit == Init => TypeOK
<1> SUFFICES ASSUME Init PROVE TypeOK
  OBVIOUS
<1> USE StoreAssumption DEF Init
<1>1. row \in [Backup -> Row]
  BY DEF Row, Status, NoRow
<1>2. deleter \in [Deleter -> Removal]
  BY DEF Removal, Status, Idle
<1>3. scan \in Scan
  BY DEF Scan, NoScan
<1>4. upload \in [Route -> [Backup -> Stage]] /\ object \in [Place \X File -> Object \cup {Nothing}]
  BY DEF Stage
<1>5. scans \in 0..MaxScans /\ faults \in 0..MaxFaults /\ restarts \in 0..MaxRestarts
  OBVIOUS
<1> QED
  BY <1>1, <1>2, <1>3, <1>4, <1>5 DEF TypeOK

\* Every route names an object of some place.
LEMMA WhereTyped == \A k \in Route, b \in Backup : Where(k, b) \in Place \X File
BY StoreAssumption DEF Where, Place, Route

\* An UPDATE with a value of the field's type leaves the rows well typed.
LEMMA UpdateRemoteTyped ==
    ASSUME row \in [Backup -> Row], NEW b \in Backup, NEW v \in Status, Update(b, "remote", v)
    PROVE  row' \in [Backup -> Row]
<1>1. [row[b] EXCEPT !.remote = v] \in Row BY DEF Row
<1> HIDE DEF Row
<1>2. row' = row \/ row' = [row EXCEPT ![b] = [row[b] EXCEPT !.remote = v]] BY DEF Update
<1> QED BY <1>1, <1>2

\* The same for the mark of a moved archive.
LEMMA UpdateMovedTyped ==
    ASSUME row \in [Backup -> Row], NEW b \in Backup, Update(b, "moved", TRUE)
    PROVE  row' \in [Backup -> Row]
BY DEF Update, Row

\* The same for what the integrity scan records.
LEMMA UpdateVerificationTyped ==
    ASSUME row \in [Backup -> Row], NEW b,
           NEW v \in {"", "ok", "remote", "corrupt"}, Update(b, "verification", v)
    PROVE  row' \in [Backup -> Row]
<1>1. CASE b \notin Backup
  BY <1>1 DEF Update
<1>2. CASE b \in Backup
  BY <1>2 DEF Update, Row
<1> QED
  BY <1>1, <1>2

\* A row that the start-up heal closes is a row.
LEMMA HealedTyped ==
    \A r \in Row : [r EXCEPT !.remote = "failed"] \in Row
BY DEF Row, Status

\* A goroutine that moves on stays among the stages of an upload.
LEMMA UploadTyped ==
    ASSUME upload \in [Route -> [Backup -> Stage]], NEW k \in Route, NEW b \in Backup,
           NEW from, NEW to \in Stage, uploadGoes(k, b, from, to)
    PROVE  upload' \in [Route -> [Backup -> Stage]]
BY DEF uploadGoes

\* Every step leaves the variables within their types.
LEMMA TypeStep == TypeOK /\ [Next]_vars => TypeOK'
<1> SUFFICES ASSUME TypeOK, [Next]_vars PROVE TypeOK'
  OBVIOUS
<1> USE StoreAssumption
<1>1. ASSUME NEW b \in Backup, WriteArchive(b) PROVE TypeOK'
  BY <1>1 DEF WriteArchive, TypeOK
<1>2. ASSUME NEW b \in Backup, InsertRow(b) PROVE TypeOK'
  BY <1>2 DEF InsertRow, TypeOK, Row, Status, Stage, Route
<1>3. ASSUME NEW b \in Backup, NEW k \in Route, BeginUpload(k, b) PROVE TypeOK'
  <2>1. upload' \in [Route -> [Backup -> Stage]]
    BY <1>3, UploadTyped DEF BeginUpload, TypeOK, Stage
  <2>2. row' \in [Backup -> Row]
    BY <1>3, UpdateRemoteTyped DEF BeginUpload, TypeOK, Status
  <2>3. faults' \in 0..MaxFaults
    BY <1>3 DEF BeginUpload, TypeOK, NoFault, FaultOccurs
  <2> QED
    BY <1>3, <2>1, <2>2, <2>3 DEF BeginUpload, TypeOK
<1>4. ASSUME NEW b \in Backup, NEW k \in Route, OpenArchive(k, b) PROVE TypeOK'
  <2>1. upload' \in [Route -> [Backup -> Stage]]
    BY <1>4, UploadTyped DEF OpenArchive, TypeOK, Stage, Refused
  <2>2. object' \in [Place \X File -> Object \cup {Nothing}]
    <3>1. CASE UNCHANGED object
      BY <3>1 DEF TypeOK
    <3>2. CASE local[FileOf[b]] # Nothing /\ ~UNCHANGED object
      <4>1. local[FileOf[b]] \in Backup
        BY <3>2 DEF TypeOK
      <4>2. [of |-> local[FileOf[b]], whole |-> FALSE] \in Object
        BY <4>1 DEF Object
      <4> QED
        BY <1>4, <3>2, <4>2 DEF OpenArchive, TypeOK
    <3> QED
      BY <1>4, <3>1, <3>2 DEF OpenArchive
  <2>3. faults' \in 0..MaxFaults
    BY <1>4 DEF OpenArchive, TypeOK, NoFault, FaultOccurs
  <2> QED
    BY <1>4, <2>1, <2>2, <2>3 DEF OpenArchive, TypeOK
<1>5. ASSUME NEW b \in Backup, NEW k \in Route, Send(k, b) PROVE TypeOK'
  <2>1. upload' \in [Route -> [Backup -> Stage]]
    BY <1>5, UploadTyped DEF Send, TypeOK, Stage, Refused
  <2>2. object' \in [Place \X File -> Object \cup {Nothing}]
    <3>1. CASE object[Where(k, b)] = Nothing \/ UNCHANGED object
      BY <1>5, <3>1 DEF Send, TypeOK
    <3>2. CASE object[Where(k, b)] # Nothing
      <4>1. object[Where(k, b)] \in Object
        BY <3>2, WhereTyped DEF TypeOK
      <4>2. [of |-> object[Where(k, b)].of, whole |-> TRUE] \in Object
        BY <4>1 DEF Object
      <4> QED
        BY <1>5, <3>2, <4>2 DEF Send, TypeOK
    <3> QED
      BY <3>1, <3>2
  <2>3. faults' \in 0..MaxFaults
    BY <1>5 DEF Send, TypeOK, NoFault, FaultOccurs
  <2> QED
    BY <1>5, <2>1, <2>2, <2>3 DEF Send, TypeOK
<1>6. ASSUME NEW b \in Backup, NEW k \in Route, Verify(k, b) PROVE TypeOK'
  BY <1>6, UploadTyped DEF Verify, TypeOK, Stage, Refused
<1>7. ASSUME NEW b \in Backup, NEW from, NEW v \in Status, Conclude(b, from, v) PROVE TypeOK'
  BY <1>7, UploadTyped, UpdateRemoteTyped DEF Conclude, TypeOK, Stage, NoFault, FaultOccurs, Route
<1>8. ASSUME NEW b \in Backup, RemoveOffSiteLocalCopy(b) PROVE TypeOK'
  BY <1>8, UploadTyped DEF RemoveOffSiteLocalCopy, TypeOK, Stage, Route
<1>9. ASSUME NEW b \in Backup, MarkMoved(b) PROVE TypeOK'
  <2>1. upload' \in [Route -> [Backup -> Stage]]
    BY <1>9, UploadTyped DEF MarkMoved, TypeOK, Stage, Route
  <2>2. row' \in [Backup -> Row]
    BY <1>9, UpdateMovedTyped DEF MarkMoved, TypeOK
  <2>3. faults' \in 0..MaxFaults
    BY <1>9 DEF MarkMoved, Update, TypeOK, NoFault, FaultOccurs
  <2> QED
    BY <1>9, <2>1, <2>2, <2>3 DEF MarkMoved, TypeOK
<1>10. ASSUME NEW x \in Deleter, NEW S \in SUBSET Backup, BeginRemoval(x, S) PROVE TypeOK'
  <2>1. \A b \in Backup : row[b].remote \in Status /\ "" \in Status
    BY DEF TypeOK, Row, Status
  <2>2. [at |-> "local", todo |-> S, item |-> Nothing,
         seen |-> [b \in Backup |-> IF b \in S THEN row[b].remote ELSE ""]] \in Removal
    BY <2>1 DEF Removal
  <2>3. deleter' \in [Deleter -> Removal]
    BY <1>10, <2>2 DEF BeginRemoval, TypeOK
  <2> QED
    BY <1>10, <2>3 DEF BeginRemoval, TypeOK
<1>11. ASSUME NEW x \in Deleter, RemoveArchive(x) PROVE TypeOK'
  <2>1. PICK b \in deleter[x].todo :
             deleter' = [deleter EXCEPT ![x].at = "remote", ![x].item = b, ![x].todo = @ \ {b}]
    BY <1>11 DEF RemoveArchive
  <2>2. b \in Backup /\ deleter[x].todo \ {b} \in SUBSET Backup
    BY DEF TypeOK, Removal
  <2>3. deleter' \in [Deleter -> Removal]
    BY <2>1, <2>2 DEF TypeOK, Removal
  <2> QED
    BY <1>11, <2>1, <2>3 DEF RemoveArchive, TypeOK
<1>12. ASSUME NEW x \in Deleter, removeRemoteCopy(x) PROVE TypeOK'
  <2>1. deleter' \in [Deleter -> Removal]
    BY <1>12 DEF removeRemoteCopy, TypeOK, Removal
  <2>2. object' \in [Place \X File -> Object \cup {Nothing}]
    BY <1>12 DEF removeRemoteCopy, TypeOK
  <2>3. faults' \in 0..MaxFaults
    BY <1>12 DEF removeRemoteCopy, TypeOK, NoFault, FaultOccurs
  <2> QED
    BY <1>12, <2>1, <2>2, <2>3 DEF removeRemoteCopy, TypeOK
<1>13. ASSUME NEW x \in Deleter, DeleteRow(x) PROVE TypeOK'
  <2>1. deleter' \in [Deleter -> Removal]
    <3>1. Idle \in Removal
      BY DEF Idle, Removal, Status
    <3>2. \A d \in Removal : [d EXCEPT !.at = "local", !.item = Nothing] \in Removal
      BY DEF Removal
    <3>3. deleter[x] \in Removal
      BY DEF TypeOK
    <3> QED
      BY <1>13, <3>1, <3>2, <3>3 DEF DeleteRow, TypeOK
  <2>2. row' \in [Backup -> Row]
    <3>1. [NoRow EXCEPT !.at = "deleted"] \in Row
      BY DEF NoRow, Row, Status
    <3> QED
      BY <1>13, <3>1 DEF DeleteRow, TypeOK
  <2>3. faults' \in 0..MaxFaults
    BY <1>13 DEF DeleteRow, TypeOK, NoFault, FaultOccurs
  <2> QED
    BY <1>13, <2>1, <2>2, <2>3 DEF DeleteRow, TypeOK
<1>14. ASSUME StartScan PROVE TypeOK'
  <2>1. scan' \in Scan
    BY <1>14 DEF StartScan, Scan, NoScan, integrityCheckList
  <2> QED
    BY <1>14, <2>1 DEF StartScan, TypeOK
<1>15. ASSUME HashArchive PROVE TypeOK'
  <2>1. PICK b \in scan.todo, v \in {"absent", "matches", "differs"} :
             scan' = [at |-> "judge", todo |-> scan.todo \ {b}, item |-> b, read |-> v]
    BY <1>15 DEF HashArchive
  <2>2. scan' \in Scan
    BY <2>1 DEF TypeOK, Scan
  <2> QED
    BY <1>15, <2>2 DEF HashArchive, TypeOK
<1>16. ASSUME recordIntegrity PROVE TypeOK'
  <2>1. scan' \in Scan
    BY <1>16 DEF recordIntegrity, TypeOK, Scan, NoScan
  <2>2. row' \in [Backup -> Row]
    <3>1. classifyIntegrity(scan.item) \in {"", "ok", "remote", "corrupt"}
      BY DEF classifyIntegrity
    <3>2. UNCHANGED row \/ Update(scan.item, "verification", classifyIntegrity(scan.item))
      BY <1>16 DEF recordIntegrity
    <3>3. row \in [Backup -> Row]
      BY DEF TypeOK
    <3> QED
      BY <3>1, <3>2, <3>3, UpdateVerificationTyped
  <2>3. UNCHANGED <<made, local, object, upload, deleter, deleting, unwritten,
                    scans, faults, restarts>>
    BY <1>16 DEF recordIntegrity
  <2> QED
    BY <2>1, <2>2, <2>3 DEF TypeOK
<1>17. ASSUME Restart PROVE TypeOK'
  <2>1. row' \in [Backup -> Row]
    BY <1>17, HealedTyped DEF Restart, HealRemoteUploads, TypeOK
  <2>2. deleter' \in [Deleter -> Removal] /\ scan' \in Scan
    BY <1>17 DEF Restart, Removal, Idle, Scan, NoScan, Status
  <2>3. upload' \in [Route -> [Backup -> Stage]]
    BY <1>17 DEF Restart, Stage
  <2>4. made' \in [Backup -> {"none", "written", "inserted", "lost"}]
    BY <1>17 DEF Restart, TypeOK
  <2>5. restarts' \in 0..MaxRestarts
    BY <1>17 DEF Restart, TypeOK
  <2>6. unwritten' \subseteq Backup /\ faults' \in 0..MaxFaults
    BY <1>17 DEF Restart, HealRemoteUploads, Interrupted, NoFault, FaultOccurs, TypeOK
  <2> QED
    BY <1>17, <2>1, <2>2, <2>3, <2>4, <2>5, <2>6 DEF Restart, TypeOK
<1>18. ASSUME UNCHANGED vars PROVE TypeOK'
  BY <1>18 DEF vars, TypeOK
<1> QED
  BY <1>1, <1>2, <1>3, <1>4, <1>5, <1>6, <1>7, <1>8, <1>9, <1>10, <1>11, <1>12, <1>13,
     <1>14, <1>15, <1>16, <1>17, <1>18
     DEF Next, UploadStep, failDestinationUpload, recordDestinationUpload, Delete, prune, Rows,
         Status, Route

\* Types: every variable stays within its type.
THEOREM TypeCorrect == Spec => []TypeOK
BY TypeInit, TypeStep, PTL DEF Spec

-----------------------------------------------------------------------------
(***************************************************************************)
(* A row that says uploading.                                              *)
(***************************************************************************)

\* What an UPDATE leaves in the remote_status of the rows.
LEMMA UpdatedRemote ==
    ASSUME TypeOK, NEW b \in Backup, NEW c \in Backup, NEW v, Update(b, "remote", v)
    PROVE  /\ row'[c].remote = IF c = b /\ Listed(b) THEN v ELSE row[c].remote
           /\ row'[c].at = row[c].at
BY DEF TypeOK, Update, Row

\* An UPDATE of another field leaves remote_status alone.
LEMMA OtherFieldKeepsRemote ==
    ASSUME TypeOK, NEW b, NEW c \in Backup, NEW v, NEW f \in {"moved", "verification"},
           Update(b, f, v)
    PROVE  row'[c].remote = row[c].remote /\ row'[c].at = row[c].at
BY DEF TypeOK, Update, Row

\* A deletion of a row leaves the others as they are.
LEMMA DeletionKeepsRows ==
    ASSUME TypeOK, NEW x \in Deleter, DeleteRow(x), NEW c \in Backup
    PROVE  row'[c] = row[c] \/ (row'[c].at = "deleted" /\ row'[c].remote = "")
<1>1. row \in [Backup -> Row] BY DEF TypeOK
<1>2. CASE row' = [row EXCEPT ![deleter[x].item] = [NoRow EXCEPT !.at = "deleted"]]
  <2>1. [NoRow EXCEPT !.at = "deleted"].at = "deleted" /\ [NoRow EXCEPT !.at = "deleted"].remote = ""
    BY DEF NoRow
  <2> HIDE DEF NoRow
  <2>2. CASE c = deleter[x].item
    <3>1. row'[c] = [NoRow EXCEPT !.at = "deleted"] BY <1>1, <1>2, <2>2
    <3> QED BY <2>1, <3>1
  <2>3. CASE c # deleter[x].item BY <1>1, <1>2, <2>3
  <2> QED BY <2>2, <2>3
<1>3. CASE UNCHANGED row BY <1>3
<1> QED BY <1>2, <1>3 DEF DeleteRow

\* A start of the panel closes the rows of interrupted uploads, or leaves the
\* rows as they are.
LEMMA RestartKeepsRow ==
    ASSUME TypeOK, Restart, NEW c \in Backup
    PROVE  /\ row'[c].at = row[c].at
           /\ row'[c].remote = row[c].remote \/ row'[c].remote = "failed"
<1>1. row[c] \in Row BY DEF TypeOK
<1>2. row'[c] = row[c] \/ row'[c] = [row[c] EXCEPT !.remote = "failed"]
  BY DEF Restart, HealRemoteUploads
<1> QED BY <1>1, <1>2 DEF Row

\* Where an upload step leaves each goroutine.
LEMMA UploadMoves ==
    ASSUME TypeOK, NEW k \in Route, NEW b \in Backup, NEW from, NEW to,
           uploadGoes(k, b, from, to), NEW j \in Route, NEW c \in Backup
    PROVE  /\ upload[k][b] = from
           /\ upload'[j][c] = IF j = k /\ c = b THEN to ELSE upload[j][c]
BY DEF TypeOK, uploadGoes

\* UploadingHasOwner is not inductive: an upload that is only started could end
\* at once.  Its row says uploading from the moment it opens the archive.
Carrying == {"opening", "sending", "sent", "failing", "recording"}

Owned == \A b \in Backup : row[b].remote = "uploading" =>
             /\ Listed(b)
             /\ upload["domain"][b] \in Carrying \/ b \in unwritten

\* Before the first backup no row says uploading.
LEMMA OwnedInit == Init => Owned
<1> SUFFICES ASSUME Init, NEW b \in Backup PROVE row[b].remote # "uploading"
  BY DEF Owned
<1>1. row[b] = NoRow
  BY DEF Init
<1>2. NoRow.remote = ""
  BY DEF NoRow
<1>3. "" # "uploading"
  OBVIOUS
<1> QED
  BY <1>1, <1>2, <1>3

\* Every step keeps an owner behind every row that says uploading.
LEMMA OwnedStep == TypeOK /\ Owned /\ [Next]_vars => Owned'
<1> SUFFICES ASSUME TypeOK, Owned, [Next]_vars, NEW c \in Backup,
                    row'[c].remote = "uploading"
             PROVE  /\ Listed(c)'
                    /\ upload'["domain"][c] \in Carrying \/ c \in unwritten'
  BY DEF Owned
<1> DEFINE Goal == /\ Listed(c)'
                   /\ upload'["domain"][c] \in Carrying \/ c \in unwritten'
<1>0. "domain" \in Route /\ "global" \in Route /\ "domain" # "global"
  BY DEF Route
<1>1. ASSUME row'[c].remote = row[c].remote, row'[c].at = row[c].at,
             UNCHANGED <<upload, unwritten>>
      PROVE  Goal
  BY <1>1 DEF Owned, Listed
<1>2. ASSUME NEW b \in Backup, InsertRow(b) PROVE Goal
  <2>1. row'[c].remote # "uploading" \/ (c # b /\ row'[c] = row[c])
    BY <1>2 DEF InsertRow, TypeOK
  <2>2. upload'["domain"] = [upload["domain"] EXCEPT ![b] = "started"]
    BY <1>2, <1>0 DEF InsertRow
  <2> QED
    BY <1>2, <2>1, <2>2 DEF InsertRow, Owned, Listed, TypeOK, Route
<1>3. ASSUME NEW b \in Backup, NEW k \in Route, BeginUpload(k, b) PROVE Goal
  <2>1. CASE uploadGoes(k, b, "started", "idle") /\ UNCHANGED row
    BY <1>0, <1>3, <2>1, UploadMoves DEF BeginUpload, Owned, Listed, Carrying
  <2>2. CASE uploadGoes(k, b, "started", "opening") /\ k = "domain"
    <3>1. CASE c = b
      <4>1. Listed(b) /\ row'[c].at = row[c].at
        BY <1>0, <1>3, <2>2, <3>1, UpdatedRemote, UploadMoves DEF BeginUpload, Owned
      <4> QED
        BY <1>0, <2>2, <3>1, <4>1, UploadMoves DEF Carrying, Listed
    <3>2. CASE c # b
      <4>1. row'[c].remote = row[c].remote /\ row'[c].at = row[c].at
        BY <1>3, <2>2, <3>2, UpdatedRemote, UploadMoves DEF BeginUpload
      <4> QED
        BY <1>0, <1>3, <2>2, <3>2, <4>1, UploadMoves DEF BeginUpload, Owned, Listed
    <3> QED
      BY <3>1, <3>2
  <2>3. CASE uploadGoes(k, b, "started", "opening") /\ UNCHANGED row
    BY <1>0, <1>3, <2>3, UploadMoves DEF BeginUpload, Owned, Listed, Carrying
  <2> QED
    BY <1>3, <2>1, <2>2, <2>3 DEF BeginUpload
<1>4. ASSUME NEW b \in Backup, NEW k \in Route, NEW from \in Carrying, NEW to,
             uploadGoes(k, b, from, to), to \in Carrying \/ k = "global",
             UNCHANGED <<row, unwritten>>
      PROVE  Goal
  BY <1>0, <1>4, UploadMoves DEF Owned, Listed
<1>5. ASSUME NEW b \in Backup, NEW k \in Route,
             OpenArchive(k, b) \/ Send(k, b) \/ Verify(k, b)
      PROVE  Goal
  <2>1. Refused(k) \in Carrying \/ k = "global"
    BY DEF Refused, Carrying, Route
  <2>2. UNCHANGED <<row, unwritten>>
    BY <1>5 DEF OpenArchive, Send, Verify
  <2>3. PICK from \in {"opening", "sending", "sent"}, 
              to \in {"sending", "sent", "recording", Refused(k)} \cup
                     (IF k = "global" THEN {"removing", "idle"} ELSE {}) :
             uploadGoes(k, b, from, to)
    <3>1. CASE OpenArchive(k, b)
      BY <3>1 DEF OpenArchive
    <3>2. CASE Send(k, b)
      BY <3>2 DEF Send
    <3>3. CASE Verify(k, b)
      BY <3>3 DEF Verify, Route
    <3> QED
      BY <1>5, <3>1, <3>2, <3>3
  <2> QED
    BY <1>4, <2>1, <2>2, <2>3 DEF Carrying
<1>6. ASSUME NEW b \in Backup, NEW from \in {"failing", "recording"},
             NEW v \in {"failed", "successful"}, Conclude(b, from, v)
      PROVE  Goal
  <2>1. uploadGoes("domain", b, from, "idle")
    BY <1>6 DEF Conclude
  <2>2. CASE Update(b, "remote", v) /\ UNCHANGED unwritten
    <3>1. row'[c].remote = row[c].remote /\ row'[c].at = row[c].at
      BY <2>2, UpdatedRemote
    <3>2. c # b
      BY <2>2, <3>1, UpdatedRemote DEF Owned
    <3> QED
      BY <1>0, <2>1, <2>2, <3>1, <3>2, UploadMoves DEF Owned, Listed
  <2>3. CASE unwritten' = unwritten \cup {b} /\ UNCHANGED row
    BY <1>0, <2>1, <2>3, UploadMoves DEF Owned, Listed
  <2> QED
    BY <1>6, <2>2, <2>3 DEF Conclude
<1>7. ASSUME NEW b \in Backup, RemoveOffSiteLocalCopy(b) PROVE Goal
  BY <1>0, <1>7, UploadMoves DEF RemoveOffSiteLocalCopy, Owned, Listed
<1>8. ASSUME NEW b \in Backup, MarkMoved(b) PROVE Goal
  <2>1. row'[c].remote = row[c].remote /\ row'[c].at = row[c].at
    BY <1>8, OtherFieldKeepsRemote DEF MarkMoved
  <2> QED
    BY <1>0, <1>8, <2>1, UploadMoves DEF MarkMoved, Owned, Listed
<1>9. ASSUME NEW x \in Deleter, DeleteRow(x) PROVE Goal
  <2>1. row'[c] = row[c]
    BY <1>9, DeletionKeepsRows
  <2> QED
    BY <1>1, <1>9, <2>1 DEF DeleteRow
<1>10. ASSUME recordIntegrity PROVE Goal
  <2>1. UNCHANGED row \/ Update(scan.item, "verification", classifyIntegrity(scan.item))
    BY <1>10 DEF recordIntegrity
  <2>2. row'[c].remote = row[c].remote /\ row'[c].at = row[c].at
    BY <2>1, OtherFieldKeepsRemote
  <2> QED
    BY <1>1, <1>10, <2>2 DEF recordIntegrity
<1>11. ASSUME Restart PROVE Goal
  <2>1. CASE UNCHANGED row /\ unwritten' = unwritten \cup Interrupted
    BY <2>1 DEF Interrupted, Owned, Listed
  <2>2. CASE row' = [b \in Backup |-> IF b \in Interrupted
                                   THEN [row[b] EXCEPT !.remote = "failed"] ELSE row[b]]
    <3>1. row[c] \in Row
      BY DEF TypeOK
    <3> QED
      BY <2>2, <3>1 DEF Interrupted, Row
  <2> QED
    BY <1>11, <2>1, <2>2 DEF Restart, HealRemoteUploads
<1> QED
  <2>1. ASSUME NEW b \in Backup, WriteArchive(b) PROVE Goal
    BY <1>1, <2>1 DEF WriteArchive
  <2>2. ASSUME NEW x \in Deleter, NEW S, BeginRemoval(x, S) PROVE Goal
    BY <1>1, <2>2 DEF BeginRemoval
  <2>3. ASSUME NEW x \in Deleter, RemoveArchive(x) \/ removeRemoteCopy(x) PROVE Goal
    BY <1>1, <2>3 DEF RemoveArchive, removeRemoteCopy
  <2>4. ASSUME StartScan \/ HashArchive \/ UNCHANGED vars PROVE Goal
    BY <1>1, <2>4 DEF StartScan, HashArchive, vars
  <2> QED
    BY <1>2, <1>3, <1>5, <1>6, <1>7, <1>8, <1>9, <1>10, <1>11, <2>1, <2>2, <2>3, <2>4
       DEF Next, UploadStep, failDestinationUpload, recordDestinationUpload, Delete, prune

\* A row never says uploading without a goroutine that is at it, unless a
\* statement that would have closed the row failed: the upload's own, or that
\* of the last start (HealRemoteUploads).
THEOREM UploadingIsOwned == Spec => []UploadingHasOwner
<1>1. TypeOK /\ Owned => UploadingHasOwner
  BY DEF Owned, Carrying, UploadingHasOwner
<1> QED
  BY <1>1, TypeCorrect, OwnedInit, OwnedStep, PTL DEF Spec

-----------------------------------------------------------------------------
(***************************************************************************)
(* The bookkeeping the copies rest on: a backup without a row has neither  *)
(* uploads nor a deletion, and a deletion works on backups it has read.    *)
(***************************************************************************)
Fresh == \A b \in Backup : made[b] # "inserted" =>
             /\ ~Listed(b)
             /\ b \notin deleting
             /\ \A k \in Route : upload[k][b] = "idle"

Doomed == \A x \in Deleter :
             /\ deleter[x].todo \subseteq deleting
             /\ deleter[x].at \in {"remote", "row"} => deleter[x].item \in deleting

\* The bookkeeping holds before the first backup.
LEMMA BookInit == Init => Fresh /\ Doomed
<1> SUFFICES ASSUME Init PROVE Fresh /\ Doomed
  OBVIOUS
<1>1. NoRow.at = "none" /\ "none" # "listed"
  BY DEF NoRow
<1>2. Fresh
  BY <1>1 DEF Init, Fresh, Listed
<1>3. Doomed
  BY DEF Init, Doomed, Idle
<1> QED
  BY <1>2, <1>3

\* A step of an upload moves one goroutine that is under way, and neither adds
\* nor removes a row.
LEMMA UploadStepShape ==
    ASSUME TypeOK, NEW b \in Backup, UploadStep(b)
    PROVE  /\ UNCHANGED <<made, deleter, deleting, scan>>
           /\ \A c \in Backup : row'[c].at = row[c].at
           /\ \E k \in Route : \E from \in Stage \ {"idle"}, to \in Stage :
                 uploadGoes(k, b, from, to)
<1> USE DEF Stage
<1> DEFINE Shape == /\ UNCHANGED <<made, deleter, deleting, scan>>
                    /\ \A c \in Backup : row'[c].at = row[c].at
                    /\ \E k \in Route : \E from \in Stage \ {"idle"}, to \in Stage :
                          uploadGoes(k, b, from, to)
<1>1. ASSUME NEW k \in Route, BeginUpload(k, b) PROVE Shape
  BY <1>1, UpdatedRemote DEF BeginUpload
<1>2. ASSUME NEW k \in Route, OpenArchive(k, b) PROVE Shape
  BY <1>2 DEF OpenArchive, Refused
<1>3. ASSUME NEW k \in Route, Send(k, b) PROVE Shape
  BY <1>3 DEF Send, Refused
<1>4. ASSUME NEW k \in Route, Verify(k, b) PROVE Shape
  BY <1>4 DEF Verify, Refused
<1>5. ASSUME NEW from \in {"failing", "recording"}, NEW v, Conclude(b, from, v) PROVE Shape
  BY <1>5, UpdatedRemote DEF Conclude, Route
<1>6. ASSUME RemoveOffSiteLocalCopy(b) PROVE Shape
  BY <1>6 DEF RemoveOffSiteLocalCopy, Route
<1>7. ASSUME MarkMoved(b) PROVE Shape
  BY <1>7, OtherFieldKeepsRemote DEF MarkMoved, Route
<1> QED
  BY <1>1, <1>2, <1>3, <1>4, <1>5, <1>6, <1>7
     DEF UploadStep, failDestinationUpload, recordDestinationUpload

\* Every step keeps backups without a row out of uploads and deletions.
LEMMA FreshStep == TypeOK /\ Fresh /\ [Next]_vars => Fresh'
<1> SUFFICES ASSUME TypeOK, Fresh, [Next]_vars, NEW c \in Backup, made'[c] # "inserted"
             PROVE  ~Listed(c)' /\ c \notin deleting' /\ \A k \in Route : upload'[k][c] = "idle"
  BY DEF Fresh
<1> DEFINE Goal == /\ ~Listed(c)' /\ c \notin deleting'
                   /\ \A k \in Route : upload'[k][c] = "idle"
<1>0. made[c] # "inserted" /\ made'[c] = made[c] => 
        ~Listed(c) /\ c \notin deleting /\ \A k \in Route : upload[k][c] = "idle"
  BY DEF Fresh
<1>1. ASSUME NEW b \in Backup, WriteArchive(b) PROVE Goal
  BY <1>1 DEF WriteArchive, TypeOK, Fresh, Listed
<1>2. ASSUME NEW b \in Backup, InsertRow(b) PROVE Goal
  BY <1>2 DEF InsertRow, TypeOK, Fresh, Listed
<1>3. ASSUME NEW b \in Backup, NEW k \in Route, NEW from, NEW to, uploadGoes(k, b, from, to),
             from # "idle", row'[c].at = row[c].at, UNCHANGED <<made, deleting>>
      PROVE  Goal
  BY <1>0, <1>3, UploadMoves DEF Listed
<1>4. ASSUME row'[c].at # "listed" \/ row'[c].at = row[c].at, UNCHANGED <<made, upload, deleting>>
      PROVE  Goal
  BY <1>0, <1>4 DEF Listed
<1>5. ASSUME NEW b \in Backup, UploadStep(b) PROVE Goal
  BY <1>3, <1>5, UploadStepShape
<1>6. ASSUME NEW x \in Deleter, NEW S, BeginRemoval(x, S), \A b \in S : Listed(b) PROVE Goal
  BY <1>0, <1>6 DEF BeginRemoval, Listed
<1>7. ASSUME NEW x \in Deleter, DeleteRow(x) PROVE Goal
  BY <1>4, <1>7 DEF DeleteRow, TypeOK, NoRow
<1>8. ASSUME recordIntegrity PROVE Goal
  <2>1. UNCHANGED row \/ Update(scan.item, "verification", classifyIntegrity(scan.item))
    BY <1>8 DEF recordIntegrity
  <2>2. row'[c].at = row[c].at
    BY <2>1, OtherFieldKeepsRemote
  <2> QED
    BY <1>4, <1>8, <2>2 DEF recordIntegrity
<1>9. ASSUME Restart PROVE Goal
  BY <1>9, RestartKeepsRow DEF Restart, TypeOK, Fresh, Listed
<1>10. ASSUME NEW x \in Deleter, RemoveArchive(x) \/ removeRemoteCopy(x) PROVE Goal
  BY <1>4, <1>10 DEF RemoveArchive, removeRemoteCopy
<1>11. ASSUME StartScan \/ HashArchive \/ UNCHANGED vars PROVE Goal
  BY <1>4, <1>11 DEF StartScan, HashArchive, vars
<1>12. ASSUME NEW x \in Deleter, NEW b \in Backup, Delete(x, b) PROVE Goal
  BY <1>6, <1>12 DEF Delete
<1>13. ASSUME NEW x \in Deleter, NEW d \in Domain, prune(x, d) PROVE Goal
  <2> DEFINE S == {b \in Rows(d) : Cardinality({e \in Rows(d) : e >= b}) > Retention}
  <2>1. \A b \in S : Listed(b)
    BY DEF Rows
  <2>2. BeginRemoval(x, S)
    BY <1>13 DEF prune
  <2> QED
    BY <1>6, <2>1, <2>2
<1> QED
  BY <1>1, <1>2, <1>5, <1>7, <1>8, <1>9, <1>10, <1>11, <1>12, <1>13 DEF Next

\* Every step keeps deletions to the backups they have read.
LEMMA DoomedStep == TypeOK /\ Doomed /\ [Next]_vars => Doomed'
<1> SUFFICES ASSUME TypeOK, Doomed, [Next]_vars PROVE Doomed'
  OBVIOUS
<1>1. ASSUME UNCHANGED <<deleter, deleting>> PROVE Doomed'
  BY <1>1 DEF Doomed
<1>2. ASSUME NEW x \in Deleter, NEW S, BeginRemoval(x, S) PROVE Doomed'
  BY <1>2 DEF BeginRemoval, TypeOK, Doomed
<1>3. ASSUME NEW x \in Deleter, RemoveArchive(x) PROVE Doomed'
  BY <1>3 DEF RemoveArchive, TypeOK, Doomed, Removal
<1>4. ASSUME NEW x \in Deleter, removeRemoteCopy(x) PROVE Doomed'
  BY <1>4 DEF removeRemoteCopy, TypeOK, Doomed, Removal
<1>5. ASSUME NEW x \in Deleter, DeleteRow(x) PROVE Doomed'
  <2>1. UNCHANGED deleting /\ deleter \in [Deleter -> Removal]
    BY <1>5 DEF DeleteRow, TypeOK
  <2>2. deleter'[x] = Idle \/ deleter'[x] = [deleter[x] EXCEPT !.at = "local", !.item = Nothing]
    BY <1>5, <2>1 DEF DeleteRow
  <2>3. \A y \in Deleter : y # x => deleter'[y] = deleter[y]
    BY <1>5, <2>1 DEF DeleteRow
  <2>4. deleter'[x].todo \subseteq deleting /\ deleter'[x].at \notin {"remote", "row"}
    <3>1. deleter[x].todo \subseteq deleting /\ deleter[x] \in Removal
      BY <1>5, <2>1 DEF Doomed
    <3>2. CASE deleter'[x] = Idle
      <4>1. Idle.todo = {} /\ Idle.at = "idle"
        BY DEF Idle
      <4> QED
        BY <3>2, <4>1
    <3>3. CASE deleter'[x] = [deleter[x] EXCEPT !.at = "local", !.item = Nothing]
      BY <3>1, <3>3 DEF Removal
    <3> QED
      BY <2>2, <3>2, <3>3
  <2> QED
    BY <2>1, <2>3, <2>4 DEF Doomed
<1>6. ASSUME Restart PROVE Doomed'
  BY <1>6 DEF Restart, Doomed, Idle
<1>7. ASSUME NEW b \in Backup, UploadStep(b) PROVE Doomed'
  BY <1>1, <1>7, UploadStepShape
<1>8. ASSUME NEW b \in Backup, WriteArchive(b) \/ InsertRow(b) PROVE Doomed'
  BY <1>1, <1>8 DEF WriteArchive, InsertRow
<1>9. ASSUME StartScan \/ HashArchive \/ recordIntegrity \/ UNCHANGED vars PROVE Doomed'
  BY <1>1, <1>9 DEF StartScan, HashArchive, recordIntegrity, vars
<1> QED
  BY <1>2, <1>3, <1>4, <1>5, <1>6, <1>7, <1>8, <1>9 DEF Next, Delete, prune

-----------------------------------------------------------------------------
(***************************************************************************)
(* The last copy.  Archives of different backups must have names of their  *)
(* own: two domains of one system user backed up within a second share one *)
(* name, and the second archive replaces the first.                        *)
(***************************************************************************)
UniqueNames == \A b, c \in Backup : FileOf[b] = FileOf[c] => b = c

\* What is under a backup's name is its archive, or nothing.
OwnFile == \A b \in Backup : local[FileOf[b]] \in {b, Nothing}

Written == \A b \in Backup : made[b] = "written" => local[FileOf[b]] = b

\* Delete-local removes an archive only behind a whole copy, and nothing but a
\* deletion removes it earlier.
KeptOf(b) ==
    /\ upload["global"][b] \in {"started", "opening", "sending", "sent", "removing"} =>
           local[FileOf[b]] = b
    /\ upload["global"][b] = "removing" => Whole("global", b)
    /\ local[FileOf[b]] = b \/ Whole("global", b)

Kept == \A b \in Backup : Listed(b) /\ b \notin deleting => KeptOf(b)

CopyInv == TypeOK /\ Fresh /\ Doomed /\ OwnFile /\ Written /\ Kept

\* With names of their own, two uploads never write the same object.
LEMMA WhereOwn ==
    ASSUME UniqueNames, NEW j \in Route, NEW k \in Route, NEW b \in Backup, NEW c \in Backup,
           Where(j, b) = Where(k, c)
    PROVE  j = k /\ b = c
BY StoreAssumption DEF UniqueNames, Where, Route

\* A transfer touches the object it names and no other.
LEMMA TransferTouches ==
    ASSUME TypeOK, NEW k \in Route, NEW b \in Backup, OpenArchive(k, b) \/ Send(k, b),
           NEW w \in Place \X File, w # Where(k, b)
    PROVE  object'[w] = object[w]
<1>1. CASE UNCHANGED object
  BY <1>1
<1>2. ASSUME NEW v, object' = [object EXCEPT ![Where(k, b)] = v]
      PROVE  object'[w] = object[w]
  BY <1>2 DEF TypeOK
<1> QED
  BY <1>1, <1>2 DEF OpenArchive, Send

\* There is nothing to lose before the first backup.
LEMMA CopyInit == Init => OwnFile /\ Written /\ Kept
<1> SUFFICES ASSUME Init PROVE OwnFile /\ Written /\ Kept
  OBVIOUS
<1>1. NoRow.at = "none" /\ "none" # "listed"
  BY DEF NoRow
<1> QED
  BY <1>1, StoreAssumption DEF Init, OwnFile, Written, Kept, Listed

\* Which steps change what is under a backup's name.
LEMMA LocalStep ==
    ASSUME UniqueNames, CopyInv, [Next]_vars, NEW c \in Backup
    PROVE  \/ local'[FileOf[c]] = local[FileOf[c]]
           \/ WriteArchive(c) /\ local'[FileOf[c]] = c
           \/ RemoveOffSiteLocalCopy(c) /\ local'[FileOf[c]] = Nothing
           \/ /\ local'[FileOf[c]] = Nothing /\ c \in deleting
              /\ \E x \in Deleter : RemoveArchive(x)
<1> USE StoreAssumption DEF CopyInv
<1> DEFINE Goal == \/ local'[FileOf[c]] = local[FileOf[c]]
                   \/ WriteArchive(c) /\ local'[FileOf[c]] = c
                   \/ RemoveOffSiteLocalCopy(c) /\ local'[FileOf[c]] = Nothing
                   \/ /\ local'[FileOf[c]] = Nothing /\ c \in deleting
                      /\ \E x \in Deleter : RemoveArchive(x)
<1>1. ASSUME NEW b \in Backup, WriteArchive(b) PROVE Goal
  BY <1>1 DEF WriteArchive, TypeOK, UniqueNames
<1>2. ASSUME NEW b \in Backup, RemoveOffSiteLocalCopy(b) PROVE Goal
  BY <1>2 DEF RemoveOffSiteLocalCopy, TypeOK, UniqueNames
<1>3. ASSUME NEW x \in Deleter, RemoveArchive(x) PROVE Goal
  <2>1. PICK b \in deleter[x].todo : local' = [local EXCEPT ![FileOf[b]] = Nothing]
    BY <1>3 DEF RemoveArchive
  <2>2. b \in deleting /\ b \in Backup
    BY <2>1 DEF Doomed, TypeOK
  <2> QED
    BY <1>3, <2>1, <2>2 DEF TypeOK, UniqueNames
<1>4. ASSUME UNCHANGED local PROVE Goal
  BY <1>4
<1>5. ASSUME NEW b \in Backup, UploadStep(b) PROVE Goal
  BY <1>2, <1>4, <1>5 DEF UploadStep, BeginUpload, OpenArchive, Send, Verify,
     failDestinationUpload, recordDestinationUpload, Conclude, MarkMoved
<1>6. ASSUME NEW x \in Deleter, NEW S, BeginRemoval(x, S) PROVE Goal
  BY <1>4, <1>6 DEF BeginRemoval
<1>7. ASSUME NEW x \in Deleter, removeRemoteCopy(x) \/ DeleteRow(x) PROVE Goal
  BY <1>4, <1>7 DEF removeRemoteCopy, DeleteRow
<1>8. ASSUME \/ \E b \in Backup : InsertRow(b)
             \/ StartScan \/ HashArchive \/ recordIntegrity \/ Restart \/ UNCHANGED vars
      PROVE  Goal
  BY <1>4, <1>8 DEF InsertRow, StartScan, HashArchive, recordIntegrity, Restart, vars
<1> QED
  BY <1>1, <1>3, <1>5, <1>6, <1>7, <1>8 DEF Next, Delete, prune

\* Every step keeps a name of the backup root to its own backup.
LEMMA OwnFileStep == UniqueNames /\ CopyInv /\ [Next]_vars => OwnFile'
BY LocalStep DEF OwnFile, CopyInv

\* An archive counts as written only once it is.
LEMMA MadeStep ==
    ASSUME TypeOK, [Next]_vars, NEW c \in Backup, made'[c] = "written", made[c] # "written"
    PROVE  WriteArchive(c)
<1>1. ASSUME NEW b \in Backup, WriteArchive(b) PROVE WriteArchive(c)
  BY <1>1 DEF WriteArchive, TypeOK
<1>2. ASSUME NEW b \in Backup, InsertRow(b) PROVE FALSE
  BY <1>2 DEF InsertRow, TypeOK
<1>3. ASSUME Restart PROVE FALSE
  BY <1>3 DEF Restart, TypeOK
<1>4. ASSUME NEW b \in Backup, UploadStep(b) PROVE FALSE
  BY <1>4, UploadStepShape
<1>5. ASSUME NEW x \in Deleter, NEW S, BeginRemoval(x, S) PROVE FALSE
  BY <1>5 DEF BeginRemoval
<1>6. ASSUME NEW x \in Deleter, RemoveArchive(x) \/ removeRemoteCopy(x) \/ DeleteRow(x)
      PROVE  FALSE
  BY <1>6 DEF RemoveArchive, removeRemoteCopy, DeleteRow
<1>7. ASSUME StartScan \/ HashArchive \/ recordIntegrity \/ UNCHANGED vars PROVE FALSE
  BY <1>7 DEF StartScan, HashArchive, recordIntegrity, vars
<1> QED
  BY <1>1, <1>2, <1>3, <1>4, <1>5, <1>6, <1>7 DEF Next, Delete, prune

\* Nothing removes an archive between its tar and its INSERT.
LEMMA WrittenStep == UniqueNames /\ CopyInv /\ [Next]_vars => Written'
<1> SUFFICES ASSUME UniqueNames, CopyInv, [Next]_vars, NEW c \in Backup, made'[c] = "written"
             PROVE  local'[FileOf[c]] = c
  BY DEF Written
<1> USE DEF CopyInv
<1>1. CASE made[c] = "written"
  <2>1. c \notin deleting /\ ~RemoveOffSiteLocalCopy(c)
    BY <1>1, UploadMoves DEF Fresh, RemoveOffSiteLocalCopy, Route
  <2> QED
    BY <1>1, <2>1, LocalStep DEF Written
<1>2. CASE made[c] # "written"
  <2>1. WriteArchive(c)
    BY <1>2, MadeStep
  <2> QED
    BY <2>1, StoreAssumption DEF WriteArchive, TypeOK
<1> QED
  BY <1>1, <1>2

\* Every step keeps a copy of every listed backup nobody is deleting.
LEMMA KeptStep == UniqueNames /\ CopyInv /\ [Next]_vars => Kept'
<1> SUFFICES ASSUME UniqueNames, CopyInv, [Next]_vars, NEW c \in Backup,
                    Listed(c)', c \notin deleting'
             PROVE  KeptOf(c)'
  BY DEF Kept
<1> USE DEF CopyInv
<1>0. "global" \in Route /\ "domain" \in Route /\ "domain" # "global"
  BY DEF Route
<1>w. \A k \in Route, b \in Backup : Where(k, b) \in Place \X File
  BY WhereTyped
<1>1. ASSUME Listed(c), c \notin deleting, local'[FileOf[c]] = local[FileOf[c]],
             object'[Where("global", c)] = object[Where("global", c)],
             upload'["global"][c] = upload["global"][c]
      PROVE  KeptOf(c)'
  BY <1>1 DEF Kept, KeptOf, Whole, Where
<1>2. ASSUME NEW b \in Backup, WriteArchive(b) PROVE KeptOf(c)'
  <2>1. c # b /\ Listed(c) /\ c \notin deleting
    BY <1>2 DEF WriteArchive, Fresh, Listed
  <2> QED
    BY <1>1, <1>2, <2>1 DEF WriteArchive, TypeOK, UniqueNames
<1>3. ASSUME NEW b \in Backup, InsertRow(b) PROVE KeptOf(c)'
  <2>1. CASE c = b
    BY <1>0, <1>3, <2>1 DEF InsertRow, Written, KeptOf, TypeOK
  <2>2. CASE c # b
    BY <1>0, <1>1, <1>3, <2>2 DEF InsertRow, TypeOK, Listed
  <2> QED
    BY <2>1, <2>2
<1>4. ASSUME NEW b \in Backup, UploadStep(b) PROVE KeptOf(c)'
  <2>0. Listed(c) /\ c \notin deleting
    BY <1>4, UploadStepShape DEF Listed
  <2>a. KeptOf(c)
    BY <2>0 DEF Kept
  <2>b. \A k \in Route : Where(k, b) = Where("global", c) => k = "global" /\ b = c
    BY <1>0, WhereOwn
  <2>1. ASSUME NEW k \in Route, BeginUpload(k, b) PROVE KeptOf(c)'
    <3>1. PICK to \in {"idle", "opening"} : uploadGoes(k, b, "started", to)
      BY <2>1 DEF BeginUpload
    <3>2. UNCHANGED <<local, object>>
      BY <2>1 DEF BeginUpload
    <3> QED
      BY <1>0, <2>a, <3>1, <3>2, UploadMoves DEF KeptOf, Whole, Where
  <2>2. ASSUME NEW k \in Route, OpenArchive(k, b) PROVE KeptOf(c)'
    <3>1. PICK to \in {"sending", Refused(k)} : uploadGoes(k, b, "opening", to)
      BY <2>2 DEF OpenArchive
    <3>2. UNCHANGED local
      BY <2>2 DEF OpenArchive
    <3>3. CASE k = "global" /\ b = c
      BY <1>0, <2>a, <3>1, <3>2, <3>3, UploadMoves DEF KeptOf, Refused
    <3>4. CASE ~(k = "global" /\ b = c)
      <4>1. object'[Where("global", c)] = object[Where("global", c)]
        BY <1>0, <1>w, <2>2, <2>b, <3>4, TransferTouches
      <4> QED
        BY <1>0, <1>1, <2>0, <3>1, <3>2, <3>4, <4>1, UploadMoves
    <3> QED
      BY <3>3, <3>4
  <2>3. ASSUME NEW k \in Route, Send(k, b) PROVE KeptOf(c)'
    <3>1. PICK to \in {"sent", Refused(k)} : uploadGoes(k, b, "sending", to)
      BY <2>3 DEF Send
    <3>2. UNCHANGED local
      BY <2>3 DEF Send
    <3>3. CASE k = "global" /\ b = c
      BY <1>0, <2>a, <3>1, <3>2, <3>3, UploadMoves DEF KeptOf, Refused
    <3>4. CASE ~(k = "global" /\ b = c)
      <4>1. object'[Where("global", c)] = object[Where("global", c)]
        BY <1>0, <1>w, <2>3, <2>b, <3>4, TransferTouches
      <4> QED
        BY <1>0, <1>1, <2>0, <3>1, <3>2, <3>4, <4>1, UploadMoves
    <3> QED
      BY <3>3, <3>4
  <2>4. ASSUME NEW k \in Route, Verify(k, b) PROVE KeptOf(c)'
    <3>1. PICK to \in Stage : uploadGoes(k, b, "sent", to)
      BY <2>4 DEF Verify, Refused, Stage
    <3>2. UNCHANGED <<local, object>>
      BY <2>4 DEF Verify
    <3>3. CASE k = "global" /\ b = c
      <4>1. local[FileOf[c]] = c /\ c # Nothing
        BY <2>a, <1>0, <3>1, <3>3, StoreAssumption, UploadMoves DEF KeptOf
      <4>2. CASE Measurable("global", c) /\ ~SizesDiffer("global", c)
        <5>1. object[Where("global", c)] \in Object
          BY <1>0, <1>w, <4>2 DEF Measurable, TypeOK
        <5>2. Whole("global", c)
          BY <4>1, <4>2, <5>1 DEF SizesDiffer, Whole, Object
        <5> QED
          BY <3>2, <4>1, <5>2 DEF KeptOf, Whole, Where
      <4>3. CASE upload'["global"][c] = "idle"
        BY <3>2, <4>1, <4>3 DEF KeptOf
      <4>4. upload'["global"][c] = "idle" \/ (Measurable("global", c) /\ ~SizesDiffer("global", c))
        BY <1>0, <2>4, <3>3, UploadMoves DEF Verify, Refused
      <4> QED
        BY <4>2, <4>3, <4>4
    <3>4. CASE ~(k = "global" /\ b = c)
      BY <1>0, <1>1, <2>0, <3>1, <3>2, <3>4, UploadMoves
    <3> QED
      BY <3>3, <3>4
  <2>5. ASSUME NEW from, NEW v, Conclude(b, from, v) PROVE KeptOf(c)'
    BY <1>0, <1>1, <2>0, <2>5, UploadMoves DEF Conclude
  <2>6. ASSUME RemoveOffSiteLocalCopy(b) PROVE KeptOf(c)'
    <3>1. PICK to \in {"idle", "marking"} : uploadGoes("global", b, "removing", to)
      BY <2>6 DEF RemoveOffSiteLocalCopy
    <3>2. UNCHANGED object /\ local' = [local EXCEPT ![FileOf[b]] = Nothing]
      BY <2>6 DEF RemoveOffSiteLocalCopy
    <3>3. CASE b = c
      BY <1>0, <2>a, <3>1, <3>2, <3>3, UploadMoves DEF KeptOf, Whole, Where
    <3>4. CASE b # c
      BY <1>0, <1>1, <2>0, <3>1, <3>2, <3>4, UploadMoves DEF TypeOK, UniqueNames
    <3> QED
      BY <3>3, <3>4
  <2>7. ASSUME MarkMoved(b) PROVE KeptOf(c)'
    <3>1. uploadGoes("global", b, "marking", "idle") /\ UNCHANGED <<local, object>>
      BY <2>7 DEF MarkMoved
    <3> QED
      BY <1>0, <2>a, <3>1, UploadMoves DEF KeptOf, Whole, Where
  <2> QED
    BY <1>4, <2>1, <2>2, <2>3, <2>4, <2>5, <2>6, <2>7
       DEF UploadStep, failDestinationUpload, recordDestinationUpload
<1>5. ASSUME NEW x \in Deleter, RemoveArchive(x) PROVE KeptOf(c)'
  <2>1. UNCHANGED <<row, deleting, upload, object>>
    BY <1>5 DEF RemoveArchive
  <2>2. PICK b \in deleter[x].todo : local' = [local EXCEPT ![FileOf[b]] = Nothing]
    BY <1>5 DEF RemoveArchive
  <2>3. b \in Backup /\ b # c
    BY <2>1, <2>2 DEF Doomed, TypeOK
  <2> QED
    BY <1>1, <2>1, <2>2, <2>3 DEF TypeOK, UniqueNames, Listed
<1>6. ASSUME NEW x \in Deleter, removeRemoteCopy(x) PROVE KeptOf(c)'
  <2>1. UNCHANGED <<row, deleting, upload, local>>
    BY <1>6 DEF removeRemoteCopy
  <2>2. deleter[x].item \in Backup /\ deleter[x].item # c
    BY <1>6, <2>1 DEF removeRemoteCopy, Doomed, TypeOK
  <2>3. Where("domain", deleter[x].item) # Where("global", c)
    BY <1>0, <2>2, WhereOwn
  <2>4. object'[Where("global", c)] = object[Where("global", c)]
    BY <1>w, <1>0, <1>6, <2>3 DEF removeRemoteCopy, TypeOK
  <2> QED
    BY <1>1, <2>1, <2>4 DEF Listed
<1>7. ASSUME NEW x \in Deleter, DeleteRow(x) PROVE KeptOf(c)'
  <2>1. Listed(c)
    BY <1>7, DeletionKeepsRows DEF Listed
  <2> QED
    BY <1>1, <1>7, <2>1 DEF DeleteRow
<1>8. ASSUME NEW x \in Deleter, NEW S, BeginRemoval(x, S) PROVE KeptOf(c)'
  BY <1>1, <1>8 DEF BeginRemoval, Listed
<1>9. ASSUME recordIntegrity PROVE KeptOf(c)'
  <2>1. UNCHANGED row \/ Update(scan.item, "verification", classifyIntegrity(scan.item))
    BY <1>9 DEF recordIntegrity
  <2>2. Listed(c)
    BY <2>1, OtherFieldKeepsRemote DEF Listed
  <2> QED
    BY <1>1, <1>9, <2>2 DEF recordIntegrity
<1>10. ASSUME Restart PROVE KeptOf(c)'
  <2>1. Listed(c) /\ c \notin deleting
    <3>1. UNCHANGED deleting BY <1>10 DEF Restart
    <3> QED BY <1>10, <3>1, RestartKeepsRow DEF Listed
  <2>2. upload'["global"][c] = "idle" /\ UNCHANGED <<local, object>>
    BY <1>0, <1>10 DEF Restart
  <2> QED
    BY <2>1, <2>2 DEF Kept, KeptOf, Whole, Where
<1>11. ASSUME StartScan \/ HashArchive \/ UNCHANGED vars PROVE KeptOf(c)'
  BY <1>1, <1>11 DEF StartScan, HashArchive, vars, Listed
<1> QED
  BY <1>2, <1>3, <1>4, <1>5, <1>6, <1>7, <1>8, <1>9, <1>10, <1>11 DEF Next, Delete, prune

\* Delete-local never takes the last copy of a backup that is listed and that
\* nobody asked to delete (pushGlobalAsync, removeOffSiteLocalCopy).
THEOREM LastCopyIsKept ==
    ASSUME UniqueNames
    PROVE  Spec => []LastCopySurvives
<1>1. Init => CopyInv
  BY TypeInit, BookInit, CopyInit DEF CopyInv
<1>2. CopyInv /\ [Next]_vars => CopyInv'
  BY TypeStep, FreshStep, DoomedStep, OwnFileStep, WrittenStep, KeptStep DEF CopyInv
<1>3. CopyInv => LastCopySurvives
  BY DEF CopyInv, Kept, KeptOf, LastCopySurvives, Route
<1> QED
  BY <1>1, <1>2, <1>3, PTL DEF Spec

-----------------------------------------------------------------------------
(***************************************************************************)
(* A row that says successful, with delete-local off and destinations that *)
(* always tell an object's size.                                           *)
(***************************************************************************)
NoRemoval == \A b \in Backup : upload["global"][b] \notin {"removing", "marking"}

SentOf(b) ==
    /\ local[FileOf[b]] = b
    /\ upload["domain"][b] \in {"sending", "sent"} => object[Where("domain", b)] # Nothing
    /\ upload["domain"][b] = "recording" => Whole("domain", b)
    /\ row[b].remote = "successful" => upload["domain"][b] = "idle" /\ Whole("domain", b)

Sent == \A b \in Backup : Listed(b) /\ b \notin deleting => SentOf(b)

\* No row says successful before the first backup.
LEMMA SentInit == Init => NoRemoval /\ Sent
<1> SUFFICES ASSUME Init PROVE NoRemoval /\ Sent
  OBVIOUS
<1>1. NoRow.at = "none" /\ "none" # "listed"
  BY DEF NoRow
<1> QED
  BY <1>1 DEF Init, NoRemoval, Sent, Listed, Route

\* With delete-local off no upload comes to remove an archive.
LEMMA NoRemovalStep ==
    ASSUME ~DeleteLocal, ~Blind
    PROVE  TypeOK /\ NoRemoval /\ [Next]_vars => NoRemoval'
<1> SUFFICES ASSUME TypeOK, NoRemoval, [Next]_vars, NEW c \in Backup
             PROVE  upload'["global"][c] \notin {"removing", "marking"}
  BY DEF NoRemoval
<1> DEFINE Goal == upload'["global"][c] \notin {"removing", "marking"}
<1>0. "global" \in Route /\ "domain" \in Route
  BY DEF Route
<1>1. ASSUME UNCHANGED upload PROVE Goal
  BY <1>1 DEF NoRemoval
<1>2. ASSUME NEW k \in Route, NEW b \in Backup, NEW from, NEW to,
             uploadGoes(k, b, from, to), to \notin {"removing", "marking"}
      PROVE  Goal
  BY <1>0, <1>2, UploadMoves DEF NoRemoval
<1>3. ASSUME NEW b \in Backup, UploadStep(b) PROVE Goal
  <2>1. ~RemoveOffSiteLocalCopy(b) /\ ~MarkMoved(b)
    BY DEF NoRemoval, RemoveOffSiteLocalCopy, MarkMoved, uploadGoes
  <2>2. ASSUME NEW k \in Route, BeginUpload(k, b) PROVE Goal
    BY <1>2, <2>2 DEF BeginUpload
  <2>3. ASSUME NEW k \in Route, OpenArchive(k, b) \/ Send(k, b) PROVE Goal
    BY <1>2, <2>3 DEF OpenArchive, Send, Refused
  <2>4. ASSUME NEW k \in Route, Verify(k, b) PROVE Goal
    BY <1>2, <2>4 DEF Verify, Refused
  <2>5. ASSUME NEW from, NEW v, Conclude(b, from, v) PROVE Goal
    BY <1>0, <1>2, <2>5 DEF Conclude
  <2> QED
    BY <1>3, <2>1, <2>2, <2>3, <2>4, <2>5
       DEF UploadStep, failDestinationUpload, recordDestinationUpload
<1>4. ASSUME NEW b \in Backup, InsertRow(b) PROVE Goal
  BY <1>0, <1>4 DEF InsertRow, TypeOK, NoRemoval
<1>5. ASSUME Restart PROVE Goal
  BY <1>0, <1>5 DEF Restart
<1>6. ASSUME NEW x \in Deleter, NEW S, BeginRemoval(x, S) PROVE Goal
  BY <1>1, <1>6 DEF BeginRemoval
<1>7. ASSUME NEW x \in Deleter, RemoveArchive(x) \/ removeRemoteCopy(x) \/ DeleteRow(x)
      PROVE  Goal
  BY <1>1, <1>7 DEF RemoveArchive, removeRemoteCopy, DeleteRow
<1>8. ASSUME \/ \E b \in Backup : WriteArchive(b)
             \/ StartScan \/ HashArchive \/ recordIntegrity \/ UNCHANGED vars
      PROVE  Goal
  BY <1>1, <1>8 DEF WriteArchive, StartScan, HashArchive, recordIntegrity, vars
<1> QED
  BY <1>3, <1>4, <1>5, <1>6, <1>7, <1>8 DEF Next, Delete, prune

\* Every step keeps the whole archive behind a row that says successful.
LEMMA SentStep ==
    ASSUME UniqueNames, ~DeleteLocal, ~Blind
    PROVE  CopyInv /\ NoRemoval /\ Sent /\ [Next]_vars => Sent'
<1> SUFFICES ASSUME CopyInv, NoRemoval, Sent, [Next]_vars, NEW c \in Backup,
                    Listed(c)', c \notin deleting'
             PROVE  SentOf(c)'
  BY DEF Sent
<1> USE DEF CopyInv
<1>0. "global" \in Route /\ "domain" \in Route /\ "domain" # "global"
  BY DEF Route
<1>w. \A k \in Route, b \in Backup : Where(k, b) \in Place \X File
  BY WhereTyped
<1>1. ASSUME Listed(c), c \notin deleting, local'[FileOf[c]] = local[FileOf[c]],
             object'[Where("domain", c)] = object[Where("domain", c)],
             upload'["domain"][c] = upload["domain"][c], row'[c].remote = row[c].remote
      PROVE  SentOf(c)'
  BY <1>1 DEF Sent, SentOf, Whole, Where
<1>2. ASSUME NEW b \in Backup, WriteArchive(b) PROVE SentOf(c)'
  <2>1. c # b /\ Listed(c) /\ c \notin deleting
    BY <1>2 DEF WriteArchive, Fresh, Listed
  <2> QED
    BY <1>1, <1>2, <2>1 DEF WriteArchive, TypeOK, UniqueNames
<1>3. ASSUME NEW b \in Backup, InsertRow(b) PROVE SentOf(c)'
  <2>1. CASE c = b
    <3>1. row'[c].remote = "" /\ UNCHANGED local /\ upload'["domain"][c] = "started"
      BY <1>0, <1>3, <2>1 DEF InsertRow, TypeOK
    <3>2. local[FileOf[c]] = c
      BY <1>3, <2>1 DEF InsertRow, Written
    <3> QED
      BY <3>1, <3>2 DEF SentOf
  <2>2. CASE c # b
    BY <1>0, <1>1, <1>3, <2>2 DEF InsertRow, TypeOK, Listed
  <2> QED
    BY <2>1, <2>2
<1>4. ASSUME NEW b \in Backup, UploadStep(b) PROVE SentOf(c)'
  <2>0. Listed(c) /\ c \notin deleting
    BY <1>4, UploadStepShape DEF Listed
  <2>a. SentOf(c) /\ c # Nothing
    BY <2>0, StoreAssumption DEF Sent
  <2>b. \A k \in Route : Where(k, b) = Where("domain", c) => k = "domain" /\ b = c
    BY <1>0, WhereOwn
  <2>1. ASSUME NEW k \in Route, BeginUpload(k, b) PROVE SentOf(c)'
    <3>1. PICK to \in {"idle", "opening"} : uploadGoes(k, b, "started", to)
      BY <2>1 DEF BeginUpload
    <3>2. UNCHANGED <<local, object>>
      BY <2>1 DEF BeginUpload
    <3>3. CASE k = "domain" /\ b = c
      <4>1. row[c].remote # "successful"
        BY <1>0, <2>a, <3>1, <3>3, UploadMoves DEF SentOf
      <4>2. row'[c].remote # "successful"
        BY <2>1, <3>3, <4>1, UpdatedRemote DEF BeginUpload
      <4> QED
        BY <1>0, <2>a, <3>1, <3>2, <3>3, <4>2, UploadMoves DEF SentOf
    <3>4. CASE ~(k = "domain" /\ b = c)
      <4>1. row'[c].remote = row[c].remote
        BY <2>1, <3>4, UpdatedRemote DEF BeginUpload
      <4> QED
        BY <1>0, <1>1, <2>0, <3>1, <3>2, <3>4, <4>1, UploadMoves
    <3> QED
      BY <3>3, <3>4
  <2>2. ASSUME NEW k \in Route, OpenArchive(k, b) PROVE SentOf(c)'
    <3>1. PICK to \in {"sending", Refused(k)} : uploadGoes(k, b, "opening", to)
      BY <2>2 DEF OpenArchive
    <3>2. UNCHANGED <<local, row>>
      BY <2>2 DEF OpenArchive
    <3>3. CASE k = "domain" /\ b = c
      <4>1. row[c].remote # "successful"
        BY <1>0, <2>a, <3>1, <3>3, UploadMoves DEF SentOf
      <4>2. upload'["domain"][c] \in {"sending", "failing"}
        BY <1>0, <3>1, <3>3, UploadMoves DEF Refused
      <4>3. ASSUME upload'["domain"][c] = "sending"
            PROVE  object'[Where("domain", c)] # Nothing
        <5>1. object' = [object EXCEPT ![Where("domain", c)] =
                           [of |-> local[FileOf[c]], whole |-> FALSE]]
          BY <1>0, <2>2, <3>3, <4>3, UploadMoves DEF OpenArchive, Refused
        <5>2. [of |-> local[FileOf[c]], whole |-> FALSE] \in Object
          BY <2>a DEF SentOf, Object
        <5>3. [of |-> local[FileOf[c]], whole |-> FALSE] # Nothing
          BY <5>2, StoreAssumption
        <5> QED
          BY <1>0, <1>w, <5>1, <5>3 DEF TypeOK
      <4> QED
        BY <2>a, <3>2, <4>1, <4>2, <4>3 DEF SentOf, Where
    <3>4. CASE ~(k = "domain" /\ b = c)
      <4>1. object'[Where("domain", c)] = object[Where("domain", c)]
        BY <1>0, <1>w, <2>2, <2>b, <3>4, TransferTouches
      <4> QED
        BY <1>0, <1>1, <2>0, <3>1, <3>2, <3>4, <4>1, UploadMoves
    <3> QED
      BY <3>3, <3>4
  <2>3. ASSUME NEW k \in Route, Send(k, b) PROVE SentOf(c)'
    <3>1. PICK to \in {"sent", Refused(k)} : uploadGoes(k, b, "sending", to)
      BY <2>3 DEF Send
    <3>2. UNCHANGED <<local, row>>
      BY <2>3 DEF Send
    <3>3. CASE k = "domain" /\ b = c
      <4>1. row[c].remote # "successful" /\ object[Where("domain", c)] # Nothing
        BY <1>0, <2>a, <3>1, <3>3, UploadMoves DEF SentOf
      <4>2. upload'["domain"][c] \in {"sent", "failing"}
        BY <1>0, <3>1, <3>3, UploadMoves DEF Refused
      <4>3. object'[Where("domain", c)] # Nothing
        <5>1. object[Where("domain", c)] \in Object
          BY <1>0, <1>w, <4>1 DEF TypeOK
        <5>2. [of |-> object[Where("domain", c)].of, whole |-> TRUE] \in Object
          BY <5>1 DEF Object
        <5>3. [of |-> object[Where("domain", c)].of, whole |-> TRUE] # Nothing
          BY <5>2, StoreAssumption
        <5>4. \/ UNCHANGED object
              \/ object' = [object EXCEPT ![Where("domain", c)] =
                              [of |-> object[Where("domain", c)].of, whole |-> TRUE]]
          BY <2>3, <3>3 DEF Send
        <5> QED
          BY <1>0, <1>w, <4>1, <5>3, <5>4 DEF TypeOK
      <4> QED
        BY <2>a, <3>2, <4>1, <4>2, <4>3 DEF SentOf, Where
    <3>4. CASE ~(k = "domain" /\ b = c)
      <4>1. object'[Where("domain", c)] = object[Where("domain", c)]
        BY <1>0, <1>w, <2>3, <2>b, <3>4, TransferTouches
      <4> QED
        BY <1>0, <1>1, <2>0, <3>1, <3>2, <3>4, <4>1, UploadMoves
    <3> QED
      BY <3>3, <3>4
  <2>4. ASSUME NEW k \in Route, Verify(k, b) PROVE SentOf(c)'
    <3>1. PICK to \in Stage : uploadGoes(k, b, "sent", to)
      BY <2>4 DEF Verify, Refused, Stage
    <3>2. UNCHANGED <<local, object, row>>
      BY <2>4 DEF Verify
    <3>3. CASE k = "domain" /\ b = c
      <4>1. row[c].remote # "successful" /\ Measurable("domain", c) /\ local[FileOf[c]] = c
        BY <1>0, <2>a, <3>1, <3>3, UploadMoves DEF SentOf, Measurable
      <4>2. \/ upload'["domain"][c] = "failing"
            \/ upload'["domain"][c] = "recording" /\ ~SizesDiffer("domain", c)
        BY <1>0, <2>4, <3>3, <4>1, UploadMoves DEF Verify, Refused
      <4>3. CASE upload'["domain"][c] = "failing"
        BY <3>2, <4>1, <4>3 DEF SentOf
      <4>4. CASE upload'["domain"][c] = "recording" /\ ~SizesDiffer("domain", c)
        <5>1. object[Where("domain", c)] \in Object
          BY <1>0, <1>w, <4>1 DEF Measurable, TypeOK
        <5>2. Whole("domain", c)
          BY <2>a, <4>1, <4>4, <5>1 DEF SizesDiffer, Whole, Object
        <5> QED
          BY <3>2, <4>1, <4>4, <5>2 DEF SentOf, Whole, Where
      <4> QED
        BY <4>2, <4>3, <4>4
    <3>4. CASE ~(k = "domain" /\ b = c)
      BY <1>0, <1>1, <2>0, <3>1, <3>2, <3>4, UploadMoves
    <3> QED
      BY <3>3, <3>4
  <2>5. ASSUME NEW from \in {"failing", "recording"}, NEW v, Conclude(b, from, v),
               v = "successful" => from = "recording"
        PROVE  SentOf(c)'
    <3>1. uploadGoes("domain", b, from, "idle") /\ UNCHANGED <<local, object>>
      BY <2>5 DEF Conclude
    <3>2. CASE b = c
      <4>1. row[c].remote # "successful" /\ (from = "recording" => Whole("domain", c))
        BY <1>0, <2>a, <3>1, <3>2, UploadMoves DEF SentOf
      <4>2. row'[c].remote = row[c].remote \/ row'[c].remote = v
        BY <2>5, <3>2, UpdatedRemote DEF Conclude
      <4>3. row'[c].remote = "successful" => Whole("domain", c)
        BY <2>5, <4>1, <4>2
      <4> QED
        BY <1>0, <2>a, <3>1, <3>2, <4>3, UploadMoves DEF SentOf, Whole, Where
    <3>3. CASE b # c
      <4>1. row'[c].remote = row[c].remote
        BY <2>5, <3>3, UpdatedRemote DEF Conclude
      <4> QED
        BY <1>0, <1>1, <2>0, <3>1, <3>3, <4>1, UploadMoves
    <3> QED
      BY <3>2, <3>3
  <2>6. ~RemoveOffSiteLocalCopy(b) /\ ~MarkMoved(b)
    BY DEF NoRemoval, RemoveOffSiteLocalCopy, MarkMoved, uploadGoes
  <2> QED
    BY <1>4, <2>1, <2>2, <2>3, <2>4, <2>5, <2>6
       DEF UploadStep, failDestinationUpload, recordDestinationUpload
<1>5. ASSUME NEW x \in Deleter, RemoveArchive(x) PROVE SentOf(c)'
  <2>1. UNCHANGED <<row, deleting, upload, object>>
    BY <1>5 DEF RemoveArchive
  <2>2. PICK b \in deleter[x].todo : local' = [local EXCEPT ![FileOf[b]] = Nothing]
    BY <1>5 DEF RemoveArchive
  <2>3. b \in Backup /\ b # c
    BY <2>1, <2>2 DEF Doomed, TypeOK
  <2> QED
    BY <1>1, <2>1, <2>2, <2>3 DEF TypeOK, UniqueNames, Listed
<1>6. ASSUME NEW x \in Deleter, removeRemoteCopy(x) PROVE SentOf(c)'
  <2>1. UNCHANGED <<row, deleting, upload, local>>
    BY <1>6 DEF removeRemoteCopy
  <2>2. deleter[x].item \in Backup /\ deleter[x].item # c
    BY <1>6, <2>1 DEF removeRemoteCopy, Doomed, TypeOK
  <2>3. Where("domain", deleter[x].item) # Where("domain", c)
    BY <1>0, <2>2, WhereOwn
  <2>4. object'[Where("domain", c)] = object[Where("domain", c)]
    BY <1>w, <1>0, <1>6, <2>3 DEF removeRemoteCopy, TypeOK
  <2> QED
    BY <1>1, <2>1, <2>4 DEF Listed
<1>7. ASSUME NEW x \in Deleter, DeleteRow(x) PROVE SentOf(c)'
  <2>1. row'[c] = row[c] /\ Listed(c)
    BY <1>7, DeletionKeepsRows DEF Listed
  <2> QED
    BY <1>1, <1>7, <2>1 DEF DeleteRow
<1>8. ASSUME NEW x \in Deleter, NEW S, BeginRemoval(x, S) PROVE SentOf(c)'
  BY <1>1, <1>8 DEF BeginRemoval, Listed
<1>9. ASSUME recordIntegrity PROVE SentOf(c)'
  <2>1. UNCHANGED row \/ Update(scan.item, "verification", classifyIntegrity(scan.item))
    BY <1>9 DEF recordIntegrity
  <2>2. row'[c].remote = row[c].remote /\ Listed(c)
    BY <2>1, OtherFieldKeepsRemote DEF Listed
  <2> QED
    BY <1>1, <1>9, <2>2 DEF recordIntegrity
<1>10. ASSUME Restart PROVE SentOf(c)'
  <2>1. Listed(c) /\ c \notin deleting /\ (row'[c].remote = "successful" => row[c].remote = "successful")
    <3>1. UNCHANGED deleting BY <1>10 DEF Restart
    <3> QED BY <1>10, <3>1, RestartKeepsRow DEF Listed
  <2>2. upload'["domain"][c] = "idle" /\ UNCHANGED <<local, object>>
    BY <1>0, <1>10 DEF Restart
  <2> QED
    BY <2>1, <2>2 DEF Sent, SentOf, Whole, Where
<1>11. ASSUME StartScan \/ HashArchive \/ UNCHANGED vars PROVE SentOf(c)'
  BY <1>1, <1>11 DEF StartScan, HashArchive, vars, Listed
<1> QED
  BY <1>2, <1>3, <1>4, <1>5, <1>6, <1>7, <1>8, <1>9, <1>10, <1>11 DEF Next, Delete, prune

\* With delete-local off and destinations that tell an object's size, a row
\* says successful only of an archive that is whole at the domain's
\* destination (pushToDestinationAsync).
THEOREM SuccessfulMeansWhole ==
    ASSUME UniqueNames, ~DeleteLocal, ~Blind
    PROVE  Spec => []SuccessfulIsWhole
<1>1. Init => CopyInv /\ NoRemoval /\ Sent
  BY TypeInit, BookInit, CopyInit, SentInit DEF CopyInv
<1>2. CopyInv /\ NoRemoval /\ Sent /\ [Next]_vars => (CopyInv /\ NoRemoval /\ Sent)'
  BY TypeStep, FreshStep, DoomedStep, OwnFileStep, WrittenStep, KeptStep, NoRemovalStep,
     SentStep DEF CopyInv
<1>3. CopyInv /\ NoRemoval /\ Sent => SuccessfulIsWhole
  BY DEF Sent, SentOf, SuccessfulIsWhole
<1> QED
  BY <1>1, <1>2, <1>3, PTL DEF Spec

=============================================================================
