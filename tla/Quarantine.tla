----------------------------- MODULE Quarantine -----------------------------
(***************************************************************************)
(* The antivirus quarantine of one tenant (internal/antivirus,             *)
(* quarantine.go): a row of av_quarantine, the file in the store under     *)
(* <row id>_<base name>, and the tenant's tree, which a containment, a     *)
(* restore and a deletion change one after the other.  Requests run side   *)
(* by side, any step may fail, and the panel may stop between two.         *)
(*                                                                         *)
(* The contents of a file are "found" (what the scan reported), "part" (an *)
(* unfinished or empty file a restore left) or "own" (what the tenant put  *)
(* there since).  Refusals that change nothing (a core file, a path        *)
(* outside the home) are left out, and so is the size limit.               *)
(***************************************************************************)
EXTENDS Naturals

CONSTANTS
    Finding,       \* rows of av_findings
    Path,
    PathOf,        \* the file of a finding; two scans may report one file
    Handler,       \* the requests in flight
    Nothing,
    MaxRows, MaxFaults, MaxRestarts    \* bounds

QuarantineAssumption ==
    /\ PathOf \in [Finding -> Path]
    /\ Nothing \notin Finding \cup Path \cup Handler \cup {"found", "part", "own"}
    /\ {MaxRows, MaxFaults, MaxRestarts} \subseteq Nat

VARIABLES
    tree,       \* the tenant's files
    writing,    \* the restore that is still writing a file of the tree
    store,      \* the stored files, by the row id their names carry
    storeDir,   \* the tenant's directory in the store exists
    entry,      \* the rows of av_quarantine
    nextRow,
    flagged,    \* av_findings.quarantined
    req,
    back,       \* paths a restore has put back
    loss,       \* why a found file may be gone for good
    qFaults, qRestarts

quarantineVars == <<tree, writing, store, storeDir, entry, nextRow, flagged, req,
                    back, loss, qFaults, qRestarts>>

Row     == 1..MaxRows
Content == {"found", "part", "own"}
NoEntry == [state |-> "none", finding |-> Nothing, named |-> FALSE]
NotAsked == [at |-> "idle", finding |-> Nothing, row |-> 0, named |-> FALSE,
             content |-> Nothing]

PathOfRow(i) == PathOf[entry[i].finding]

QuarantineInit ==
    /\ tree = [p \in Path |-> "found"]
    /\ writing = [p \in Path |-> Nothing]
    /\ store = [i \in Row |-> Nothing]
    /\ storeDir = FALSE
    /\ entry = [i \in Row |-> NoEntry]
    /\ nextRow = 1
    /\ flagged = [f \in Finding |-> FALSE]
    /\ req = [r \in Handler |-> NotAsked]
    /\ back = {}
    /\ loss = [p \in Path |-> {}]
    /\ qFaults = 0 /\ qRestarts = 0

GoOn(r, step) == req' = [req EXCEPT ![r].at = step]
Done(r)       == req' = [req EXCEPT ![r] = NotAsked]
FileFault  == qFaults < MaxFaults /\ qFaults' = qFaults + 1
FileWorks  == UNCHANGED qFaults

-----------------------------------------------------------------------------
(* quarantineFinding, from the domain's page, the sweep's or after a scan. *)

AskQuarantine(r, f) ==
    /\ req[r] = NotAsked /\ ~flagged[f]
    /\ req' = [req EXCEPT ![r] = [NotAsked EXCEPT !.at = "record", !.finding = f]]
    /\ UNCHANGED <<tree, writing, store, storeDir, entry, nextRow, flagged,
                   back, loss, qFaults, qRestarts>>

\* The row goes first: the stored name carries its id.
record(r) ==
    /\ req[r].at = "record"
    /\ \/ /\ nextRow \in Row /\ FileWorks
          /\ entry' = [entry EXCEPT ![nextRow] =
                 [state |-> "held", finding |-> req[r].finding, named |-> FALSE]]
          /\ req' = [req EXCEPT ![r].at = "copy", ![r].row = nextRow]
          /\ nextRow' = nextRow + 1
       \/ FileFault /\ Done(r) /\ UNCHANGED <<entry, nextRow>>
    /\ UNCHANGED <<tree, writing, store, storeDir, flagged, back, loss, qRestarts>>

\* contain copies the file; a copy that breaks off is removed.
Copy(r) ==
    LET p == PathOf[req[r].finding]
    IN  /\ req[r].at = "copy"
        /\ \/ /\ tree[p] = Nothing
              /\ GoOn(r, "undo") /\ FileWorks
              /\ UNCHANGED <<store, storeDir, loss>>
           \/ /\ tree[p] # Nothing
              /\ storeDir' = TRUE
              /\ \/ /\ store' = [store EXCEPT ![req[r].row] = tree[p]]
                    /\ loss' = [loss EXCEPT ![p] =
                          IF writing[p] = Nothing THEN @ ELSE @ \cup {"torn"}]
                    /\ GoOn(r, "remove") /\ FileWorks
                 \/ FileFault /\ GoOn(r, "undo") /\ UNCHANGED <<store, loss>>
        /\ UNCHANGED <<tree, writing, entry, nextRow, flagged, back, qRestarts>>

\* A slip: the original survives and the copy is not taken back.
RemoveOriginalKeepsBoth(r) ==
    LET p == PathOf[req[r].finding]
    IN  /\ req[r].at = "remove"
        /\ GoOn(r, "name")
        /\ \/ /\ tree' = [tree EXCEPT ![p] = Nothing] /\ FileWorks
              /\ writing' = [writing EXCEPT ![p] = Nothing]
           \/ FileFault /\ UNCHANGED <<tree, writing>>
        /\ UNCHANGED <<store, storeDir, entry, nextRow, flagged, back, loss, qRestarts>>

\* The original goes last.  A removal that finds nothing is one that worked; a
\* restore still writing the file goes on writing one that has no name.  The
\* path is looked up again: another file may be there than the one copied.
RemoveOriginal(r) ==
    LET p == PathOf[req[r].finding]
    IN  /\ req[r].at = "remove"
        /\ \/ /\ tree' = [tree EXCEPT ![p] = Nothing] /\ FileWorks
              /\ writing' = [writing EXCEPT ![p] = Nothing]
              /\ loss' = [loss EXCEPT ![p] =
                     IF writing[p] # Nothing \/ tree[p] \notin {store[req[r].row], Nothing}
                     THEN @ \cup {"swapped"} ELSE @]
              /\ GoOn(r, "name")
              /\ UNCHANGED store
           \/ /\ FileFault /\ GoOn(r, "undo")
              /\ store' = [store EXCEPT ![req[r].row] = Nothing]
              /\ UNCHANGED <<tree, writing, loss>>
        /\ UNCHANGED <<storeDir, entry, nextRow, flagged, back, qRestarts>>

\* The row is given the stored name, if it is still there.
Name(r) ==
    /\ req[r].at = "name"
    /\ \/ /\ FileWorks /\ GoOn(r, "flag")
          /\ entry' = [entry EXCEPT ![req[r].row].named = (@ \/ entry[req[r].row].state # "deleted")]
       \/ FileFault /\ Done(r) /\ UNCHANGED entry
    /\ UNCHANGED <<tree, writing, store, storeDir, nextRow, flagged, back, loss, qRestarts>>

Flag(r) ==
    /\ req[r].at = "flag"
    /\ Done(r)
    /\ \/ FileWorks /\ flagged' = [flagged EXCEPT ![req[r].finding] = TRUE]
       \/ FileFault /\ UNCHANGED flagged
    /\ UNCHANGED <<tree, writing, store, storeDir, entry, nextRow, back, loss, qRestarts>>

\* The row of a containment that did not happen.
Undo(r) ==
    /\ req[r].at = "undo"
    /\ Done(r)
    /\ \/ FileWorks /\ entry' = [entry EXCEPT ![req[r].row].state = "deleted"]
       \/ FileFault /\ UNCHANGED entry
    /\ UNCHANGED <<tree, writing, store, storeDir, nextRow, flagged, back, loss, qRestarts>>

-----------------------------------------------------------------------------
(* restoreEntry.                                                           *)

AskRestore(r, i) ==
    /\ req[r] = NotAsked /\ entry[i].state = "held"
    /\ req' = [req EXCEPT ![r] = [NotAsked EXCEPT !.at = "open", !.row = i,
                                              !.named = entry[i].named]]
    /\ UNCHANGED <<tree, writing, store, storeDir, entry, nextRow, flagged,
                   back, loss, qFaults, qRestarts>>

\* The stored file is opened and the target created, which must not exist.  An
\* entry without a name opens the store's directory, which cannot be read: the
\* target stays behind, empty.
Open(r) ==
    LET i == req[r].row
        p == PathOfRow(i)
    IN  /\ req[r].at = "open"
        /\ \/ /\ IF req[r].named THEN store[i] = Nothing ELSE ~storeDir
              /\ Done(r) /\ FileWorks
              /\ UNCHANGED <<tree, writing>>
           \/ /\ tree[p] # Nothing
              /\ Done(r) /\ FileWorks
              /\ UNCHANGED <<tree, writing>>
           \/ /\ req[r].named /\ store[i] # Nothing /\ tree[p] = Nothing
              /\ tree' = [tree EXCEPT ![p] = "part"]
              /\ writing' = [writing EXCEPT ![p] = r]
              /\ req' = [req EXCEPT ![r].at = "stream", ![r].content = store[i]]
              /\ FileWorks
           \/ /\ ~req[r].named /\ storeDir /\ tree[p] = Nothing
              /\ tree' = [tree EXCEPT ![p] = "part"]
              /\ Done(r) /\ FileWorks
              /\ UNCHANGED writing
           \/ FileFault /\ Done(r) /\ UNCHANGED <<tree, writing>>
        /\ UNCHANGED <<store, storeDir, entry, nextRow, flagged, back, loss, qRestarts>>

\* A slip: what the copy returned is not looked at.
StreamIgnoresFailure(r) ==
    LET p == PathOfRow(req[r].row)
    IN  /\ req[r].at = "stream"
        /\ GoOn(r, "mark")
        /\ writing' = [writing EXCEPT ![p] = IF @ = r THEN Nothing ELSE @]
        /\ \/ /\ FileWorks /\ back' = back \cup {p}
              /\ tree' = [tree EXCEPT ![p] = IF writing[p] = r THEN req[r].content ELSE @]
           \/ FileFault /\ UNCHANGED <<tree, back>>
        /\ UNCHANGED <<store, storeDir, entry, nextRow, flagged, loss, qRestarts>>

\* A copy that breaks off leaves what it wrote.
Stream(r) ==
    LET p == PathOfRow(req[r].row)
    IN  /\ req[r].at = "stream"
        /\ writing' = [writing EXCEPT ![p] = IF @ = r THEN Nothing ELSE @]
        /\ \/ /\ FileWorks /\ back' = back \cup {p} /\ GoOn(r, "mark")
              /\ tree' = [tree EXCEPT ![p] = IF writing[p] = r THEN req[r].content ELSE @]
           \/ FileFault /\ Done(r) /\ UNCHANGED <<tree, back>>
        /\ UNCHANGED <<store, storeDir, entry, nextRow, flagged, loss, qRestarts>>

\* A slip: the stored copy goes before the row says so.
MarkAfterDrop(r) ==
    LET i == req[r].row
    IN  /\ req[r].at = "mark"
        /\ store' = [store EXCEPT ![i] = Nothing]
        /\ Done(r)
        /\ \/ /\ FileWorks
              /\ entry' = [entry EXCEPT ![i].state = IF @ = "held" THEN "restored" ELSE @]
           \/ FileFault /\ UNCHANGED entry
        /\ UNCHANGED <<tree, writing, storeDir, nextRow, flagged, back, loss, qRestarts>>

Mark(r) ==
    LET i == req[r].row
    IN  /\ req[r].at = "mark"
        /\ \/ /\ FileWorks /\ GoOn(r, "drop")
              /\ entry' = [entry EXCEPT ![i].state = IF @ = "held" THEN "restored" ELSE @]
           \/ FileFault /\ Done(r) /\ UNCHANGED entry
        /\ UNCHANGED <<tree, writing, store, storeDir, nextRow, flagged, back, loss, qRestarts>>

\* The stored copy goes last, and its failure is not looked at.
Drop(r) ==
    /\ req[r].at = "drop"
    /\ Done(r)
    /\ \/ FileWorks /\ store' = [store EXCEPT ![req[r].row] = Nothing]
       \/ FileFault /\ UNCHANGED store
    /\ UNCHANGED <<tree, writing, storeDir, entry, nextRow, flagged, back, loss, qRestarts>>

-----------------------------------------------------------------------------
(* deleteEntry.                                                            *)

AskDelete(r, i) ==
    /\ req[r] = NotAsked /\ entry[i].state \in {"held", "restored"}
    /\ req' = [req EXCEPT ![r] = [NotAsked EXCEPT !.at = "unlink", !.row = i,
                                              !.named = entry[i].named]]
    /\ UNCHANGED <<tree, writing, store, storeDir, entry, nextRow, flagged,
                   back, loss, qFaults, qRestarts>>

\* The stored file goes first.  For a row without a name RemoveAllBeneath is
\* given the directory itself: it empties it and then cannot remove it.
Unlink(r) ==
    LET i == req[r].row
    IN  /\ req[r].at = "unlink"
        /\ \/ /\ req[r].named /\ FileWorks /\ GoOn(r, "erase")
              /\ store' = [store EXCEPT ![i] = Nothing]
              /\ loss' = [loss EXCEPT ![PathOfRow(i)] =
                             IF store[i] = Nothing THEN @ ELSE @ \cup {"deleted"}]
           \/ /\ ~req[r].named /\ storeDir /\ FileWorks /\ Done(r)
              /\ store' = [j \in Row |-> Nothing]
              /\ loss' = [p \in Path |->
                     IF \E j \in Row : store[j] # Nothing /\ PathOfRow(j) = p
                     THEN loss[p] \cup {"wiped"} ELSE loss[p]]
           \/ /\ ~req[r].named /\ ~storeDir /\ FileWorks /\ GoOn(r, "erase")
              /\ UNCHANGED <<store, loss>>
           \/ FileFault /\ Done(r) /\ UNCHANGED <<store, loss>>
        /\ UNCHANGED <<tree, writing, storeDir, entry, nextRow, flagged, back, qRestarts>>

Erase(r) ==
    /\ req[r].at = "erase"
    /\ Done(r)
    /\ \/ FileWorks /\ entry' = [entry EXCEPT ![req[r].row].state = "deleted"]
       \/ FileFault /\ UNCHANGED entry
    /\ UNCHANGED <<tree, writing, store, storeDir, nextRow, flagged, back, loss, qRestarts>>

-----------------------------------------------------------------------------
\* The tenant works in the tree; deleting a file while a restore writes it is
\* the tenant's own choice and left out.
TenantUploads(p) ==
    /\ tree[p] = Nothing
    /\ tree' = [tree EXCEPT ![p] = "own"]
    /\ UNCHANGED <<writing, store, storeDir, entry, nextRow, flagged, req,
                   back, loss, qFaults, qRestarts>>

TenantRemoves(p) ==
    /\ tree[p] \in {"own", "part"} /\ writing[p] = Nothing
    /\ tree' = [tree EXCEPT ![p] = Nothing]
    /\ UNCHANGED <<writing, store, storeDir, entry, nextRow, flagged, req,
                   back, loss, qFaults, qRestarts>>

\* The panel stops and starts again; nothing heals an unfinished request.
QuarantineStops ==
    /\ qRestarts < MaxRestarts
    /\ qRestarts' = qRestarts + 1
    /\ req' = [r \in Handler |-> NotAsked]
    /\ writing' = [p \in Path |-> Nothing]
    /\ UNCHANGED <<tree, store, storeDir, entry, nextRow, flagged, back, loss, qFaults>>

QuarantineNext ==
    \/ \E r \in Handler :
         \/ \E f \in Finding : AskQuarantine(r, f)
         \/ record(r) \/ Copy(r) \/ RemoveOriginal(r) \/ Name(r) \/ Flag(r) \/ Undo(r)
         \/ \E i \in Row : AskRestore(r, i) \/ AskDelete(r, i)
         \/ Open(r) \/ Stream(r) \/ Mark(r) \/ Drop(r)
         \/ Unlink(r) \/ Erase(r)
    \/ \E p \in Path : TenantUploads(p) \/ TenantRemoves(p)
    \/ QuarantineStops

QuarantineSpec == QuarantineInit /\ [][QuarantineNext]_quarantineVars

-----------------------------------------------------------------------------
\* The types of the variables.
QuarantineTypeOK ==
    /\ tree \in [Path -> Content \cup {Nothing}]
    /\ writing \in [Path -> Handler \cup {Nothing}]
    /\ store \in [Row -> Content \cup {Nothing}]
    /\ storeDir \in BOOLEAN
    /\ entry \in [Row -> [state : {"none", "held", "restored", "deleted"},
                          finding : Finding \cup {Nothing}, named : BOOLEAN]]
    /\ nextRow \in 1..(MaxRows + 1)
    /\ flagged \in [Finding -> BOOLEAN]
    /\ req \in [Handler -> [at : {"idle", "record", "copy", "remove", "name", "flag", "undo",
                                  "open", "stream", "mark", "drop", "unlink", "erase"},
                            finding : Finding \cup {Nothing}, row : 0..MaxRows,
                            named : BOOLEAN, content : Content \cup {Nothing}]]
    /\ back \subseteq Path
    /\ loss \in [Path -> SUBSET {"deleted", "wiped", "torn", "swapped"}]
    /\ qFaults \in 0..MaxFaults /\ qRestarts \in 0..MaxRestarts

(***************************************************************************)
(* Whatever fails and wherever the panel stops, a file that was found is   *)
(* in the tree or in the store (contain: the original is removed last,     *)
(* restoreEntry: the stored copy is), until an entry is deleted or a       *)
(* restore changes the path under a containment: one that copies the file  *)
(* while it is still being written, or removes another than it copied.     *)
(***************************************************************************)
FoundIsKept ==
    \A p \in Path :
        \/ loss[p] # {}
        \/ tree[p] = "found"
        \/ \E i \in Row : store[i] = "found" /\ PathOfRow(i) = p

(***************************************************************************)
(* An entry that offers a restore under its stored name has its file       *)
(* (restoreEntry marks the row before it drops the copy), unless a         *)
(* deletion took it.                                                       *)
(***************************************************************************)
HeldEntryHasItsFile ==
    \A i \in Row :
        entry[i].state = "held" /\ entry[i].named =>
            store[i] # Nothing \/ loss[PathOfRow(i)] \cap {"deleted", "wiped"} # {}

(***************************************************************************)
(* A finding is marked as quarantined only when its file has left the tree *)
(* (contain: "the file is NOT contained. Take the copy back rather than    *)
(* report a containment that did not happen"): the found file is there     *)
(* again only where a restore put one back.                                *)
(***************************************************************************)
FlaggedIsContained ==
    \A f \in Finding :
        flagged[f] /\ tree[PathOf[f]] = "found" => PathOf[f] \in back
=============================================================================
