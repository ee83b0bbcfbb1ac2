----------------------------- MODULE BackupOps -----------------------------
(***************************************************************************)
(* Backups and restores of tenant sites running side by side.              *)
(*                                                                         *)
(* internal/backups guards a run with two in-memory claims.  The domain    *)
(* gate (domainlock.go) is refused to a second run of the same domain id.  *)
(* The staging slot (granular.go) is waited for, and is keyed by the       *)
(* system user, because an addon or subdomain row carries its parent's     *)
(* system_user: several domains may share one home, one staging directory  *)
(* and one <system_user>_main schema.                                      *)
(*                                                                         *)
(* An Op is one goroutine: the HTTP backup or restore of one domain, or    *)
(* the turn of one domain in a bulk job or in the nightly pass.            *)
(***************************************************************************)
EXTENDS Naturals, FiniteSets

CONSTANTS
    Op,           \* the goroutines that run a backup or a restore
    Domain,       \* ids of the rows of the domains table
    User,         \* system users
    Database,     \* schema names
    UserOf,       \* system_user of a domain row
    DatabasesOf,  \* domainDatabases: <system_user>_main and the db_accounts rows
    NoOp,         \* nobody; as a writer, a process that is gone
    NoDomain,     \* no domain; as a tenant, none
    MaxRestarts   \* bound on the panel restarts that are explored

ASSUME OpsAssumption ==
    /\ UserOf \in [Domain -> User]
    /\ DatabasesOf \in [Domain -> SUBSET Database]
    /\ NoOp \notin Op
    /\ NoDomain \notin Domain \cup User
    /\ MaxRestarts \in Nat

VARIABLES
    gate,      \* domainOperations: the run that holds a domain
    slot,      \* stagingSlots: the run that holds a tenant's staging directory
    staged,    \* the dumps in <backupRoot>/<user>/__db__, each with its writer
    phase,     \* where each run is
    target,    \* the domain it works on
    mode,      \* what it does
    todo,      \* databases dumpDatabases has not tried yet
    written,   \* databases whose dump completed
    packed,    \* the dumps tar put into the archive
    ok,        \* whether buildArchive is returning an archive
    mixed,     \* a restore wrote what this run was reading, while it read it
    rows,      \* the newest row of each domain in the backups table
    restarts

vars == <<gate, slot, staged, phase, target, mode, todo, written, packed, ok,
          mixed, rows, restarts>>

Mode == {"backup", "full", "files", "database"}

\* The phases in which a run believes that it has the staging directory.
StagingPhase == {"resetting", "dumping", "archiving", "clearing", "freeing"}
BackupPhase  == StagingPhase \cup {"waiting", "recording"}
RestorePhase == {"fetching", "rewriting", "importing"}
\* The phases in which a run believes that it has the domain.
ClaimedPhase == BackupPhase \cup RestorePhase \cup {"releasing"}
Phase        == ClaimedPhase \cup {"idle"}

Dump == (Op \cup {NoOp}) \X Database

Row == [dom : Domain, by : Op, written : SUBSET Database,
        dumps : SUBSET Dump, mixed : BOOLEAN]

user(o) == UserOf[target[o]]

(***************************************************************************)
(* The home tree belongs to the system user; a schema is shared by the     *)
(* domains that list it.                                                   *)
(***************************************************************************)
SharesHome(o, p)   == UserOf[target[o]] = UserOf[target[p]]
SharesSchema(o, p) == DatabasesOf[target[o]] \cap DatabasesOf[target[p]] # {}

Rewriters(o) == {p \in Op : phase[p] = "rewriting" /\ SharesHome(o, p)}
Importers(o) == {p \in Op : phase[p] = "importing" /\ SharesSchema(o, p)}
TreeReaders(o) == {p \in Op : phase[p] = "archiving" /\ SharesHome(o, p)}
SchemaReaders(o) == {p \in Op : phase[p] = "dumping" /\ SharesSchema(o, p)}

-----------------------------------------------------------------------------

Init ==
    /\ gate = [d \in Domain |-> NoOp]
    /\ slot = [u \in User |-> NoOp]
    /\ staged = [u \in User |-> {}]
    /\ phase = [o \in Op |-> "idle"]
    /\ target = [o \in Op |-> NoDomain]
    /\ mode = [o \in Op |-> "backup"]
    /\ todo = [o \in Op |-> {}]
    /\ written = [o \in Op |-> {}]
    /\ packed = [o \in Op |-> {}]
    /\ ok = [o \in Op |-> FALSE]
    /\ mixed = [o \in Op |-> FALSE]
    /\ rows = {}
    /\ restarts = 0

\* A slip: the claim of the progress record, a check and then a separate write.
lockDomainUnchecked(o, d) == gate' = [gate EXCEPT ![d] = o]

(***************************************************************************)
(* lockDomain: the claim decides and stores in one step.  A run that finds *)
(* the gate taken is answered ErrDomainBusy and changes nothing.           *)
(***************************************************************************)
lockDomain(o, d) ==
    /\ gate[d] = NoOp
    /\ gate' = [gate EXCEPT ![d] = o]

StartRun(o, d, m, first) ==
    /\ phase[o] = "idle"
    /\ lockDomain(o, d)
    /\ phase' = [phase EXCEPT ![o] = first]
    /\ target' = [target EXCEPT ![o] = d]
    /\ mode' = [mode EXCEPT ![o] = m]
    /\ UNCHANGED <<slot, staged, todo, written, packed, ok, mixed, rows, restarts>>

\* Create and its backupTask, or backupOneDomain, up to the call of buildArchive.
StartBackup(o, d) == StartRun(o, d, "backup", "waiting")

\* Restore or restoreCore.  The modes "file" and "db" of the single-domain
\* endpoint write the same resources as "files" and "database".
StartRestore(o, d, m) == m # "backup" /\ StartRun(o, d, m, "fetching")

-----------------------------------------------------------------------------
(* The backup.                                                             *)

\* A slip: a slot keyed by the domain id does not exclude a sibling domain.
lockStagingPerDomain(o) ==
    /\ phase[o] = "waiting"
    /\ slot' = [slot EXCEPT ![user(o)] = o]
    /\ phase' = [phase EXCEPT ![o] = "resetting"]
    /\ UNCHANGED <<gate, staged, target, mode, todo, written, packed, ok, mixed, rows, restarts>>

\* lockStaging: waits for the tenant's slot.
lockStaging(o) ==
    /\ phase[o] = "waiting"
    /\ slot[user(o)] = NoOp
    /\ slot' = [slot EXCEPT ![user(o)] = o]
    /\ phase' = [phase EXCEPT ![o] = "resetting"]
    /\ UNCHANGED <<gate, staged, target, mode, todo, written, packed, ok, mixed, rows, restarts>>

\* A slip: the directory is made, and what it already holds is kept.
ResetStagingKeeps(o) ==
    /\ phase[o] = "resetting"
    /\ phase' = [phase EXCEPT ![o] = "dumping"]
    /\ todo' = [todo EXCEPT ![o] = DatabasesOf[target[o]]]
    /\ mixed' = [mixed EXCEPT ![o] = Importers(o) # {}]
    /\ UNCHANGED <<gate, slot, staged, target, mode, written, packed, ok, rows, restarts>>

\* takeStagingDir after the claim: RemoveAll, MkdirAll; then domainDatabases.
ResetStaging(o) ==
    /\ phase[o] = "resetting"
    /\ staged' = [staged EXCEPT ![user(o)] = {}]
    /\ phase' = [phase EXCEPT ![o] = "dumping"]
    /\ todo' = [todo EXCEPT ![o] = DatabasesOf[target[o]]]
    /\ mixed' = [mixed EXCEPT ![o] = Importers(o) # {}]
    /\ UNCHANGED <<gate, slot, target, mode, written, packed, ok, rows, restarts>>

\* dumpDatabase: a dump that failed or came out truncated is removed.
dumpDatabase(o, db) ==
    /\ phase[o] = "dumping"
    /\ db \in todo[o]
    /\ todo' = [todo EXCEPT ![o] = @ \ {db}]
    /\ LET others == {x \in staged[user(o)] : x[2] # db}
       IN  \/ /\ staged' = [staged EXCEPT ![user(o)] = others \cup {<<o, db>>}]
              /\ written' = [written EXCEPT ![o] = @ \cup {db}]
           \/ /\ staged' = [staged EXCEPT ![user(o)] = others]
              /\ UNCHANGED written
    /\ UNCHANGED <<gate, slot, phase, target, mode, packed, ok, mixed, rows, restarts>>

\* buildArchive once every database was tried: at least one must have dumped.
StartArchive(o) ==
    /\ phase[o] = "dumping"
    /\ todo[o] = {}
    /\ written[o] # {} \/ DatabasesOf[target[o]] = {}
    /\ phase' = [phase EXCEPT ![o] = "archiving"]
    /\ mixed' = [mixed EXCEPT ![o] = @ \/ Rewriters(o) # {}]
    /\ UNCHANGED <<gate, slot, staged, target, mode, todo, written, packed, ok, rows, restarts>>

\* packageArchive returning an archive: tar exit 0, or 1 (a file changed).
packageArchive(o) ==
    /\ phase[o] = "archiving"
    /\ packed' = [packed EXCEPT ![o] = staged[user(o)]]
    /\ ok' = [ok EXCEPT ![o] = TRUE]
    /\ phase' = [phase EXCEPT ![o] = "clearing"]
    /\ UNCHANGED <<gate, slot, staged, target, mode, todo, written, mixed, rows, restarts>>

\* The release takeStagingDir returned: first the directory, then the slot.
ClearStaging(o) ==
    /\ phase[o] = "clearing"
    /\ staged' = [staged EXCEPT ![user(o)] = {}]
    /\ phase' = [phase EXCEPT ![o] = "freeing"]
    /\ UNCHANGED <<gate, slot, target, mode, todo, written, packed, ok, mixed, rows, restarts>>

FreeSlot(o) ==
    /\ phase[o] = "freeing"
    /\ slot' = [slot EXCEPT ![user(o)] = NoOp]
    /\ phase' = [phase EXCEPT ![o] = IF ok[o] THEN "recording" ELSE "releasing"]
    /\ UNCHANGED <<gate, staged, target, mode, todo, written, packed, ok, mixed, rows, restarts>>

(***************************************************************************)
(* The INSERT INTO backups, with the archive's checksum and verdict "ok".  *)
(* The model keeps the newest row of each domain only: what is said of a   *)
(* row is said when it is recorded.                                        *)
(***************************************************************************)
RecordBackup(o) ==
    /\ phase[o] = "recording"
    /\ rows' = {r \in rows : r.dom # target[o]}
                 \cup {[dom |-> target[o], by |-> o, written |-> written[o],
                        dumps |-> packed[o], mixed |-> mixed[o]]}
    /\ phase' = [phase EXCEPT ![o] = "releasing"]
    /\ UNCHANGED <<gate, slot, staged, target, mode, todo, written, packed, ok, mixed, restarts>>

-----------------------------------------------------------------------------
(* The restore.                                                            *)

\* stageMembers extracted what the mode needs; restoreHome starts its rsync.
BeginRewrite(o) ==
    /\ phase[o] = "fetching"
    /\ mode[o] \in {"full", "files"}
    /\ phase' = [phase EXCEPT ![o] = "rewriting"]
    /\ mixed' = [p \in Op |-> mixed[p] \/ p \in TreeReaders(o)]
    /\ UNCHANGED <<gate, slot, staged, target, mode, todo, written, packed, ok, rows, restarts>>

\* restoreAllDBs: the SQL imports, after the home in a full restore.
BeginImport(o) ==
    /\ \/ phase[o] = "fetching" /\ mode[o] = "database"
       \/ phase[o] = "rewriting" /\ mode[o] = "full"
    /\ phase' = [phase EXCEPT ![o] = "importing"]
    /\ mixed' = [p \in Op |-> mixed[p] \/ p \in SchemaReaders(o)]
    /\ UNCHANGED <<gate, slot, staged, target, mode, todo, written, packed, ok, rows, restarts>>

FinishRestore(o) ==
    /\ \/ phase[o] = "importing"
       \/ phase[o] = "rewriting" /\ mode[o] = "files"
    /\ phase' = [phase EXCEPT ![o] = "releasing"]
    /\ UNCHANGED <<gate, slot, staged, target, mode, todo, written, packed, ok, mixed, rows, restarts>>

-----------------------------------------------------------------------------
(* Errors, deadlines, panics, the end of a run, and the panel going away.  *)

\* A slip: an error of buildArchive returns past the release of the slot.
FailKeepsSlot(o) ==
    /\ phase[o] \in {"waiting", "resetting", "dumping", "archiving", "recording"}
                       \cup RestorePhase
    /\ phase' = [phase EXCEPT ![o] = "releasing"]
    /\ UNCHANGED <<gate, slot, staged, target, mode, todo, written, packed, ok, mixed, rows, restarts>>

\* A slip: an error before the archive returns past the release of the domain.
FailKeepsDomain(o) ==
    /\ phase[o] \in {"waiting", "fetching"}
    /\ phase' = [phase EXCEPT ![o] = "idle"]
    /\ UNCHANGED <<gate, slot, staged, target, mode, todo, written, packed, ok, mixed, rows, restarts>>

(***************************************************************************)
(* Every early return, every deadline or cancellation of the run's context *)
(* and every panic unwinds through the deferred releases that were already *)
(* registered.                                                             *)
(***************************************************************************)
Fail(o) ==
    /\ phase[o] \in {"waiting", "resetting", "dumping", "archiving", "recording"}
                       \cup RestorePhase
    /\ phase' = [phase EXCEPT ![o] =
           IF phase[o] \in {"dumping", "archiving"} THEN "clearing"
           ELSE IF phase[o] = "resetting" THEN "freeing"
           ELSE "releasing"]
    /\ UNCHANGED <<gate, slot, staged, target, mode, todo, written, packed, ok, mixed, rows, restarts>>

\* A slip: the run gives the domain back and carries on as if it had it.
ReleaseDomainEarly(o) ==
    /\ phase[o] = "releasing"
    /\ gate' = [gate EXCEPT ![target[o]] = NoOp]
    /\ target' = [target EXCEPT ![o] = NoDomain]
    /\ UNCHANGED <<slot, staged, phase, mode, todo, written, packed, ok, mixed, rows, restarts>>

\* The release lockDomain returned, run by the deferred call.
ReleaseDomain(o) ==
    /\ phase[o] = "releasing"
    /\ gate' = [gate EXCEPT ![target[o]] = NoOp]
    /\ phase' = [phase EXCEPT ![o] = "idle"]
    /\ target' = [target EXCEPT ![o] = NoDomain]
    /\ todo' = [todo EXCEPT ![o] = {}]
    /\ written' = [written EXCEPT ![o] = {}]
    /\ packed' = [packed EXCEPT ![o] = {}]
    /\ ok' = [ok EXCEPT ![o] = FALSE]
    /\ mixed' = [mixed EXCEPT ![o] = FALSE]
    /\ UNCHANGED <<slot, staged, mode, rows, restarts>>

(***************************************************************************)
(* The panel process ends and starts again.  Both claims are in memory and *)
(* go with it; what was staged stays on the disk with no run behind it.    *)
(***************************************************************************)
Restart ==
    /\ restarts < MaxRestarts
    /\ restarts' = restarts + 1
    /\ gate' = [d \in Domain |-> NoOp]
    /\ slot' = [u \in User |-> NoOp]
    /\ staged' = [u \in User |-> {<<NoOp, x[2]>> : x \in staged[u]}]
    /\ phase' = [o \in Op |-> "idle"]
    /\ target' = [o \in Op |-> NoDomain]
    /\ todo' = [o \in Op |-> {}]
    /\ written' = [o \in Op |-> {}]
    /\ packed' = [o \in Op |-> {}]
    /\ ok' = [o \in Op |-> FALSE]
    /\ mixed' = [o \in Op |-> FALSE]
    /\ UNCHANGED <<mode, rows>>

-----------------------------------------------------------------------------

Advance(o) ==
    \/ lockStaging(o)
    \/ ResetStaging(o)
    \/ \E db \in Database : dumpDatabase(o, db)
    \/ StartArchive(o)
    \/ packageArchive(o)
    \/ ClearStaging(o)
    \/ FreeSlot(o)
    \/ RecordBackup(o)
    \/ BeginRewrite(o)
    \/ BeginImport(o)
    \/ FinishRestore(o)
    \/ Fail(o)
    \/ ReleaseDomain(o)

Start(o) ==
    \E d \in Domain :
        \/ StartBackup(o, d)
        \/ \E m \in Mode : StartRestore(o, d, m)

Next == (\E o \in Op : Start(o) \/ Advance(o)) \/ Restart

Spec == Init /\ [][Next]_vars

(***************************************************************************)
(* Every step of a run is bounded by the deadline of its context (20, 25,  *)
(* 30 or 60 minutes), so a run that can go on does.  Nobody has to start   *)
(* one.                                                                    *)
(***************************************************************************)
FairSpec == Spec /\ \A o \in Op : WF_vars(Advance(o))

-----------------------------------------------------------------------------
(* Properties.                                                             *)

\* The types of the variables.
TypeOK ==
    /\ gate \in [Domain -> Op \cup {NoOp}]
    /\ slot \in [User -> Op \cup {NoOp}]
    /\ staged \in [User -> SUBSET Dump]
    /\ phase \in [Op -> Phase]
    /\ target \in [Op -> Domain \cup {NoDomain}]
    /\ \A o \in Op : phase[o] # "idle" => target[o] \in Domain
    /\ mode \in [Op -> Mode]
    /\ todo \in [Op -> SUBSET Database]
    /\ written \in [Op -> SUBSET Database]
    /\ packed \in [Op -> SUBSET Dump]
    /\ ok \in [Op -> BOOLEAN]
    /\ mixed \in [Op -> BOOLEAN]
    /\ rows \subseteq Row
    /\ restarts \in 0 .. MaxRestarts

(***************************************************************************)
(* Two runs never work on one domain, whichever of the four entry points   *)
(* (Create, Restore, backupOneDomain, restoreCore) started them.           *)
(***************************************************************************)
DomainExclusive ==
    \A o, p \in Op :
        /\ phase[o] \in ClaimedPhase /\ phase[p] \in ClaimedPhase
        /\ target[o] = target[p]
        => o = p

(***************************************************************************)
(* Two runs never have one tenant's __db__ directory, even when they work  *)
(* on two domains of the tenant: takeStagingDir removes the directory on   *)
(* the way in and its release removes it again on the way out.             *)
(***************************************************************************)
StagingExclusive ==
    \A o, p \in Op :
        /\ phase[o] \in StagingPhase /\ phase[p] \in StagingPhase
        /\ user(o) = user(p)
        => o = p

(***************************************************************************)
(* A recorded archive holds exactly the dumps its own run completed: none  *)
(* of a sibling domain's run, none a dead process left in the directory,   *)
(* and none missing although the manifest (written) lists it.              *)
(***************************************************************************)
ArchiveHoldsOwnDumps ==
    \A r \in rows : r.dumps = {r.by} \X r.written

(***************************************************************************)
(* No archive was recorded while a restore wrote the tree or a schema it   *)
(* was reading: it would be a normal, checksum-verified row of a           *)
(* half-rewritten site (the comment of domainlock.go).                     *)
(***************************************************************************)
NoMixedArchive == \A r \in rows : ~r.mixed

Private(d) ==
    \A e \in Domain :
        UserOf[d] = UserOf[e] \/ DatabasesOf[d] \cap DatabasesOf[e] # {} => d = e

(***************************************************************************)
(* The gate does protect a domain that shares its system user and schemas  *)
(* with no other: no archive of such a domain overlapped a restore, also   *)
(* while the domains of other tenants share theirs.                        *)
(***************************************************************************)
PrivateArchiveIsWhole == \A r \in rows : Private(r.dom) => ~r.mixed

(***************************************************************************)
(* A domain that was claimed is given back: no error, deadline, wait for   *)
(* the staging slot or panic leaves it answering ErrDomainBusy for ever.   *)
(***************************************************************************)
DomainIsReleased ==
    \A d \in Domain : gate[d] # NoOp ~> gate[d] = NoOp

\* The tenant's staging slot is handed on (lockStaging waits for it).
SlotIsReleased ==
    \A u \in User : slot[u] # NoOp ~> slot[u] = NoOp

(***************************************************************************)
(* What the two claims promise, stated without them: see ExclusiveUse.     *)
(***************************************************************************)
DomainUse == INSTANCE ExclusiveUse WITH
    Resource <- Domain, NoResource <- NoDomain, User <- Op,
    using <- [o \in Op |-> IF phase[o] = "idle" THEN NoDomain ELSE target[o]]

DomainUseSpec == DomainUse!Spec

\* The tenant's staging directory, from taking the slot to giving it back.
StagingUse == INSTANCE ExclusiveUse WITH
    Resource <- User, NoResource <- NoDomain, User <- Op,
    using <- [o \in Op |-> IF phase[o] \in StagingPhase THEN user(o) ELSE NoDomain]

StagingUseSpec == StagingUse!Spec
=============================================================================
