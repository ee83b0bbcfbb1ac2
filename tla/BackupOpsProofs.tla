-------------------------- MODULE BackupOpsProofs --------------------------
(***************************************************************************)
(* What the two claims of internal/backups guarantee for any number of     *)
(* runs, domains, system users and databases.                              *)
(***************************************************************************)
EXTENDS BackupOps, TLAPS

(***************************************************************************)
(* The inductive invariant.  Exclusion alone is not inductive: it follows  *)
(* from who the two tables say the holder is.                              *)
(***************************************************************************)
GateHeld == \A o \in Op : phase[o] # "idle" => gate[target[o]] = o

SlotHeld == \A o \in Op : phase[o] \in StagingPhase => slot[user(o)] = o

\* Between its reset and its tar a run finds its own dumps in the directory.
StagedOwn ==
    \A o \in Op : phase[o] \in {"dumping", "archiving"}
                      => staged[user(o)] = {o} \X written[o]

\* A run that has not reset the directory yet has dumped and packed nothing,
\* and a database is tried once.
FreshStart ==
    \A o \in Op :
        /\ phase[o] \in {"idle", "waiting", "resetting"} => written[o] = {}
        /\ phase[o] = "dumping" => written[o] \cap todo[o] = {}
        /\ phase[o] \in {"idle", "waiting", "resetting", "dumping", "archiving"}
               => ok[o] = FALSE
        /\ phase[o] = "recording" => ok[o] = TRUE

PackedOwn == \A o \in Op : ok[o] = TRUE => packed[o] = {o} \X written[o]

IInv == /\ TypeOK
        /\ GateHeld
        /\ SlotHeld
        /\ StagedOwn
        /\ FreshStart
        /\ PackedOwn
        /\ ArchiveHoldsOwnDumps

-----------------------------------------------------------------------------

\* The variables start, and every step leaves them, within their types.
LEMMA TypeInit == Init => TypeOK
BY OpsAssumption DEF Init, TypeOK, Phase, ClaimedPhase, BackupPhase, StagingPhase,
   RestorePhase, Mode, Dump

\* Every step leaves the variables within their types.
LEMMA TypeStep == TypeOK /\ [Next]_vars => TypeOK'
<1> SUFFICES ASSUME TypeOK, [Next]_vars PROVE TypeOK'
  OBVIOUS
<1> USE OpsAssumption DEF TypeOK, Phase, ClaimedPhase, BackupPhase, StagingPhase,
        RestorePhase, Mode
<1>1. ASSUME NEW o \in Op, NEW d \in Domain, NEW m \in Mode, NEW f \in {"waiting", "fetching"},
             StartRun(o, d, m, f)
      PROVE  TypeOK'
  BY <1>1 DEF StartRun, lockDomain
<1>2. ASSUME NEW o \in Op, lockStaging(o) PROVE TypeOK'
  BY <1>2 DEF lockStaging, user
<1>3. ASSUME NEW o \in Op, ResetStaging(o) PROVE TypeOK'
  BY <1>3 DEF ResetStaging, user
<1>4. ASSUME NEW o \in Op, NEW db \in Database, dumpDatabase(o, db) PROVE TypeOK'
  <2> DEFINE others == {x \in staged[user(o)] : x[2] # db}
  <2>1. user(o) \in User /\ others \in SUBSET Dump /\ <<o, db>> \in Dump
    BY <1>4 DEF dumpDatabase, user, Dump
  <2>2. staged' \in [User -> SUBSET Dump]
    BY <1>4, <2>1 DEF dumpDatabase
  <2>3. QED
    BY <1>4, <2>2 DEF dumpDatabase
<1>5. ASSUME NEW o \in Op, StartArchive(o) PROVE TypeOK'
  BY <1>5 DEF StartArchive
<1>6. ASSUME NEW o \in Op, packageArchive(o) PROVE TypeOK'
  BY <1>6 DEF packageArchive, user
<1>7. ASSUME NEW o \in Op, ClearStaging(o) PROVE TypeOK'
  BY <1>7 DEF ClearStaging, user
<1>8. ASSUME NEW o \in Op, FreeSlot(o) PROVE TypeOK'
  BY <1>8 DEF FreeSlot, user
<1>9. ASSUME NEW o \in Op, RecordBackup(o) PROVE TypeOK'
  <2>1. [dom |-> target[o], by |-> o, written |-> written[o],
         dumps |-> packed[o], mixed |-> mixed[o]] \in Row
    BY <1>9 DEF RecordBackup, Row
  <2>2. rows' \subseteq Row
    BY <1>9, <2>1 DEF RecordBackup
  <2>3. QED
    BY <1>9, <2>2 DEF RecordBackup
<1>10. ASSUME NEW o \in Op, BeginRewrite(o) PROVE TypeOK'
  BY <1>10 DEF BeginRewrite
<1>11. ASSUME NEW o \in Op, BeginImport(o) PROVE TypeOK'
  BY <1>11 DEF BeginImport
<1>12. ASSUME NEW o \in Op, FinishRestore(o) PROVE TypeOK'
  BY <1>12 DEF FinishRestore
<1>13. ASSUME NEW o \in Op, Fail(o) PROVE TypeOK'
  BY <1>13 DEF Fail
<1>14. ASSUME NEW o \in Op, ReleaseDomain(o) PROVE TypeOK'
  BY <1>14 DEF ReleaseDomain
<1>15. ASSUME Restart PROVE TypeOK'
  <2>1. staged' \in [User -> SUBSET Dump]
    BY <1>15 DEF Restart, Dump
  <2>2. QED
    BY <1>15, <2>1 DEF Restart
<1>16. CASE UNCHANGED vars
  BY <1>16 DEF vars
<1>17. QED
  BY <1>1, <1>2, <1>3, <1>4, <1>5, <1>6, <1>7, <1>8, <1>9, <1>10, <1>11, <1>12,
     <1>13, <1>14, <1>15, <1>16
     DEF Next, Start, StartBackup, StartRestore, Advance

-----------------------------------------------------------------------------

(***************************************************************************)
(* A step inside a run neither claims nor gives back a domain, keeps every *)
(* run on its domain and starts no run.                                    *)
(***************************************************************************)
Inner(o) ==
    \/ lockStaging(o) \/ ResetStaging(o) \/ (\E db \in Database : dumpDatabase(o, db))
    \/ StartArchive(o) \/ packageArchive(o) \/ ClearStaging(o) \/ FreeSlot(o)
    \/ RecordBackup(o) \/ BeginRewrite(o) \/ BeginImport(o) \/ FinishRestore(o) \/ Fail(o)

\* A step inside a run changes neither table of claims.
LEMMA InnerKeepsClaims ==
    ASSUME TypeOK, NEW o \in Op, Inner(o)
    PROVE  /\ gate' = gate /\ target' = target
           /\ phase[o] # "idle" /\ phase[o] # "releasing"
           /\ \A p \in Op : p # o => phase'[p] = phase[p]
BY DEF Inner, TypeOK, lockStaging, ResetStaging, dumpDatabase, StartArchive, packageArchive,
   ClearStaging, FreeSlot, RecordBackup, BeginRewrite, BeginImport, FinishRestore, Fail,
   RestorePhase

\* The steps of a run, told apart.
LEMMA NextCases ==
    ASSUME [Next]_vars
    PROVE  \/ \E o \in Op, d \in Domain, m \in Mode, f \in {"waiting", "fetching"} :
                  StartRun(o, d, m, f)
           \/ \E o \in Op : Inner(o)
           \/ \E o \in Op : ReleaseDomain(o)
           \/ Restart
           \/ UNCHANGED vars
BY DEF Next, Start, StartBackup, StartRestore, Advance, Inner, Mode

\* Every step keeps the gate with the run that claimed it.
LEMMA GateStep ==
    ASSUME TypeOK, GateHeld, [Next]_vars
    PROVE  GateHeld'
<1>1. ASSUME NEW o \in Op, NEW d \in Domain, NEW m \in Mode, NEW f \in {"waiting", "fetching"},
             StartRun(o, d, m, f)
      PROVE  GateHeld'
  BY <1>1, OpsAssumption DEF StartRun, lockDomain, GateHeld, TypeOK
<1>2. ASSUME NEW o \in Op, Inner(o)
      PROVE  GateHeld'
  BY <1>2, InnerKeepsClaims DEF GateHeld
<1>3. ASSUME NEW o \in Op, ReleaseDomain(o)
      PROVE  GateHeld'
  BY <1>3, OpsAssumption DEF ReleaseDomain, GateHeld, TypeOK
<1>4. ASSUME Restart
      PROVE  GateHeld'
  BY <1>4 DEF Restart, GateHeld
<1>5. CASE UNCHANGED vars
  BY <1>5 DEF vars, GateHeld
<1>6. QED
  BY <1>1, <1>2, <1>3, <1>4, <1>5, NextCases

\* Every step keeps the staging slot with the run that uses its directory.
LEMMA SlotStep ==
    ASSUME TypeOK, SlotHeld, [Next]_vars
    PROVE  SlotHeld'
<1> USE OpsAssumption DEF SlotHeld, TypeOK, user, StagingPhase
<1>1. ASSUME NEW o \in Op, NEW d \in Domain, NEW m \in Mode, NEW f \in {"waiting", "fetching"},
             StartRun(o, d, m, f)
      PROVE  SlotHeld'
  BY <1>1 DEF StartRun
<1>2. ASSUME NEW o \in Op, lockStaging(o)
      PROVE  SlotHeld'
  BY <1>2 DEF lockStaging
<1>3. ASSUME NEW o \in Op, FreeSlot(o)
      PROVE  SlotHeld'
  BY <1>3 DEF FreeSlot
<1>4. ASSUME NEW o \in Op,
             \/ ResetStaging(o) \/ (\E db \in Database : dumpDatabase(o, db))
             \/ StartArchive(o) \/ packageArchive(o) \/ ClearStaging(o)
             \/ RecordBackup(o) \/ BeginRewrite(o) \/ BeginImport(o)
             \/ FinishRestore(o) \/ Fail(o)
      PROVE  SlotHeld'
  BY <1>4 DEF ResetStaging, dumpDatabase, StartArchive, packageArchive, ClearStaging,
     RecordBackup, BeginRewrite, BeginImport, FinishRestore, Fail, RestorePhase
<1>5. ASSUME NEW o \in Op, ReleaseDomain(o)
      PROVE  SlotHeld'
  BY <1>5 DEF ReleaseDomain
<1>6. ASSUME Restart
      PROVE  SlotHeld'
  BY <1>6 DEF Restart
<1>7. CASE UNCHANGED vars
  BY <1>7 DEF vars
<1>8. QED
  BY <1>1, <1>2, <1>3, <1>4, <1>5, <1>6, <1>7, NextCases DEF Inner

\* Two runs that both hold a staging directory hold different ones.
LEMMA SlotExcludes ==
    ASSUME SlotHeld
    PROVE  StagingExclusive
BY DEF SlotHeld, StagingExclusive

\* What a run finds in the staging directory, packs and records is its own.
Content == StagedOwn /\ FreshStart /\ PackedOwn /\ ArchiveHoldsOwnDumps

\* Every step keeps what a run finds staged, and what it packs, its own.
LEMMA ContentStep ==
    ASSUME TypeOK, SlotHeld, Content, [Next]_vars
    PROVE  Content'
<1> USE OpsAssumption DEF Content, TypeOK
<1>0. StagingExclusive
  BY SlotExcludes
<1>1. ASSUME NEW o \in Op, NEW d \in Domain, NEW m \in Mode, NEW f \in {"waiting", "fetching"},
             StartRun(o, d, m, f)
      PROVE  Content'
  <2>1. StagedOwn' /\ PackedOwn' /\ ArchiveHoldsOwnDumps'
    BY <1>1 DEF StartRun, StagedOwn, PackedOwn, ArchiveHoldsOwnDumps, user
  <2>2. FreshStart'
    BY <1>1 DEF StartRun, FreshStart
  <2>3. QED
    BY <2>1, <2>2
<1>2. ASSUME NEW o \in Op, lockStaging(o)
      PROVE  Content'
  BY <1>2 DEF lockStaging, StagedOwn, FreshStart, PackedOwn, ArchiveHoldsOwnDumps, user
<1>3. ASSUME NEW o \in Op, ResetStaging(o)
      PROVE  Content'
  <2>1. StagedOwn'
    BY <1>0, <1>3 DEF ResetStaging, StagedOwn, FreshStart, StagingExclusive, StagingPhase, user
  <2>2. FreshStart' /\ PackedOwn' /\ ArchiveHoldsOwnDumps'
    BY <1>3 DEF ResetStaging, FreshStart, PackedOwn, ArchiveHoldsOwnDumps
  <2>3. QED
    BY <2>1, <2>2
<1>4. ASSUME NEW o \in Op, NEW db \in Database, dumpDatabase(o, db)
      PROVE  Content'
  <2> DEFINE others == {x \in staged[user(o)] : x[2] # db}
  <2>1. /\ staged[user(o)] = {o} \X written[o]
        /\ phase[o] = "dumping" /\ phase' = phase /\ target' = target
        /\ packed' = packed /\ ok' = ok /\ rows' = rows
        /\ db \in todo[o] /\ db \notin written[o]
        /\ todo'[o] = todo[o] \ {db} /\ written'[o] \subseteq written[o] \cup {db}
        /\ \A p \in Op : p # o => todo'[p] = todo[p]
        /\ \A u \in User : u # user(o) => staged'[u] = staged[u]
        /\ \A p \in Op : p # o => written'[p] = written[p]
        /\ user(o) \in User
    BY <1>4 DEF dumpDatabase, StagedOwn, FreshStart, user
  <2>2. staged'[user(o)] = {o} \X written'[o]
    <3>1. CASE /\ staged'[user(o)] = others \cup {<<o, db>>}
               /\ written'[o] = written[o] \cup {db}
      BY <2>1, <3>1
    <3>2. CASE /\ staged'[user(o)] = others
               /\ written' = written
      BY <2>1, <3>2
    <3>3. QED
      BY <1>4, <3>1, <3>2 DEF dumpDatabase, user
  <2>3. StagedOwn'
    BY <1>0, <2>1, <2>2 DEF StagedOwn, StagingExclusive, StagingPhase, user
  <2>4. FreshStart' /\ PackedOwn' /\ ArchiveHoldsOwnDumps'
    BY <2>1 DEF FreshStart, PackedOwn, ArchiveHoldsOwnDumps
  <2>5. QED
    BY <2>3, <2>4
<1>5. ASSUME NEW o \in Op, StartArchive(o)
      PROVE  Content'
  BY <1>5 DEF StartArchive, StagedOwn, FreshStart, PackedOwn, ArchiveHoldsOwnDumps, user
<1>6. ASSUME NEW o \in Op, packageArchive(o)
      PROVE  Content'
  BY <1>6 DEF packageArchive, StagedOwn, FreshStart, PackedOwn, ArchiveHoldsOwnDumps, user
<1>7. ASSUME NEW o \in Op, ClearStaging(o)
      PROVE  Content'
  <2>1. StagedOwn'
    BY <1>0, <1>7 DEF ClearStaging, StagedOwn, StagingExclusive, StagingPhase, user
  <2>2. FreshStart' /\ PackedOwn' /\ ArchiveHoldsOwnDumps'
    BY <1>7 DEF ClearStaging, FreshStart, PackedOwn, ArchiveHoldsOwnDumps
  <2>3. QED
    BY <2>1, <2>2
<1>8. ASSUME NEW o \in Op, FreeSlot(o)
      PROVE  Content'
  BY <1>8 DEF FreeSlot, StagedOwn, FreshStart, PackedOwn, ArchiveHoldsOwnDumps, user
<1>9. ASSUME NEW o \in Op, RecordBackup(o)
      PROVE  Content'
  <2>1. packed[o] = {o} \X written[o]
    BY <1>9 DEF RecordBackup, FreshStart, PackedOwn
  <2>2. ArchiveHoldsOwnDumps'
    BY <1>9, <2>1 DEF RecordBackup, ArchiveHoldsOwnDumps
  <2>3. StagedOwn' /\ FreshStart' /\ PackedOwn'
    BY <1>9 DEF RecordBackup, StagedOwn, FreshStart, PackedOwn, user
  <2>4. QED
    BY <2>2, <2>3
<1>10. ASSUME NEW o \in Op, BeginRewrite(o) \/ BeginImport(o) \/ FinishRestore(o) \/ Fail(o)
       PROVE  Content'
  BY <1>10 DEF BeginRewrite, BeginImport, FinishRestore, Fail, RestorePhase,
     StagedOwn, FreshStart, PackedOwn, ArchiveHoldsOwnDumps, user
<1>11. ASSUME NEW o \in Op, ReleaseDomain(o)
       PROVE  Content'
  BY <1>11 DEF ReleaseDomain, StagedOwn, FreshStart, PackedOwn, ArchiveHoldsOwnDumps, user
<1>12. ASSUME Restart
       PROVE  Content'
  BY <1>12 DEF Restart, StagedOwn, FreshStart, PackedOwn, ArchiveHoldsOwnDumps
<1>13. CASE UNCHANGED vars
  BY <1>13 DEF vars, StagedOwn, FreshStart, PackedOwn, ArchiveHoldsOwnDumps, user
<1>14. QED
  BY <1>1, <1>2, <1>3, <1>4, <1>5, <1>6, <1>7, <1>8, <1>9, <1>10, <1>11, <1>12, <1>13,
     NextCases DEF Inner

-----------------------------------------------------------------------------

\* The inductive invariant holds in every reachable state.
THEOREM Invariance == Spec => []IInv
<1>1. Init => IInv
  <2>1. Init => GateHeld /\ SlotHeld /\ Content
    BY DEF Init, GateHeld, SlotHeld, StagingPhase, Content, StagedOwn, FreshStart,
       PackedOwn, ArchiveHoldsOwnDumps
  <2>2. QED
    BY <2>1, TypeInit DEF IInv, Content
<1>2. IInv /\ [Next]_vars => IInv'
  BY TypeStep, GateStep, SlotStep, ContentStep DEF IInv, Content
<1>3. QED
  BY <1>1, <1>2, PTL DEF Spec

\* Type correctness.
THEOREM TypeCorrect == Spec => []TypeOK
<1>1. IInv => TypeOK
  BY DEF IInv
<1>2. QED
  BY <1>1, Invariance, PTL

(***************************************************************************)
(* However many HTTP requests, bulk jobs and scheduler passes run, two     *)
(* backups or restores never work on one domain id (lockDomain).           *)
(***************************************************************************)
THEOREM DomainExclusion == Spec => []DomainExclusive
<1>1. IInv => DomainExclusive
  BY DEF IInv, GateHeld, DomainExclusive, ClaimedPhase, BackupPhase, StagingPhase, RestorePhase
<1>2. QED
  BY <1>1, Invariance, PTL

(***************************************************************************)
(* However many domains share a system user, two backups are never in its  *)
(* staging directory together (lockStaging, takeStagingDir).               *)
(***************************************************************************)
THEOREM StagingExclusion == Spec => []StagingExclusive
<1>1. IInv => StagingExclusive
  BY SlotExcludes DEF IInv
<1>2. QED
  BY <1>1, Invariance, PTL

(***************************************************************************)
(* Every recorded archive holds exactly the dumps its own run completed,   *)
(* whatever failed, was interrupted or was left behind by a dead process.  *)
(***************************************************************************)
THEOREM ArchivesHoldOwnDumps == Spec => []ArchiveHoldsOwnDumps
<1>1. IInv => ArchiveHoldsOwnDumps
  BY DEF IInv
<1>2. QED
  BY <1>1, Invariance, PTL

-----------------------------------------------------------------------------

\* A run on a domain that shares nothing has read nothing a restore was writing.
NothingMixed ==
    /\ \A o \in Op : phase[o] = "idle" \/ Private(target[o]) => mixed[o] = FALSE
    /\ PrivateArchiveIsWhole

\* Every step keeps the archives of such a domain whole.
LEMMA MixedStep ==
    ASSUME IInv, NothingMixed, [Next]_vars
    PROVE  NothingMixed'
<1> USE DEF IInv, TypeOK, NothingMixed
<1>0. ASSUME NEW o \in Op, NEW p \in Op, phase[o] # "idle", phase[p] # "idle",
             SharesHome(o, p) \/ SharesSchema(o, p),
             Private(target[o]) \/ Private(target[p])
      PROVE  o = p
  <2>1. target[o] = target[p]
    BY <1>0 DEF Private, SharesHome, SharesSchema
  <2>2. QED
    BY <1>0, <2>1 DEF GateHeld
<1>1. ASSUME NEW o \in Op, ResetStaging(o)
      PROVE  NothingMixed'
  <2>1. Private(target[o]) => Importers(o) = {}
    BY <1>0, <1>1 DEF Importers, ResetStaging
  <2>2. QED
    BY <1>1, <2>1 DEF ResetStaging, PrivateArchiveIsWhole
<1>2. ASSUME NEW o \in Op, StartArchive(o)
      PROVE  NothingMixed'
  <2>1. Private(target[o]) => Rewriters(o) = {}
    BY <1>0, <1>2 DEF Rewriters, StartArchive
  <2>2. QED
    BY <1>2, <2>1 DEF StartArchive, PrivateArchiveIsWhole
<1>3. ASSUME NEW o \in Op, BeginRewrite(o)
      PROVE  NothingMixed'
  <2>1. \A p \in TreeReaders(o) : phase[p] # "idle" /\ ~Private(target[p])
    BY <1>0, <1>3 DEF TreeReaders, BeginRewrite
  <2>2. QED
    BY <1>3, <2>1 DEF BeginRewrite, PrivateArchiveIsWhole
<1>4. ASSUME NEW o \in Op, BeginImport(o)
      PROVE  NothingMixed'
  <2>1. \A p \in SchemaReaders(o) : phase[p] # "idle" /\ ~Private(target[p])
    BY <1>0, <1>4 DEF SchemaReaders, BeginImport
  <2>2. QED
    BY <1>4, <2>1 DEF BeginImport, PrivateArchiveIsWhole
<1>5. ASSUME NEW o \in Op,
             \/ lockStaging(o) \/ (\E db \in Database : dumpDatabase(o, db))
             \/ packageArchive(o) \/ ClearStaging(o) \/ FreeSlot(o)
             \/ RecordBackup(o) \/ FinishRestore(o) \/ Fail(o) \/ ReleaseDomain(o)
      PROVE  NothingMixed'
  BY <1>5 DEF lockStaging, dumpDatabase, packageArchive, ClearStaging, FreeSlot,
     RecordBackup, FinishRestore, Fail, ReleaseDomain, PrivateArchiveIsWhole
<1>6. ASSUME NEW o \in Op, NEW d \in Domain, NEW m \in Mode, NEW f \in {"waiting", "fetching"},
             StartRun(o, d, m, f)
      PROVE  NothingMixed'
  BY <1>6 DEF StartRun, PrivateArchiveIsWhole
<1>7. CASE Restart
  BY <1>7 DEF Restart, PrivateArchiveIsWhole
<1>8. CASE UNCHANGED vars
  BY <1>8 DEF vars, PrivateArchiveIsWhole
<1>9. QED
  BY <1>1, <1>2, <1>3, <1>4, <1>5, <1>6, <1>7, <1>8, NextCases DEF Inner

(***************************************************************************)
(* No archive of a domain that shares its system user and its schemas with *)
(* no other is ever recorded of a tree or schema that a restore was        *)
(* writing (domainlock.go), whatever the other tenants share.              *)
(***************************************************************************)
THEOREM PrivateArchivesAreWhole == Spec => []PrivateArchiveIsWhole
<1>1. Init => NothingMixed
  BY DEF Init, NothingMixed, PrivateArchiveIsWhole
<1>2. IInv /\ NothingMixed /\ [Next]_vars => NothingMixed'
  BY MixedStep
<1>3. NothingMixed => PrivateArchiveIsWhole
  BY DEF NothingMixed
<1>4. QED
  BY <1>1, <1>2, <1>3, Invariance, PTL DEF Spec

-----------------------------------------------------------------------------

(***************************************************************************)
(* The gate implements exclusive use of a domain: every step of a run is a *)
(* step of ExclusiveUse or changes nothing that ExclusiveUse can see.      *)
(***************************************************************************)
using == [o \in Op |-> IF phase[o] = "idle" THEN NoDomain ELSE target[o]]

\* Every step is a step of ExclusiveUse, or leaves it alone.
LEMMA UseStep ==
    ASSUME TypeOK, GateHeld, [Next]_vars
    PROVE  DomainUse!Next \/ UNCHANGED using
<1> USE OpsAssumption DEF TypeOK
<1>1. ASSUME NEW o \in Op, NEW d \in Domain, NEW m \in Mode, NEW f \in {"waiting", "fetching"},
             StartRun(o, d, m, f)
      PROVE  DomainUse!Enter(o, d)
  <2>1. using[o] = NoDomain /\ \A p \in Op : using[p] # d
    BY <1>1 DEF StartRun, lockDomain, GateHeld, using
  <2>2. using' = [using EXCEPT ![o] = d]
    BY <1>1 DEF StartRun, using
  <2>3. QED
    BY <2>1, <2>2 DEF DomainUse!Enter, using
<1>2. ASSUME NEW o \in Op, ReleaseDomain(o)
      PROVE  DomainUse!Leave({o})
  <2>1. using' = [p \in Op |-> IF p \in {o} THEN NoDomain ELSE using[p]]
    BY <1>2 DEF ReleaseDomain, using
  <2>2. QED
    BY <2>1 DEF DomainUse!Leave, using
<1>3. ASSUME Restart
      PROVE  DomainUse!Leave(Op)
  BY <1>3 DEF Restart, DomainUse!Leave
<1>4. ASSUME NEW o \in Op, Inner(o)
      PROVE  UNCHANGED using
  <2>1. phase'[o] # "idle" /\ phase[o] # "idle"
    BY <1>4, InnerKeepsClaims DEF Inner, lockStaging, ResetStaging, dumpDatabase, StartArchive,
       packageArchive, ClearStaging, FreeSlot, RecordBackup, BeginRewrite, BeginImport,
       FinishRestore, Fail
  <2>2. QED
    BY <1>4, <2>1, InnerKeepsClaims DEF using
<1>5. CASE UNCHANGED vars
  BY <1>5 DEF vars, using
<1>6. QED
  <2>1. CASE \E o \in Op, d \in Domain, m \in Mode, f \in {"waiting", "fetching"} :
                 StartRun(o, d, m, f)
    BY <1>1, <2>1 DEF DomainUse!Next
  <2>2. CASE \E o \in Op : ReleaseDomain(o)
    <3>1. PICK o \in Op : ReleaseDomain(o) BY <2>2
    <3>2. {o} \in SUBSET Op /\ DomainUse!Leave({o}) BY <1>2, <3>1
    <3>3. QED
      BY <3>2 DEF DomainUse!Next
  <2>3. CASE Restart
    BY <1>3, <2>3 DEF DomainUse!Next
  <2>4. QED
    BY <1>4, <1>5, <2>1, <2>2, <2>3, NextCases

\* The domain gate implements exclusive use of a domain (refinement).
THEOREM GateRefinesExclusiveUse == Spec => DomainUseSpec
<1>1. Init => DomainUse!Init
  BY DEF Init, DomainUse!Init
<1>2. IInv /\ [Next]_vars => [DomainUse!Next]_using
  BY UseStep DEF IInv
<1>3. QED
  BY <1>1, <1>2, Invariance, PTL DEF Spec, DomainUseSpec, DomainUse!Spec, using

\* A step of ExclusiveUse keeps a domain to one run, whatever the code did in it.
LEMMA EntersAlone == DomainUse!OneUser /\ [DomainUse!Next]_using => DomainUse!OneUser'
<1> SUFFICES ASSUME DomainUse!OneUser, [DomainUse!Next]_using PROVE DomainUse!OneUser'
  OBVIOUS
<1> USE DEF DomainUse!OneUser
<1>1. \A p, q \in Op : using[p] = using[q] /\ using[p] # NoDomain => p = q
  BY DEF using
<1>2. ASSUME NEW o \in Op, NEW d \in Domain, DomainUse!Enter(o, d)
      PROVE  \A p, q \in Op : using'[p] = using'[q] /\ using'[p] # NoDomain => p = q
  <2>1. using' = [using EXCEPT ![o] = d] /\ \A p \in Op : using[p] # d
    BY <1>2 DEF DomainUse!Enter, using
  <2>2. using'[o] = d /\ \A p \in Op \ {o} : using'[p] = using[p]
    BY <2>1 DEF using
  <2>3. QED
    BY <1>1, <2>1, <2>2
<1>3. ASSUME NEW gone \in SUBSET Op, DomainUse!Leave(gone)
      PROVE  \A p, q \in Op : using'[p] = using'[q] /\ using'[p] # NoDomain => p = q
  BY <1>1, <1>3 DEF DomainUse!Leave, using
<1>4. \A p, q \in Op : using'[p] = using'[q] /\ using'[p] # NoDomain => p = q
  BY <1>1, <1>2, <1>3 DEF DomainUse!Next
<1> QED BY <1>4 DEF using

\* Exclusive use of a domain is what its name says: two runs never use one.
THEOREM ExclusiveUseExcludes == DomainUseSpec => []DomainUse!OneUser
<1>1. DomainUse!Init => DomainUse!OneUser
  BY DEF DomainUse!Init, DomainUse!OneUser
<1> QED
  BY <1>1, EntersAlone, PTL DEF DomainUseSpec, DomainUse!Spec, using

-----------------------------------------------------------------------------

(***************************************************************************)
(* The staging slot implements exclusive use of a tenant's directory: the  *)
(* claim and the reset that follows it are two steps, the removal and the  *)
(* release are two more, and an error takes either way out, yet seen from  *)
(* outside a run enters once and leaves once, or leaves with the process.  *)
(***************************************************************************)
staging == [o \in Op |-> IF phase[o] \in StagingPhase THEN user(o) ELSE NoDomain]

\* A tenant is a resource of its own, never the value that says "none".
LEMMA StagingIsATenant ==
    ASSUME TypeOK, NEW o \in Op, phase[o] # "idle"
    PROVE  user(o) \in User /\ user(o) # NoDomain
BY OpsAssumption DEF TypeOK, user

\* Every step is a step of ExclusiveUse on the directories, or leaves it alone.
LEMMA StagingStep ==
    ASSUME TypeOK, SlotHeld, [Next]_vars
    PROVE  StagingUse!Next \/ UNCHANGED staging
<1>1. ASSUME NEW o \in Op, NEW u \in User, u = user(o), lockStaging(o)
      PROVE  StagingUse!Enter(o, u)
  <2>1. u # NoDomain /\ phase[o] = "waiting"
    BY <1>1, OpsAssumption DEF lockStaging
  <2>2. \A p \in Op : staging[p] # u
    <3>1. \A p \in Op : phase[p] \in StagingPhase => user(p) # u
      BY <1>1, OpsAssumption DEF lockStaging, SlotHeld
    <3>2. QED
      BY <2>1, <3>1 DEF staging
  <2>3. staging[o] = NoDomain
    BY <2>1 DEF staging, StagingPhase
  <2>4. staging' = [staging EXCEPT ![o] = u]
    BY <1>1, <2>1 DEF lockStaging, staging, StagingPhase, user, TypeOK
  <2>5. QED
    BY <2>1, <2>2, <2>3, <2>4 DEF StagingUse!Enter, staging
<1>2. ASSUME NEW o \in Op, FreeSlot(o)
      PROVE  StagingUse!Leave({o})
  <2>1. staging' = [p \in Op |-> IF p \in {o} THEN NoDomain ELSE staging[p]]
    BY <1>2 DEF FreeSlot, staging, StagingPhase, user, TypeOK
  <2>2. QED
    BY <2>1 DEF StagingUse!Leave, staging
<1>3. ASSUME Restart
      PROVE  StagingUse!Leave(Op)
  BY <1>3 DEF Restart, StagingUse!Leave, StagingPhase
<1>4. ASSUME NEW o \in Op,
             \/ ResetStaging(o) \/ (\E db \in Database : dumpDatabase(o, db))
             \/ StartArchive(o) \/ packageArchive(o) \/ ClearStaging(o)
             \/ RecordBackup(o) \/ BeginRewrite(o) \/ BeginImport(o)
             \/ FinishRestore(o) \/ Fail(o)
      PROVE  UNCHANGED staging
  <2>1. target' = target
    BY <1>4, InnerKeepsClaims DEF Inner
  <2>2. \A p \in Op : phase'[p] \in StagingPhase <=> phase[p] \in StagingPhase
    BY <1>4 DEF ResetStaging, dumpDatabase, StartArchive, packageArchive, ClearStaging,
       RecordBackup, BeginRewrite, BeginImport, FinishRestore, Fail, StagingPhase,
       RestorePhase, TypeOK
  <2>3. QED
    BY <2>1, <2>2 DEF staging, user
<1>5. ASSUME NEW o \in Op,
             \/ ReleaseDomain(o)
             \/ \E d \in Domain, m \in Mode, f \in {"waiting", "fetching"} : StartRun(o, d, m, f)
      PROVE  UNCHANGED staging
  <2>1. phase[o] \notin StagingPhase /\ phase'[o] \notin StagingPhase
    BY <1>5 DEF ReleaseDomain, StartRun, StagingPhase, TypeOK
  <2>2. \A p \in Op : p # o => phase'[p] = phase[p] /\ target'[p] = target[p]
    BY <1>5 DEF ReleaseDomain, StartRun, TypeOK
  <2>3. QED
    BY <2>1, <2>2 DEF staging, user
<1>6. CASE UNCHANGED vars
  BY <1>6 DEF vars, staging, user
<1>7. ASSUME NEW o \in Op, Inner(o)
      PROVE  StagingUse!Next \/ UNCHANGED staging
  <2>1. CASE lockStaging(o)
    <3>1. user(o) \in User
      BY <2>1, StagingIsATenant DEF lockStaging
    <3>2. QED
      BY <1>1, <2>1, <3>1 DEF StagingUse!Next
  <2>2. CASE FreeSlot(o)
    BY <1>2, <2>2 DEF StagingUse!Next
  <2>3. QED
    BY <1>4, <1>7, <2>1, <2>2 DEF Inner
<1>8. QED
  <2>1. CASE Restart
    BY <1>3, <2>1 DEF StagingUse!Next
  <2>2. CASE \E o \in Op : Inner(o)
    BY <1>7, <2>2
  <2>3. CASE \E o \in Op : ReleaseDomain(o)
    BY <1>5, <2>3
  <2>4. CASE \E o \in Op, d \in Domain, m \in Mode, f \in {"waiting", "fetching"} :
                 StartRun(o, d, m, f)
    BY <1>5, <2>4
  <2>5. QED
    BY <1>6, <2>1, <2>2, <2>3, <2>4, NextCases

\* The staging slot implements exclusive use of a tenant's directory (refinement).
THEOREM SlotRefinesExclusiveUse == Spec => StagingUseSpec
<1>1. Init => StagingUse!Init
  BY DEF Init, StagingUse!Init, StagingPhase
<1>2. IInv /\ [Next]_vars => [StagingUse!Next]_staging
  BY StagingStep DEF IInv
<1>3. QED
  BY <1>1, <1>2, Invariance, PTL DEF Spec, StagingUseSpec, StagingUse!Spec, staging
=============================================================================
