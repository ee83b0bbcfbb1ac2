-------------------------- MODULE AntivirusProofs ---------------------------
(***************************************************************************)
(* The antivirus: the scan slot for any number of processes, askers and    *)
(* connections, and the quarantine for any number of findings, paths and   *)
(* requests, both for any number of faults and restarts.                   *)
(***************************************************************************)
EXTENDS ScanSlot, Quarantine, TLAPS

(***************************************************************************)
(* The slot's inductive invariant.  Exclusion follows from who the flag    *)
(* and the lock say is at work, which no step loses track of.              *)
(***************************************************************************)
SlotTypes ==
    /\ scanning \in [Process -> BOOLEAN]
    /\ lock \in [conn : Connection \cup {None}, times : Nat]
    /\ asker \in [Asker -> [at : {"idle", "lock", "record", "scan", "release"},
                            conn : Connection \cup {None}]]
    /\ unreleased \in BOOLEAN /\ lockLost \in BOOLEAN

\* An asker on its way has its process's flag, alone.
FlagHeld ==
    /\ \A a \in Asker : asker[a].at # "idle" => scanning[ProcessOf[a]]
    /\ \A a, b \in Asker :
           asker[a].at # "idle" /\ asker[b].at # "idle" /\ ProcessOf[a] = ProcessOf[b] => a = b
    /\ \A p \in Process : scanning[p] => \E a \in Asker : ProcessOf[a] = p /\ asker[a].at # "idle"

\* It has a connection of its process from the lock on.
ConnectionHeld ==
    \A a \in Asker :
        /\ asker[a].at \in {"idle", "lock"} <=> asker[a].conn = None
        /\ asker[a].conn # None => PoolOf[asker[a].conn] = ProcessOf[a]

\* Its connection has the lock, unless that was lost.
LockHeld ==
    /\ lock.conn = None <=> lock.times = 0
    /\ ~lockLost => \A a \in Asker : asker[a].conn # None => lock.conn = asker[a].conn
    /\ lock # Unlocked /\ ~unreleased =>
           lock.times = 1 /\ \E a \in Asker : asker[a].conn = lock.conn

SlotInv == SlotTypes /\ FlagHeld /\ ConnectionHeld /\ LockHeld

-----------------------------------------------------------------------------
\* The slot starts free.
LEMMA SlotStarts == SlotAssumption /\ SlotInit => SlotInv
<1> SUFFICES ASSUME SlotAssumption, SlotInit PROVE SlotInv
  OBVIOUS
<1> USE DEF SlotAssumption, SlotInit, Unlocked, NotAsking
<1>1. SlotTypes BY DEF SlotTypes
<1>2. FlagHeld BY DEF FlagHeld
<1>3. ConnectionHeld BY DEF ConnectionHeld
<1>4. LockHeld BY DEF LockHeld
<1> QED BY <1>1, <1>2, <1>3, <1>4 DEF SlotInv

\* Taking the flag, which nobody of the process has.
LEMMA TakeFlagKeeps ==
    ASSUME SlotAssumption, SlotInv, NEW a \in Asker, TakeFlag(a) PROVE SlotInv'
<1> USE DEF SlotAssumption, NotAsking
<1>1. SlotTypes' BY DEF SlotInv, SlotTypes, TakeFlag
<1>2. FlagHeld' BY DEF SlotInv, SlotTypes, FlagHeld, TakeFlag
<1>3. ConnectionHeld' BY DEF SlotInv, SlotTypes, ConnectionHeld, TakeFlag
<1>4. LockHeld'
  <2>1. \A b \in Asker : asker'[b].conn = asker[b].conn BY DEF SlotInv, SlotTypes, TakeFlag
  <2> QED BY <2>1 DEF SlotInv, LockHeld, TakeFlag
<1> QED BY <1>1, <1>2, <1>3, <1>4 DEF SlotInv

\* An asker that goes back to idle takes its flag with it.
LEMMA RefusedKeepsFlags ==
    ASSUME SlotAssumption, SlotInv, NEW a \in Asker, Refused(a), asker[a].at # "idle"
    PROVE  /\ scanning' \in [Process -> BOOLEAN]
           /\ asker' \in [Asker -> [at : {"idle", "lock", "record", "scan", "release"},
                                    conn : Connection \cup {None}]]
           /\ FlagHeld' /\ ConnectionHeld'
BY DEF SlotAssumption, SlotInv, SlotTypes, FlagHeld, ConnectionHeld, Refused, NotAsking

\* The lock taken, found taken, or not to be asked for.
LEMMA TakeLockKeeps ==
    ASSUME SlotAssumption, SlotInv, NEW a \in Asker, TakeLock(a) PROVE SlotInv'
<1> USE DEF SlotAssumption
<1>1. CASE Refused(a) /\ UNCHANGED <<lock, unreleased, lockLost>>
  <2>1. asker[a].conn = None /\ asker[a].at # "idle"
    BY DEF SlotInv, ConnectionHeld, TakeLock
  <2>2. \A b \in Asker : asker'[b].conn = asker[b].conn
    BY <1>1, <2>1 DEF SlotInv, SlotTypes, Refused, NotAsking
  <2>3. LockHeld' BY <1>1, <2>2 DEF SlotInv, LockHeld
  <2> QED BY <1>1, <2>1, <2>3, RefusedKeepsFlags DEF SlotInv, SlotTypes
<1>2. ASSUME NEW c \in FreeConnection(ProcessOf[a]), GetLock(a, c),
             asker' = [asker EXCEPT ![a] = [at |-> "record", conn |-> c]],
             UNCHANGED scanning
      PROVE  SlotInv'
  <2>1. c \in Connection /\ PoolOf[c] = ProcessOf[a] /\ \A b \in Asker : asker[b].conn # c
    BY <1>2 DEF FreeConnection
  <2>2. UNCHANGED <<unreleased, lockLost>> /\ asker[a].at = "lock" BY DEF TakeLock
  <2>3. SlotTypes' BY <1>2, <2>1, <2>2 DEF SlotInv, SlotTypes, GetLock
  <2>4. FlagHeld' BY <1>2, <2>2 DEF SlotInv, SlotTypes, FlagHeld
  <2>5. ConnectionHeld' BY <1>2, <2>1, <2>2 DEF SlotInv, SlotTypes, ConnectionHeld
  <2>6. LockHeld'
    <3>1. lock' = [conn |-> c, times |-> lock.times + 1] /\ c # None
      BY <1>2, <2>1 DEF GetLock
    <3>2. ~unreleased => lock = Unlocked
      BY <1>2, <2>1 DEF SlotInv, LockHeld, GetLock
    <3>3. asker'[a].conn = c /\ \A b \in Asker \ {a} : asker'[b].conn = asker[b].conn
      BY <1>2 DEF SlotInv, SlotTypes
    <3>4. ~lockLost => \A b \in Asker \ {a} : asker[b].conn = None
      BY <1>2, <2>1 DEF SlotInv, LockHeld, GetLock, Unlocked
    <3> QED BY <2>2, <3>1, <3>2, <3>3, <3>4 DEF SlotInv, SlotTypes, LockHeld, Unlocked
  <2> QED BY <2>3, <2>4, <2>5, <2>6 DEF SlotInv
<1> QED BY <1>1, <1>2 DEF TakeLock

\* The steps of an asker that has the lock.
LEMMA WorkKeeps ==
    ASSUME SlotAssumption, SlotInv, NEW a \in Asker, Record(a) \/ ScanEnds(a) PROVE SlotInv'
<1>1. /\ UNCHANGED <<scanning, lock, unreleased, lockLost>>
      /\ asker[a].at \in {"record", "scan"}
      /\ \E s \in {"scan", "release"} : asker' = [asker EXCEPT ![a].at = s]
  BY DEF Record, ScanEnds
<1>2. PICK s \in {"scan", "release"} : asker' = [asker EXCEPT ![a].at = s] BY <1>1
<1>3. \A b \in Asker : asker'[b].conn = asker[b].conn BY <1>2 DEF SlotInv, SlotTypes
<1>4. SlotTypes' BY <1>1, <1>2 DEF SlotInv, SlotTypes
<1>5. FlagHeld' BY <1>1, <1>2 DEF SlotInv, SlotTypes, FlagHeld
<1>6. ConnectionHeld' BY <1>1, <1>2, <1>3 DEF SlotInv, SlotTypes, ConnectionHeld
<1>7. LockHeld' BY <1>1, <1>3 DEF SlotInv, LockHeld
<1> QED BY <1>4, <1>5, <1>6, <1>7 DEF SlotInv

\* The slot given back, or a release refused on a connection that lives on.
LEMMA ReleaseKeeps ==
    ASSUME SlotAssumption, SlotInv, NEW a \in Asker, Release(a) PROVE SlotInv'
<1>1. Refused(a) /\ asker[a].at = "release" /\ asker[a].conn # None
  BY DEF SlotInv, ConnectionHeld, Release, Refused
<1>2. FlagHeld' /\ ConnectionHeld' BY <1>1, RefusedKeepsFlags
<1>3. lock' \in {lock, Unlocked, [lock EXCEPT !.times = @ - 1]}
  BY DEF Release
<1>4. asker'[a].conn = None /\ \A b \in Asker \ {a} : asker'[b].conn = asker[b].conn
  BY <1>1 DEF SlotInv, SlotTypes, Refused, NotAsking
<1>5. CASE UNCHANGED lock /\ unreleased'
  <2>1. UNCHANGED lockLost BY DEF Release
  <2>2. SlotTypes' BY <1>1, <1>5, <2>1, RefusedKeepsFlags DEF SlotInv, SlotTypes
  <2>3. LockHeld' BY <1>4, <1>5, <2>1 DEF SlotInv, LockHeld
  <2> QED BY <1>2, <2>2, <2>3 DEF SlotInv
<1>6. CASE lock.conn # asker[a].conn /\ UNCHANGED <<lock, unreleased>>
  <2>1. UNCHANGED lockLost BY DEF Release
  <2>2. SlotTypes' BY <1>1, <1>6, <2>1, RefusedKeepsFlags DEF SlotInv, SlotTypes
  <2>3. LockHeld' BY <1>4, <1>6, <2>1 DEF SlotInv, LockHeld, Unlocked
  <2> QED BY <1>2, <2>2, <2>3 DEF SlotInv
<1>7. CASE lock.conn = asker[a].conn /\ lock.times = 1 /\ lock' = Unlocked /\ UNCHANGED unreleased
  <2>1. UNCHANGED lockLost BY DEF Release
  <2>2. SlotTypes' BY <1>1, <1>7, <2>1, RefusedKeepsFlags DEF SlotInv, SlotTypes, Unlocked
  <2>3. ~lockLost => \A b \in Asker \ {a} : asker[b].conn = None
    <3> SUFFICES ASSUME ~lockLost, NEW b \in Asker, b # a, asker[b].conn # None PROVE FALSE
      OBVIOUS
    <3>1. asker[b].conn = asker[a].conn BY <1>7 DEF SlotInv, LockHeld
    <3>2. ProcessOf[b] = ProcessOf[a] BY <1>1, <3>1 DEF SlotInv, ConnectionHeld
    <3> QED BY <1>1, <3>2 DEF SlotInv, SlotTypes, FlagHeld, ConnectionHeld
  <2>4. LockHeld' BY <1>4, <1>7, <2>1, <2>3 DEF LockHeld, Unlocked
  <2> QED BY <1>2, <2>2, <2>4 DEF SlotInv
<1>8. CASE /\ lock.conn = asker[a].conn /\ lock.times # 1
           /\ lock' = [lock EXCEPT !.times = @ - 1] /\ UNCHANGED unreleased
  <2>1. UNCHANGED lockLost BY DEF Release
  <2>2. lock.times \in Nat \ {0, 1}
    <3>1. lock.times \in Nat BY DEF SlotInv, SlotTypes
    <3>2. lock.conn # None BY <1>1, <1>8
    <3>3. lock.times # 0 BY <3>2 DEF SlotInv, LockHeld
    <3> QED BY <1>8, <3>1, <3>3
  <2>3. lock'.conn = lock.conn /\ lock'.times = lock.times - 1 /\ unreleased
    BY <1>1, <1>8, <2>2 DEF SlotInv, SlotTypes, LockHeld, Unlocked
  <2>4. SlotTypes' BY <1>1, <1>8, <2>1, <2>2, RefusedKeepsFlags DEF SlotInv, SlotTypes
  <2>5. LockHeld' BY <1>1, <1>4, <1>8, <2>1, <2>2, <2>3 DEF SlotInv, LockHeld
  <2> QED BY <1>2, <2>4, <2>5 DEF SlotInv
<1> QED BY <1>5, <1>6, <1>7, <1>8 DEF Release

\* The database drops the connection that has the lock.
LEMMA LossKeeps ==
    ASSUME SlotAssumption, SlotInv, ConnectionLost PROVE SlotInv'
<1> USE DEF ConnectionLost
<1>1. SlotTypes' BY DEF SlotInv, SlotTypes, Unlocked
<1>2. FlagHeld' /\ ConnectionHeld' BY DEF SlotInv, FlagHeld, ConnectionHeld
<1>3. ~lockLost' => \A a \in Asker : asker[a].conn = None
  BY DEF SlotInv, SlotTypes, LockHeld, ConnectionHeld
<1>4. LockHeld' BY <1>3 DEF LockHeld, Unlocked
<1> QED BY <1>1, <1>2, <1>4 DEF SlotInv

\* A process stops, and its askers and connections with it.
LEMMA SlotStopKeeps ==
    ASSUME SlotAssumption, SlotInv, NEW p \in Process, ProcessStops(p) PROVE SlotInv'
<1> USE DEF SlotAssumption, NotAsking
<1>1. /\ scanning' = [scanning EXCEPT ![p] = FALSE]
      /\ \A a \in Asker : asker'[a] = IF ProcessOf[a] = p THEN NotAsking ELSE asker[a]
      /\ lock' = IF lock # Unlocked /\ PoolOf[lock.conn] = p THEN Unlocked ELSE lock
      /\ UNCHANGED <<unreleased, lockLost>>
  BY DEF ProcessStops
<1>2. SlotTypes' BY DEF SlotInv, SlotTypes, ProcessStops, Unlocked
<1>3. FlagHeld' BY <1>1 DEF SlotInv, SlotTypes, FlagHeld
<1>4. ConnectionHeld' BY <1>1 DEF SlotInv, ConnectionHeld
<1>5. LockHeld'
  <2>1. CASE lock # Unlocked /\ PoolOf[lock.conn] = p
    <3>1. lock' = Unlocked BY <1>1, <2>1
    <3>2. ~lockLost => \A a \in Asker : asker'[a].conn = None
      BY <1>1, <2>1 DEF SlotInv, ConnectionHeld, LockHeld
    <3> QED BY <1>1, <3>1, <3>2 DEF LockHeld, Unlocked
  <2>2. CASE ~(lock # Unlocked /\ PoolOf[lock.conn] = p)
    <3>1. lock' = lock BY <1>1, <2>2
    <3>2. \A a \in Asker : asker'[a].conn # None => asker'[a].conn = asker[a].conn BY <1>1
    <3>3. \A a \in Asker : lock # Unlocked /\ asker[a].conn = lock.conn
                               => asker'[a].conn = lock.conn
      BY <1>1, <2>2 DEF SlotInv, SlotTypes, LockHeld, ConnectionHeld, Unlocked
    <3> QED BY <1>1, <3>1, <3>2, <3>3 DEF SlotInv, LockHeld
  <2> QED BY <2>1, <2>2
<1> QED BY <1>2, <1>3, <1>4, <1>5 DEF SlotInv

\* Every step of the slot keeps the invariant.
LEMMA SlotStep == SlotAssumption /\ SlotInv /\ [SlotNext]_slotVars => SlotInv'
<1> SUFFICES ASSUME SlotAssumption, SlotInv, [SlotNext]_slotVars PROVE SlotInv'
  OBVIOUS
<1>1. CASE UNCHANGED slotVars
  BY <1>1 DEF slotVars, SlotInv, SlotTypes, FlagHeld, ConnectionHeld, LockHeld
<1> QED BY <1>1, TakeFlagKeeps, TakeLockKeeps, WorkKeeps, ReleaseKeeps, LossKeeps, SlotStopKeeps
        DEF SlotNext

\* The slot's state is always what its askers make of it.
LEMMA SlotInvariant == ASSUME SlotAssumption PROVE SlotSpec => []SlotInv
<1>1. SlotInit => SlotInv BY SlotStarts
<1>2. SlotInv /\ [SlotNext]_slotVars => SlotInv' BY SlotStep
<1> QED BY <1>1, <1>2, PTL DEF SlotSpec

(***************************************************************************)
(* At most one scan runs in a process, and on the server unless the        *)
(* connection of a scan at work was lost (takeScanSlot: both halves).      *)
(***************************************************************************)
THEOREM OneScan == ASSUME SlotAssumption PROVE SlotSpec => []OneScanAtATime
<1>1. SlotInv => OneScanAtATime
  <2> SUFFICES ASSUME SlotInv, NEW a \in Asker, NEW b \in Asker,
                      asker[a].at = "scan", asker[b].at = "scan", a # b
               PROVE  lockLost /\ ProcessOf[a] # ProcessOf[b]
    BY DEF OneScanAtATime
  <2>1. ProcessOf[a] # ProcessOf[b] BY DEF SlotInv, FlagHeld
  <2>2. asker[a].conn # None /\ asker[b].conn # None BY DEF SlotInv, ConnectionHeld
  <2>3. asker[a].conn # asker[b].conn BY <2>1, <2>2 DEF SlotInv, ConnectionHeld
  <2>4. lockLost BY <2>2, <2>3 DEF SlotInv, SlotTypes, LockHeld
  <2> QED BY <2>1, <2>4
<1>2. SlotSpec => []SlotInv BY SlotInvariant
<1> QED BY <1>1, <1>2, PTL

(***************************************************************************)
(* The flag and the lock come back on every path through takeScanSlot and  *)
(* Release, but for a release that was refused.                            *)
(***************************************************************************)
THEOREM SlotIsNeverStranded == ASSUME SlotAssumption PROVE SlotSpec => []SlotComesBack
<1>1. SlotInv => SlotComesBack BY DEF SlotInv, FlagHeld, LockHeld, SlotComesBack
<1>2. SlotSpec => []SlotInv BY SlotInvariant
<1> QED BY <1>1, <1>2, PTL

(***************************************************************************)
(* The flag implements exclusive use of a process: an asker enters when it *)
(* takes the flag, which FlagHeld says nobody has, and every other step    *)
(* lets some leave, or nobody: the one that was refused, the one that gave *)
(* the slot back, all of a process that stops.                             *)
(***************************************************************************)
pastFlag == [a \in Asker |-> IF asker[a].at = "idle" THEN None ELSE ProcessOf[a]]

\* Where nobody sets out, a step is a step of ExclusiveUse: some have left.
LEMMA NobodySetsOut ==
    ASSUME \A a \in Asker : asker[a].at = "idle" => asker'[a].at = "idle"
    PROVE  FlagUse!Next
<1>1. PICK gone \in SUBSET Asker : gone = {a \in Asker : asker'[a].at = "idle"} OBVIOUS
<1>2. FlagUse!Leave(gone) BY <1>1 DEF FlagUse!Leave
<1> QED BY <1>2 DEF FlagUse!Next

\* Every step of the slot is a step of ExclusiveUse, or leaves it alone.
LEMMA FlagStep ==
    ASSUME SlotAssumption, SlotInv, [SlotNext]_slotVars
    PROVE  FlagUse!Next \/ UNCHANGED pastFlag
<1> USE DEF SlotAssumption, NotAsking
<1>1. ASSUME NEW a \in Asker, NEW p \in Process, p = ProcessOf[a], TakeFlag(a)
      PROVE  FlagUse!Enter(a, p)
  <2>1. pastFlag[a] = None BY <1>1 DEF TakeFlag, pastFlag
  <2>2. \A b \in Asker : pastFlag[b] # p
    BY <1>1 DEF TakeFlag, SlotInv, FlagHeld, pastFlag
  <2>3. pastFlag' = [pastFlag EXCEPT ![a] = p]
    BY <1>1 DEF TakeFlag, SlotInv, SlotTypes, pastFlag
  <2> QED BY <2>1, <2>2, <2>3 DEF FlagUse!Enter, pastFlag
<1>2. ASSUME NEW a \in Asker, TakeFlag(a) PROVE FlagUse!Next
  <2>1. ProcessOf[a] \in Process OBVIOUS
  <2> QED BY <1>1, <1>2, <2>1 DEF FlagUse!Next
<1>3. ASSUME NEW a \in Asker, TakeLock(a) \/ Record(a) \/ ScanEnds(a) \/ Release(a)
      PROVE  \A b \in Asker : asker[b].at = "idle" => asker'[b].at = "idle"
  BY <1>3 DEF TakeLock, Refused, Record, ScanEnds, Release, SlotInv, SlotTypes
<1>4. ASSUME ConnectionLost \/ \E p \in Process : ProcessStops(p)
      PROVE  \A b \in Asker : asker[b].at = "idle" => asker'[b].at = "idle"
  BY <1>4 DEF ConnectionLost, ProcessStops
<1>5. CASE UNCHANGED slotVars BY <1>5 DEF slotVars, pastFlag
<1> QED BY <1>2, <1>3, <1>4, <1>5, NobodySetsOut DEF SlotNext

\* The flag implements exclusive use of a process (refinement).
THEOREM FlagRefinesExclusiveUse == ASSUME SlotAssumption PROVE SlotSpec => FlagUseSpec
<1>1. SlotInit => FlagUse!Init BY DEF SlotInit, NotAsking, FlagUse!Init
<1>2. SlotInv /\ [SlotNext]_slotVars => [FlagUse!Next]_pastFlag BY FlagStep
<1> QED BY <1>1, <1>2, SlotInvariant, PTL DEF SlotSpec, FlagUseSpec, FlagUse!Spec, pastFlag

(***************************************************************************)
(* The flags, the lock and the askers keep their types.                    *)
(***************************************************************************)
THEOREM SlotTypeCorrect == ASSUME SlotAssumption PROVE SlotSpec => []SlotTypeOK
<1> DEFINE Counted == slotFaults \in 0..MaxSlotFaults /\ slotStops \in 0..MaxSlotStops
<1>1. SlotInit => Counted BY DEF SlotAssumption, SlotInit
<1>2. Counted /\ [SlotNext]_slotVars => Counted'
  <2> SUFFICES ASSUME Counted, [SlotNext]_slotVars PROVE Counted' OBVIOUS
  <2>1. /\ SlotWorks \/ SlotFault
        /\ UNCHANGED slotStops \/ (slotStops < MaxSlotStops /\ slotStops' = slotStops + 1)
    BY DEF SlotNext, slotVars, TakeFlag, TakeLock, Record, ScanEnds, Release, ConnectionLost,
           ProcessStops, SlotWorks
  <2> QED BY <2>1 DEF SlotAssumption, SlotWorks, SlotFault
<1>3. SlotInv /\ Counted => SlotTypeOK BY DEF SlotInv, SlotTypes, SlotTypeOK
<1>4. SlotSpec => []SlotInv BY SlotInvariant
<1> QED BY <1>1, <1>2, <1>3, <1>4, PTL DEF SlotSpec

-----------------------------------------------------------------------------
(***************************************************************************)
(* The quarantine's inductive invariant.  A found file is safe because     *)
(* every step that takes a copy away knows of another: what a request was  *)
(* told of its row stays true, and a containment is alone with its row     *)
(* until it has given it a name.                                           *)
(***************************************************************************)
QuarantineStep == {"idle", "record", "copy", "remove", "name", "flag", "undo",
                   "open", "stream", "mark", "drop", "unlink", "erase"}
RequestType == [at : QuarantineStep, finding : Finding \cup {Nothing}, row : 0..MaxRows,
                named : BOOLEAN, content : Content \cup {Nothing}]
EntryType == [state : {"none", "held", "restored", "deleted"},
              finding : Finding \cup {Nothing}, named : BOOLEAN]

QuarantineTypes ==
    /\ tree \in [Path -> Content \cup {Nothing}]
    /\ writing \in [Path -> Handler \cup {Nothing}]
    /\ store \in [Row -> Content \cup {Nothing}]
    /\ entry \in [Row -> EntryType]
    /\ nextRow \in Nat \ {0}
    /\ flagged \in [Finding -> BOOLEAN]
    /\ req \in [Handler -> RequestType]
    /\ loss \in [Path -> SUBSET {"deleted", "wiped", "torn", "swapped"}]

\* The steps at which a containment, a restore and a deletion know their row.
Containing(r) == req[r].at \in {"copy", "remove", "name", "flag", "undo"}
TakesOut(r) == req[r].at \in {"open", "stream", "mark", "drop", "unlink", "erase"}

\* A row is in use from its number on, and nothing is stored beyond.
RowsInUse ==
    \A i \in Row :
        /\ i < nextRow => entry[i].state # "none" /\ entry[i].finding \in Finding
        /\ ~(i < nextRow) => entry[i] = NoEntry /\ store[i] = Nothing

\* What a request knows of its row stays true.
RowsKnown ==
    \A r \in Handler :
        /\ req[r].at = "record" \/ Containing(r) => req[r].finding \in Finding
        /\ Containing(r) \/ TakesOut(r) => req[r].row \in Row /\ req[r].row < nextRow
        /\ Containing(r) => entry[req[r].row].finding = req[r].finding
        /\ TakesOut(r) /\ req[r].named => entry[req[r].row].named
        /\ req[r].at \in {"stream", "mark", "drop"} => req[r].named

\* A containment is alone with its row until it has given it a name.
RowsOwned ==
    \A r \in Handler : Containing(r) =>
        /\ req[r].at # "flag" => ~entry[req[r].row].named
        /\ \A s \in Handler : Containing(s) /\ req[s].row = req[r].row => s = r

\* The copy of a containment is in the store from the copying on.
Gone(i) == loss[PathOfRow(i)] \cap {"deleted", "wiped"} # {}

CopyInStore ==
    \A r \in Handler :
        /\ req[r].at \in {"copy", "undo"} => store[req[r].row] = Nothing
        /\ req[r].at \in {"remove", "name"} => store[req[r].row] # Nothing \/ Gone(req[r].row)
        /\ req[r].at = "drop" => entry[req[r].row].state # "held"

\* A restore writes a file of its own, and what it writes is what is stored.
RestoresWrite ==
    /\ \A p \in Path : writing[p] # Nothing => tree[p] = "part"
    /\ \A p \in Path, r \in Handler :
           writing[p] = r => req[r].at = "stream" /\ PathOfRow(req[r].row) = p
    /\ \A r \in Handler : req[r].at = "stream" =>
           /\ store[req[r].row] \in {req[r].content, Nothing}
           /\ writing[PathOfRow(req[r].row)] = r \/ loss[PathOfRow(req[r].row)] # {}

\* A found file is in the tree or in a copy that nobody takes away.
Leaving(i) == \E r \in Handler : req[r].row = i /\ req[r].at \in {"remove", "mark", "drop"}
Kept(p) ==
    \/ loss[p] # {}
    \/ tree[p] = "found"
    \/ \E i \in Row : store[i] = "found" /\ PathOfRow(i) = p /\ ~Leaving(i)
AllKept == \A p \in Path : Kept(p)

\* Once the original is removed, only a restore brings a found file.
Contained(f) == tree[PathOf[f]] # "found" \/ PathOf[f] \in back
FlagsRight ==
    /\ \A f \in Finding : flagged[f] => Contained(f)
    /\ \A r \in Handler : req[r].at \in {"name", "flag"} => Contained(req[r].finding)

QuarantineInv ==
    /\ QuarantineTypes /\ RowsInUse /\ RowsKnown /\ RowsOwned /\ CopyInStore
    /\ RestoresWrite /\ AllKept /\ HeldEntryHasItsFile /\ FlagsRight


\* The quarantine starts with nothing but found files.
LEMMA QuarantineStarts == QuarantineAssumption /\ QuarantineInit => QuarantineInv
<1> SUFFICES ASSUME QuarantineAssumption, QuarantineInit PROVE QuarantineInv
  OBVIOUS
<1> USE DEF QuarantineInit, NotAsked
<1>1. QuarantineTypes
  BY DEF QuarantineAssumption, QuarantineTypes, RequestType, QuarantineStep, EntryType, NoEntry, Content
<1>2. RowsInUse BY DEF RowsInUse, Row
<1>3. RowsKnown BY DEF RowsKnown, Containing, TakesOut
<1>4. RowsOwned BY DEF RowsOwned, Containing
<1>5. CopyInStore BY DEF CopyInStore
<1>6. RestoresWrite BY DEF QuarantineAssumption, RestoresWrite
<1>7. AllKept BY DEF AllKept, Kept
<1>8. HeldEntryHasItsFile BY DEF HeldEntryHasItsFile, NoEntry
<1>9. FlagsRight BY DEF FlagsRight, Contained
<1> QED BY <1>1, <1>2, <1>3, <1>4, <1>5, <1>6, <1>7, <1>8, <1>9 DEF QuarantineInv

\* A restore is not touched by what leaves the files it writes alone.
LEMMA RestoresGoOn ==
    ASSUME QuarantineInv, UNCHANGED <<writing, entry, loss>>,
           \A p \in Path : writing[p] # Nothing => tree'[p] = tree[p],
           \A i \in Row : store'[i] \in {store[i], Nothing},
           \A s \in Handler : req'[s].at = "stream" \/ req[s].at = "stream" => req'[s] = req[s]
    PROVE  RestoresWrite'
<1>1. RestoresWrite BY DEF QuarantineInv
<1>2. \A s \in Handler : req[s].at = "stream" => req[s].row \in Row
  BY DEF QuarantineInv, RowsKnown, TakesOut
<1>3. \A i \in Row : PathOfRow(i)' = PathOfRow(i) BY DEF PathOfRow
<1>4. (\A p \in Path : writing[p] # Nothing => tree[p] = "part")' BY <1>1 DEF RestoresWrite
<1>5. (\A p \in Path, s \in Handler :
         writing[p] = s => req[s].at = "stream" /\ PathOfRow(req[s].row) = p)'
  BY <1>1, <1>2, <1>3 DEF RestoresWrite
<1>6. (\A s \in Handler : req[s].at = "stream" =>
         /\ store[req[s].row] \in {req[s].content, Nothing}
         /\ writing[PathOfRow(req[s].row)] = s \/ loss[PathOfRow(req[s].row)] # {})'
  BY <1>1, <1>2, <1>3 DEF RestoresWrite
<1> QED BY <1>4, <1>5, <1>6 DEF RestoresWrite

\* How a request's own record changes.
LEMMA RequestGoesOn ==
    ASSUME QuarantineTypes, NEW r \in Handler, NEW a \in QuarantineStep, GoOn(r, a)
    PROVE  /\ req' \in [Handler -> RequestType]
           /\ req'[r].at = a /\ req'[r].row = req[r].row /\ req'[r].named = req[r].named
           /\ req'[r].finding = req[r].finding /\ req'[r].content = req[r].content
           /\ \A s \in Handler \ {r} : req'[s] = req[s]
BY DEF QuarantineTypes, GoOn, RequestType

LEMMA RequestEnds ==
    ASSUME QuarantineAssumption, QuarantineTypes, NEW r \in Handler, Done(r)
    PROVE  /\ req' \in [Handler -> RequestType]
           /\ req'[r].at = "idle"
           /\ \A s \in Handler \ {r} : req'[s] = req[s]
BY DEF QuarantineAssumption, QuarantineTypes, Done, RequestType, NotAsked, QuarantineStep

\* A request that ends, having changed nothing.
LEMMA EndKeeps ==
    ASSUME QuarantineAssumption, QuarantineInv, NEW r \in Handler, Done(r),
           UNCHANGED <<tree, writing, store, entry, nextRow, flagged, back, loss>>,
           req[r].at # "stream"
    PROVE  QuarantineInv'
<1>1. QuarantineTypes BY DEF QuarantineInv
<1>2. /\ req' \in [Handler -> RequestType] /\ req'[r].at = "idle"
      /\ \A s \in Handler \ {r} : req'[s] = req[s]
  BY <1>1, RequestEnds
<1> HIDE DEF Done
<1>3. QuarantineTypes' BY <1>1, <1>2 DEF QuarantineTypes
<1>4. RowsInUse' BY DEF QuarantineInv, RowsInUse
<1>5. RowsKnown' BY <1>2 DEF QuarantineInv, RowsKnown, Containing, TakesOut
<1>6. RowsOwned' BY <1>2 DEF QuarantineInv, RowsOwned, Containing
<1>7. CopyInStore' BY <1>2 DEF QuarantineInv, CopyInStore, Gone, PathOfRow
<1>8. RestoresWrite' BY <1>2, RestoresGoOn
<1>9. AllKept'
  <2>1. \A i \in Row : Leaving(i)' => Leaving(i) BY <1>2 DEF Leaving
  <2> QED BY <2>1 DEF QuarantineInv, AllKept, Kept, PathOfRow
<1>10. HeldEntryHasItsFile' BY DEF QuarantineInv, HeldEntryHasItsFile, PathOfRow
<1>11. FlagsRight' BY <1>2 DEF QuarantineInv, FlagsRight, Contained
<1> QED BY <1>3, <1>4, <1>5, <1>6, <1>7, <1>8, <1>9, <1>10, <1>11 DEF QuarantineInv

\* A request comes in, and knows a finding or a row that is in use.
LEMMA ComesInKeeps ==
    ASSUME QuarantineAssumption, QuarantineInv, NEW r \in Handler, req[r].at = "idle",
           UNCHANGED <<tree, writing, store, entry, nextRow, flagged, back, loss>>,
           NEW q \in RequestType, req' = [req EXCEPT ![r] = q],
           \/ q.at = "record" /\ q.finding \in Finding
           \/ /\ q.at \in {"open", "unlink"} /\ q.row \in Row
              /\ entry[q.row].state # "none" /\ q.named = entry[q.row].named
    PROVE  QuarantineInv'
<1>1. /\ req' \in [Handler -> RequestType]
      /\ req'[r] = q /\ \A s \in Handler \ {r} : req'[s] = req[s]
  BY DEF QuarantineInv, QuarantineTypes
<1>2. QuarantineTypes' BY <1>1 DEF QuarantineInv, QuarantineTypes
<1>3. RowsInUse' BY DEF QuarantineInv, RowsInUse
<1>4. RowsKnown'
  <2>1. q.row \in Row /\ entry[q.row].state # "none" => q.row < nextRow
    BY DEF QuarantineInv, RowsInUse, NoEntry
  <2> QED BY <1>1, <2>1 DEF QuarantineInv, RowsKnown, Containing, TakesOut
<1>5. RowsOwned' BY <1>1 DEF QuarantineInv, RowsOwned, Containing
<1>6. CopyInStore' BY <1>1 DEF QuarantineInv, CopyInStore, Gone, PathOfRow
<1>7. RestoresWrite' BY <1>1, RestoresGoOn
<1>8. AllKept'
  <2>1. \A i \in Row : Leaving(i)' => Leaving(i) BY <1>1 DEF Leaving
  <2> QED BY <2>1 DEF QuarantineInv, AllKept, Kept, PathOfRow
<1>9. HeldEntryHasItsFile' BY DEF QuarantineInv, HeldEntryHasItsFile, PathOfRow
<1>10. FlagsRight' BY <1>1 DEF QuarantineInv, FlagsRight, Contained
<1> QED BY <1>2, <1>3, <1>4, <1>5, <1>6, <1>7, <1>8, <1>9, <1>10 DEF QuarantineInv

LEMMA NotAskedIsARequest ==
    QuarantineAssumption => NotAsked \in RequestType /\ NotAsked.at = "idle"
BY DEF QuarantineAssumption, NotAsked, RequestType, QuarantineStep

LEMMA AskKeeps ==
    ASSUME QuarantineAssumption, QuarantineInv, NEW r \in Handler,
           \/ \E f \in Finding : AskQuarantine(r, f)
           \/ \E i \in Row : AskRestore(r, i) \/ AskDelete(r, i)
    PROVE  QuarantineInv'
<1>1. ASSUME NEW f \in Finding, AskQuarantine(r, f) PROVE QuarantineInv'
  <2> DEFINE m == [NotAsked EXCEPT !.at = "record"]
             q == [m EXCEPT !.finding = f]
  <2>1. m \in RequestType /\ m.at = "record" BY NotAskedIsARequest DEF RequestType, QuarantineStep
  <2>2. /\ UNCHANGED <<tree, writing, store, entry, nextRow, flagged, back, loss>>
        /\ req[r] = NotAsked
        /\ req' = [req EXCEPT ![r] = q]
    BY <1>1 DEF AskQuarantine
  <2> HIDE DEF m
  <2>3. q \in RequestType /\ q.at = "record" /\ q.finding = f BY <2>1 DEF RequestType
  <2> HIDE DEF q
  <2> QED BY <2>2, <2>3, NotAskedIsARequest, ComesInKeeps
<1>2. ASSUME NEW i \in Row, NEW s \in {"open", "unlink"},
             req[r] = NotAsked, entry[i].state # "none",
             req' = [req EXCEPT ![r] = [NotAsked EXCEPT !.at = s, !.row = i, !.named = entry[i].named]],
             UNCHANGED <<tree, writing, store, entry, nextRow, flagged, back, loss>>
      PROVE  QuarantineInv'
  <2> DEFINE m == [NotAsked EXCEPT !.at = s]
             n == [m EXCEPT !.row = i]
             q == [n EXCEPT !.named = entry[i].named]
  <2>1. m \in RequestType /\ m.at = s BY NotAskedIsARequest DEF RequestType, QuarantineStep
  <2>2. req' = [req EXCEPT ![r] = q] BY <1>2
  <2>3. entry[i].named \in BOOLEAN /\ i \in 0..MaxRows
    BY DEF QuarantineInv, QuarantineTypes, EntryType, Row
  <2> HIDE DEF m
  <2>4. n \in RequestType /\ n.at = s /\ n.row = i BY <2>1, <2>3 DEF RequestType
  <2> HIDE DEF n
  <2>5. q \in RequestType /\ q.at = s /\ q.row = i /\ q.named = entry[i].named
    BY <2>3, <2>4 DEF RequestType
  <2> HIDE DEF q
  <2> QED BY <1>2, <2>2, <2>5, NotAskedIsARequest, ComesInKeeps
<1>3. ASSUME NEW i \in Row, AskRestore(r, i) PROVE QuarantineInv'
  BY <1>2, <1>3 DEF AskRestore
<1>4. ASSUME NEW i \in Row, AskDelete(r, i) PROVE QuarantineInv'
  BY <1>2, <1>4 DEF AskDelete
<1> QED BY <1>1, <1>3, <1>4

\* A containment is given the next row, which nobody knows.
LEMMA RecordKeeps ==
    ASSUME QuarantineAssumption, QuarantineInv, NEW r \in Handler, record(r) PROVE QuarantineInv'
<1>1. CASE Done(r) /\ UNCHANGED <<entry, nextRow>>
  BY <1>1, EndKeeps DEF record
<1>2. CASE /\ nextRow \in Row
           /\ entry' = [entry EXCEPT ![nextRow] =
                 [state |-> "held", finding |-> req[r].finding, named |-> FALSE]]
           /\ req' = [req EXCEPT ![r].at = "copy", ![r].row = nextRow]
           /\ nextRow' = nextRow + 1
  <2>1. /\ UNCHANGED <<tree, writing, store, flagged, back, loss>>
        /\ req[r].at = "record" /\ req[r].finding \in Finding
    BY DEF record, QuarantineInv, RowsKnown
  <2>2. /\ req' \in [Handler -> RequestType]
        /\ req'[r].at = "copy" /\ req'[r].row = nextRow /\ req'[r].finding = req[r].finding
        /\ \A s \in Handler \ {r} : req'[s] = req[s]
    <3> DEFINE m == [req EXCEPT ![r].at = "copy"]
    <3>1. /\ m \in [Handler -> RequestType]
          /\ m[r].at = "copy" /\ m[r].finding = req[r].finding
          /\ \A s \in Handler \ {r} : m[s] = req[s]
      BY DEF QuarantineInv, QuarantineTypes, RequestType, QuarantineStep
    <3>2. req' = [m EXCEPT ![r].row = nextRow] BY <1>2
    <3>3. nextRow \in 0..MaxRows BY <1>2 DEF Row
    <3> HIDE DEF m
    <3> QED BY <3>1, <3>2, <3>3 DEF RequestType
  <2>3. /\ entry' \in [Row -> EntryType]
        /\ entry'[nextRow] = [state |-> "held", finding |-> req[r].finding, named |-> FALSE]
        /\ \A i \in Row \ {nextRow} : entry'[i] = entry[i]
    BY <1>2, <2>1 DEF QuarantineInv, QuarantineTypes, EntryType
  <2>4. \A i \in Row : i \in Nat /\ (i < nextRow' <=> i < nextRow \/ i = nextRow)
    BY <1>2 DEF QuarantineInv, QuarantineTypes, Row
  <2>5. \A s \in Handler : Containing(s) \/ TakesOut(s) => req[s].row \in Row /\ req[s].row # nextRow
    BY <2>4 DEF QuarantineInv, RowsKnown
  <2>6. nextRow' \in Nat \ {0} BY <1>2 DEF QuarantineInv, QuarantineTypes
  <2>7. QuarantineTypes' BY <2>1, <2>2, <2>3, <2>6 DEF QuarantineInv, QuarantineTypes
  <2>8. RowsInUse'
    BY <2>1, <2>3, <2>4 DEF QuarantineInv, RowsInUse
  <2>9. RowsKnown'
    BY <1>2, <2>1, <2>2, <2>3, <2>4, <2>5 DEF QuarantineInv, RowsKnown, Containing, TakesOut
  <2>10. RowsOwned' BY <1>2, <2>2, <2>3, <2>5 DEF QuarantineInv, RowsOwned, Containing
  <2>11. CopyInStore'
    <3>1. store[nextRow] = Nothing BY <1>2, <2>4 DEF QuarantineInv, RowsInUse
    <3>2. \A s \in Handler \ {r} : req[s].at \in {"copy", "undo", "remove", "name", "drop"}
                                       => entry'[req[s].row] = entry[req[s].row]
      BY <2>3, <2>5 DEF Containing, TakesOut
    <3> QED BY <2>1, <2>2, <3>1, <3>2 DEF QuarantineInv, CopyInStore, Gone, PathOfRow
  <2>12. RestoresWrite'
    <3>1. \A s \in Handler \ {r} : req[s].at = "stream" => entry'[req[s].row] = entry[req[s].row]
      BY <2>3, <2>5 DEF TakesOut
    <3> QED BY <2>1, <2>2, <3>1 DEF QuarantineInv, RestoresWrite, PathOfRow
  <2>13. AllKept'
    <3>1. \A i \in Row : Leaving(i)' => Leaving(i) BY <2>2 DEF Leaving
    <3>2. \A i \in Row : store[i] = "found" => PathOfRow(i)' = PathOfRow(i)
      BY <2>3, <2>4 DEF QuarantineAssumption, QuarantineInv, RowsInUse, PathOfRow
    <3> QED BY <2>1, <3>1, <3>2 DEF QuarantineInv, AllKept, Kept
  <2>14. HeldEntryHasItsFile'
    BY <2>1, <2>3 DEF QuarantineInv, HeldEntryHasItsFile, PathOfRow
  <2>15. FlagsRight' BY <2>1, <2>2 DEF QuarantineInv, FlagsRight, Contained
  <2> QED BY <2>7, <2>8, <2>9, <2>10, <2>11, <2>12, <2>13, <2>14, <2>15 DEF QuarantineInv
<1> QED BY <1>1, <1>2 DEF record

\* What a containment may count on.
LEMMA ContainmentKnows ==
    ASSUME QuarantineAssumption, QuarantineInv, NEW r \in Handler, Containing(r)
    PROVE  /\ req[r].row \in Row /\ req[r].finding \in Finding
           /\ PathOfRow(req[r].row) = PathOf[req[r].finding] /\ PathOf[req[r].finding] \in Path
           /\ req[r].at # "flag" =>
                /\ ~entry[req[r].row].named
                /\ \A s \in Handler : Containing(s) /\ req[s].row = req[r].row => s = r
                /\ \A s \in Handler : TakesOut(s) /\ req[s].row = req[r].row => ~req[s].named
BY DEF QuarantineAssumption, QuarantineInv, RowsKnown, RowsOwned, PathOfRow

\* A containment takes its copy back, or never had one.
LEMMA GiveUpKeeps ==
    ASSUME QuarantineAssumption, QuarantineInv, NEW r \in Handler,
           req[r].at \in {"copy", "remove"}, GoOn(r, "undo"),
           store' = [store EXCEPT ![req[r].row] = Nothing],
           UNCHANGED <<tree, writing, entry, nextRow, flagged, back, loss>>
    PROVE  QuarantineInv'
<1>1. /\ req' \in [Handler -> RequestType]
      /\ req'[r].at = "undo" /\ req'[r].row = req[r].row
      /\ req'[r].finding = req[r].finding
      /\ \A s \in Handler \ {r} : req'[s] = req[s]
  BY RequestGoesOn DEF QuarantineInv, QuarantineStep
<1>2. /\ req[r].row \in Row
      /\ ~entry[req[r].row].named
      /\ \A s \in Handler : Containing(s) /\ req[s].row = req[r].row => s = r
      /\ \A s \in Handler : TakesOut(s) /\ req[s].row = req[r].row => ~req[s].named
  BY ContainmentKnows DEF Containing
<1>3. /\ store' \in [Row -> Content \cup {Nothing}]
      /\ store'[req[r].row] = Nothing
      /\ \A i \in Row \ {req[r].row} : store'[i] = store[i]
  BY <1>2 DEF QuarantineInv, QuarantineTypes
<1>4. QuarantineTypes' BY <1>1, <1>3 DEF QuarantineInv, QuarantineTypes
<1>5. RowsInUse' BY <1>3 DEF QuarantineInv, RowsInUse
<1>6. RowsKnown' BY <1>1 DEF QuarantineInv, RowsKnown, Containing, TakesOut
<1>7. RowsOwned' BY <1>1 DEF QuarantineInv, RowsOwned, Containing
<1>8. CopyInStore'
  <2>1. \A s \in Handler \ {r} : Containing(s) => req[s].row \in Row /\ req[s].row # req[r].row
    BY <1>2 DEF QuarantineInv, RowsKnown
  <2> QED BY <1>1, <1>3, <2>1 DEF QuarantineInv, CopyInStore, Gone, PathOfRow, Containing
<1>9. RestoresWrite' BY <1>1, <1>3, RestoresGoOn
<1>10. AllKept'
  <2>1. \A i \in Row : Leaving(i)' => Leaving(i) BY <1>1 DEF Leaving
  <2>2. store[req[r].row] = Nothing \/ Leaving(req[r].row)
    BY DEF QuarantineInv, CopyInStore, Leaving
  <2>3. Nothing # "found" BY DEF QuarantineAssumption
  <2> QED BY <1>3, <2>1, <2>2, <2>3 DEF QuarantineInv, AllKept, Kept, PathOfRow
<1>11. HeldEntryHasItsFile' BY <1>2, <1>3 DEF QuarantineInv, HeldEntryHasItsFile, PathOfRow
<1>12. FlagsRight' BY <1>1 DEF QuarantineInv, FlagsRight, Contained
<1> QED BY <1>4, <1>5, <1>6, <1>7, <1>8, <1>9, <1>10, <1>11, <1>12 DEF QuarantineInv

\* The copy is made beside the original.
LEMMA CopyKeeps ==
    ASSUME QuarantineAssumption, QuarantineInv, NEW r \in Handler, Copy(r) PROVE QuarantineInv'
<1> DEFINE p == PathOf[req[r].finding]
<1>1. /\ req[r].at = "copy"
      /\ UNCHANGED <<tree, writing, entry, nextRow, flagged, back>>
  BY DEF Copy
<1>2. /\ req[r].row \in Row /\ PathOfRow(req[r].row) = p /\ p \in Path
      /\ ~entry[req[r].row].named
      /\ \A s \in Handler : Containing(s) /\ req[s].row = req[r].row => s = r
      /\ \A s \in Handler : TakesOut(s) /\ req[s].row = req[r].row => ~req[s].named
  BY <1>1, ContainmentKnows DEF Containing
<1>3. CASE GoOn(r, "undo") /\ UNCHANGED <<store, loss>>
  <2>1. store' = [store EXCEPT ![req[r].row] = Nothing]
    BY <1>1, <1>2, <1>3 DEF QuarantineInv, QuarantineTypes, CopyInStore
  <2> QED BY <1>1, <1>3, <2>1, GiveUpKeeps
<1>4. CASE /\ tree[p] # Nothing
           /\ store' = [store EXCEPT ![req[r].row] = tree[p]]
           /\ loss' = [loss EXCEPT ![p] = IF writing[p] = Nothing THEN @ ELSE @ \cup {"torn"}]
           /\ GoOn(r, "remove")
  <2>1. /\ req' \in [Handler -> RequestType]
        /\ req'[r].at = "remove" /\ req'[r].row = req[r].row
        /\ req'[r].finding = req[r].finding
        /\ \A s \in Handler \ {r} : req'[s] = req[s]
    BY <1>4, RequestGoesOn DEF QuarantineInv, QuarantineStep
  <2>2. /\ store' \in [Row -> Content \cup {Nothing}]
        /\ store'[req[r].row] # Nothing
        /\ \A i \in Row \ {req[r].row} : store'[i] = store[i]
    BY <1>2, <1>4 DEF QuarantineInv, QuarantineTypes
  <2>3. /\ loss' \in [Path -> SUBSET {"deleted", "wiped", "torn", "swapped"}]
        /\ \A q \in Path : loss[q] \subseteq loss'[q]
    BY <1>2, <1>4 DEF QuarantineInv, QuarantineTypes
  <2>4. \A i \in Row : PathOfRow(i)' = PathOfRow(i) BY <1>1 DEF PathOfRow
  <2>5. \A i \in Row : i < nextRow => PathOfRow(i) \in Path
    BY DEF QuarantineAssumption, QuarantineInv, RowsInUse, PathOfRow
  <2>6. \A i \in Row : i < nextRow /\ Gone(i) => Gone(i)' BY <2>3, <2>4, <2>5 DEF Gone
  <2>7. QuarantineTypes' BY <1>1, <2>1, <2>2, <2>3 DEF QuarantineInv, QuarantineTypes
  <2>8. RowsInUse' BY <1>1, <2>2, ContainmentKnows DEF QuarantineInv, RowsInUse, RowsKnown, Containing
  <2>9. RowsKnown' BY <1>1, <2>1 DEF QuarantineInv, RowsKnown, Containing, TakesOut
  <2>10. RowsOwned' BY <1>1, <2>1 DEF QuarantineInv, RowsOwned, Containing
  <2>11. CopyInStore'
    <3>1. \A s \in Handler \ {r} : Containing(s) =>
              req[s].row \in Row /\ req[s].row < nextRow /\ req[s].row # req[r].row
      BY <1>2 DEF QuarantineInv, RowsKnown
    <3> QED BY <1>1, <2>1, <2>2, <2>6, <3>1 DEF QuarantineInv, CopyInStore, Containing
  <2>12. RestoresWrite'
    <3>1. \A s \in Handler : req[s].at = "stream" =>
              req[s].row \in Row /\ req[s].row # req[r].row /\ PathOfRow(req[s].row) \in Path
      BY <1>2, <2>5 DEF QuarantineInv, RowsKnown, TakesOut
    <3> QED BY <1>1, <2>1, <2>2, <2>3, <2>4, <3>1 DEF QuarantineInv, RestoresWrite
  <2>13. AllKept'
    <3>1. \A i \in Row \ {req[r].row} : Leaving(i)' => Leaving(i) BY <2>1 DEF Leaving
    <3>2. store[req[r].row] = Nothing BY <1>1 DEF QuarantineInv, CopyInStore
    <3>3. Nothing # "found" BY DEF QuarantineAssumption
    <3> QED BY <1>1, <2>2, <2>3, <2>4, <3>1, <3>2, <3>3 DEF QuarantineInv, AllKept, Kept
  <2>14. HeldEntryHasItsFile'
    <3>1. \A i \in Row : entry[i].state = "held" => i < nextRow
      BY DEF QuarantineInv, RowsInUse, NoEntry
    <3> QED BY <1>1, <2>2, <2>6, <3>1 DEF QuarantineInv, HeldEntryHasItsFile, Gone
  <2>15. FlagsRight' BY <1>1, <2>1 DEF QuarantineInv, FlagsRight, Contained
  <2> QED BY <2>7, <2>8, <2>9, <2>10, <2>11, <2>12, <2>13, <2>14, <2>15 DEF QuarantineInv
<1> QED BY <1>1, <1>3, <1>4 DEF Copy

\* The original goes, or the containment gives up.
LEMMA RemoveOriginalKeeps ==
    ASSUME QuarantineAssumption, QuarantineInv, NEW r \in Handler, RemoveOriginal(r)
    PROVE  QuarantineInv'
<1>1. req[r].at = "remove" /\ UNCHANGED <<entry, nextRow, flagged, back>>
  BY DEF RemoveOriginal
<1>2. PICK n \in Row, g \in Finding, p \in Path :
         n = req[r].row /\ g = req[r].finding /\ PathOfRow(n) = p /\ PathOf[g] = p
  BY <1>1, ContainmentKnows DEF Containing
<1>3. CASE /\ GoOn(r, "undo") /\ store' = [store EXCEPT ![n] = Nothing]
           /\ UNCHANGED <<tree, writing, loss>>
  BY <1>1, <1>2, <1>3, GiveUpKeeps
<1>4. CASE /\ tree' = [tree EXCEPT ![p] = Nothing]
           /\ writing' = [writing EXCEPT ![p] = Nothing]
           /\ loss' = [loss EXCEPT ![p] =
                  IF writing[p] # Nothing \/ tree[p] \notin {store[n], Nothing}
                  THEN @ \cup {"swapped"} ELSE @]
           /\ GoOn(r, "name")
           /\ UNCHANGED store
  <2>1. /\ req' \in [Handler -> RequestType]
        /\ req'[r].at = "name" /\ req'[r].row = n /\ req'[r].finding = g
        /\ \A s \in Handler \ {r} : req'[s] = req[s]
    BY <1>2, <1>4, RequestGoesOn DEF QuarantineInv, QuarantineStep
  <2>2. /\ tree' \in [Path -> Content \cup {Nothing}]
        /\ tree'[p] = Nothing /\ \A q \in Path \ {p} : tree'[q] = tree[q]
    BY <1>4 DEF QuarantineInv, QuarantineTypes
  <2>3. /\ writing' \in [Path -> Handler \cup {Nothing}]
        /\ writing'[p] = Nothing /\ \A q \in Path \ {p} : writing'[q] = writing[q]
    BY <1>4 DEF QuarantineInv, QuarantineTypes
  <2>4. /\ loss' \in [Path -> SUBSET {"deleted", "wiped", "torn", "swapped"}]
        /\ \A q \in Path : loss[q] \subseteq loss'[q]
        /\ writing[p] # Nothing => loss'[p] # {}
        /\ tree[p] \notin {store[n], Nothing} => loss'[p] # {}
    BY <1>4 DEF QuarantineInv, QuarantineTypes
  <2>5. \A i \in Row : PathOfRow(i)' = PathOfRow(i) BY <1>1 DEF PathOfRow
  <2>6. \A i \in Row : i < nextRow => PathOfRow(i) \in Path
    BY DEF QuarantineAssumption, QuarantineInv, RowsInUse, PathOfRow
  <2>7. \A i \in Row : i < nextRow /\ Gone(i) => Gone(i)' BY <2>4, <2>5, <2>6 DEF Gone
  <2>8. QuarantineTypes' BY <1>1, <1>4, <2>1, <2>2, <2>3, <2>4 DEF QuarantineInv, QuarantineTypes
  <2>9. RowsInUse' BY <1>1, <1>4 DEF QuarantineInv, RowsInUse
  <2>10. RowsKnown' BY <1>1, <1>2, <2>1 DEF QuarantineInv, RowsKnown, Containing, TakesOut
  <2>11. RowsOwned' BY <1>1, <1>2, <2>1 DEF QuarantineInv, RowsOwned, Containing
  <2>12. CopyInStore'
    <3>1. \A s \in Handler : Containing(s) => req[s].row \in Row /\ req[s].row < nextRow
      BY DEF QuarantineInv, RowsKnown
    <3> QED BY <1>1, <1>2, <1>4, <2>1, <2>7, <3>1 DEF QuarantineInv, CopyInStore, Containing
  <2>13. RestoresWrite'
    <3>1. \A s \in Handler : req[s].at = "stream" =>
              req[s].row \in Row /\ PathOfRow(req[s].row) \in Path
      BY <2>6 DEF QuarantineInv, RowsKnown, TakesOut
    <3>2. \A s \in Handler : s # Nothing BY DEF QuarantineAssumption
    <3>3. \A s \in Handler : req'[s].at = "stream" => req'[s] = req[s] BY <2>1
    <3>4. \A q \in Path, s \in Handler : writing'[q] = s => writing[q] = s /\ s # r
      BY <1>1, <2>3, <3>2 DEF QuarantineInv, RestoresWrite
    <3>5. \A s \in Handler : req[s].at = "stream" =>
             \/ writing'[PathOfRow(req[s].row)] = s
             \/ loss'[PathOfRow(req[s].row)] # {}
      BY <2>3, <2>4, <3>1, <3>2 DEF QuarantineInv, RestoresWrite
    <3>6. (\A q \in Path : writing[q] # Nothing => tree[q] = "part")'
      BY <2>2, <2>3 DEF QuarantineInv, RestoresWrite
    <3>7. (\A q \in Path, s \in Handler :
             writing[q] = s => req[s].at = "stream" /\ PathOfRow(req[s].row) = q)'
      BY <2>1, <2>5, <3>1, <3>4 DEF QuarantineInv, RestoresWrite
    <3>8. (\A s \in Handler : req[s].at = "stream" =>
             /\ store[req[s].row] \in {req[s].content, Nothing}
             /\ writing[PathOfRow(req[s].row)] = s \/ loss[PathOfRow(req[s].row)] # {})'
      BY <1>4, <2>5, <3>1, <3>3, <3>5 DEF QuarantineInv, RestoresWrite
    <3> QED BY <3>6, <3>7, <3>8 DEF RestoresWrite
  <2>14. AllKept'
    <3>1. \A i \in Row : Leaving(i)' => Leaving(i) BY <1>1, <1>2, <2>1 DEF Leaving
    <3>2. ~Leaving(n)'
      BY <1>1, <1>2, <2>1, ContainmentKnows DEF Leaving, Containing, TakesOut, QuarantineInv, RowsKnown
    <3>3. CASE loss'[p] # {}
      BY <1>4, <2>2, <2>4, <2>5, <3>1, <3>3 DEF QuarantineInv, AllKept, Kept
    <3>4. CASE loss'[p] = {}
      <4>1. tree[p] = "found" => store[n] = "found"
        BY <2>4, <3>4 DEF QuarantineAssumption
      <4>2. loss[p] = {} BY <2>4, <3>4
      <4>3. Kept(p)' BY <1>2, <1>4, <2>5, <3>1, <3>2, <4>1, <4>2 DEF QuarantineInv, AllKept, Kept
      <4> QED BY <1>4, <2>2, <2>4, <2>5, <3>1, <4>3 DEF QuarantineInv, AllKept, Kept
    <3> QED BY <3>3, <3>4
  <2>15. HeldEntryHasItsFile'
    <3>1. \A i \in Row : entry[i].state = "held" => i < nextRow
      BY DEF QuarantineInv, RowsInUse, NoEntry
    <3> QED BY <1>1, <1>4, <2>7, <3>1 DEF QuarantineInv, HeldEntryHasItsFile, Gone
  <2>16. FlagsRight'
    <3>1. \A f \in Finding : Contained(f) => Contained(f)'
      BY <1>1, <2>2 DEF QuarantineAssumption, Contained
    <3>2. Contained(g)' BY <1>2, <2>2 DEF QuarantineAssumption, Contained
    <3>3. \A s \in Handler : req[s].at \in {"name", "flag"} => req[s].finding \in Finding
      BY DEF QuarantineInv, RowsKnown, Containing
    <3> QED BY <1>1, <2>1, <3>1, <3>2, <3>3 DEF QuarantineInv, FlagsRight
  <2> QED BY <2>8, <2>9, <2>10, <2>11, <2>12, <2>13, <2>14, <2>15, <2>16 DEF QuarantineInv
<1> QED BY <1>1, <1>2, <1>3, <1>4 DEF RemoveOriginal

\* The row is given its name.
LEMMA NameKeeps ==
    ASSUME QuarantineAssumption, QuarantineInv, NEW r \in Handler, Name(r) PROVE QuarantineInv'
<1>1. /\ req[r].at = "name"
      /\ UNCHANGED <<tree, writing, store, nextRow, flagged, back, loss>>
  BY DEF Name
<1>2. PICK n \in Row : n = req[r].row
  BY <1>1, ContainmentKnows DEF Containing
<1>3. CASE Done(r) /\ UNCHANGED entry BY <1>1, <1>3, EndKeeps
<1>4. CASE GoOn(r, "flag") /\ \E b \in BOOLEAN : entry' = [entry EXCEPT ![n].named = b]
  <2>1. /\ req' \in [Handler -> RequestType]
        /\ req'[r].at = "flag" /\ req'[r].row = n /\ req'[r].finding = req[r].finding
        /\ \A s \in Handler \ {r} : req'[s] = req[s]
    BY <1>2, <1>4, RequestGoesOn DEF QuarantineInv, QuarantineStep
  <2>2. PICK b \in BOOLEAN : entry' = [entry EXCEPT ![n].named = b] BY <1>4
  <2>3. /\ entry' \in [Row -> EntryType]
        /\ \A i \in Row : entry'[i].state = entry[i].state /\ entry'[i].finding = entry[i].finding
        /\ \A i \in Row \ {n} : entry'[i] = entry[i]
    BY <2>2 DEF QuarantineInv, QuarantineTypes, EntryType
  <2>4. \A i \in Row : PathOfRow(i)' = PathOfRow(i) BY <2>3 DEF PathOfRow
  <2>5. n < nextRow /\ ~entry[n].named
    BY <1>1, <1>2, ContainmentKnows DEF Containing, QuarantineInv, RowsKnown
  <2>6. \A s \in Handler \ {r} : Containing(s) => req[s].row \in Row /\ req[s].row # n
    BY <1>1, <1>2, ContainmentKnows DEF Containing, QuarantineInv, RowsKnown
  <2>7. \A s \in Handler : TakesOut(s) => req[s].row \in Row
    BY DEF QuarantineInv, RowsKnown
  <2>8. QuarantineTypes' BY <1>1, <2>1, <2>3 DEF QuarantineInv, QuarantineTypes
  <2>9. RowsInUse' BY <1>1, <2>3, <2>5 DEF QuarantineInv, RowsInUse
  <2>10. RowsKnown'
    BY <1>1, <1>2, <2>1, <2>3, <2>5, <2>7 DEF QuarantineInv, RowsKnown, Containing, TakesOut
  <2>11. RowsOwned' BY <1>1, <1>2, <2>1, <2>3, <2>6 DEF QuarantineInv, RowsOwned, Containing
  <2>12. CopyInStore'
    BY <1>1, <2>1, <2>3, <2>4, <2>6, <2>7
       DEF QuarantineInv, CopyInStore, Containing, TakesOut, Gone
  <2>13. RestoresWrite' BY <1>1, <2>1, <2>4, <2>7 DEF QuarantineInv, RestoresWrite, TakesOut
  <2>14. AllKept'
    <3>1. \A i \in Row : Leaving(i)' => Leaving(i) BY <1>1, <2>1 DEF Leaving
    <3> QED BY <1>1, <2>4, <3>1 DEF QuarantineInv, AllKept, Kept
  <2>15. HeldEntryHasItsFile'
    <3>1. store[n] # Nothing \/ Gone(n) BY <1>1, <1>2 DEF QuarantineInv, CopyInStore
    <3> QED BY <1>1, <2>3, <2>4, <3>1 DEF QuarantineInv, HeldEntryHasItsFile, Gone
  <2>16. FlagsRight' BY <1>1, <2>1 DEF QuarantineInv, FlagsRight, Contained
  <2> QED BY <2>8, <2>9, <2>10, <2>11, <2>12, <2>13, <2>14, <2>15, <2>16 DEF QuarantineInv
<1>5. CASE GoOn(r, "flag") /\ entry' = [entry EXCEPT ![n].named = (@ \/ entry[n].state # "deleted")]
  <2>1. entry' = [entry EXCEPT ![n].named = (entry[n].named \/ entry[n].state # "deleted")]
    BY <1>5
  <2> QED BY <1>4, <1>5, <2>1
<1> QED BY <1>1, <1>2, <1>3, <1>5 DEF Name

\* The finding is marked.
LEMMA FlagKeeps ==
    ASSUME QuarantineAssumption, QuarantineInv, NEW r \in Handler, Flag(r) PROVE QuarantineInv'
<1>1. /\ req[r].at = "flag" /\ Done(r)
      /\ UNCHANGED <<tree, writing, store, entry, nextRow, back, loss>>
  BY DEF Flag
<1>2. CASE UNCHANGED flagged BY <1>1, <1>2, EndKeeps
<1>3. CASE flagged' = [flagged EXCEPT ![req[r].finding] = TRUE]
  <2>1. /\ req' \in [Handler -> RequestType] /\ req'[r].at = "idle"
        /\ \A s \in Handler \ {r} : req'[s] = req[s]
    BY <1>1, RequestEnds DEF QuarantineInv
  <2>2. flagged' \in [Finding -> BOOLEAN]
    BY <1>1, <1>3 DEF QuarantineInv, QuarantineTypes
  <2>3. \A f \in Finding : flagged'[f] => flagged[f] \/ f = req[r].finding
    BY <1>3 DEF QuarantineInv, QuarantineTypes
  <2>4. QuarantineTypes' BY <1>1, <2>1, <2>2 DEF QuarantineInv, QuarantineTypes
  <2>5. RowsInUse' BY <1>1 DEF QuarantineInv, RowsInUse
  <2>6. RowsKnown' BY <1>1, <2>1 DEF QuarantineInv, RowsKnown, Containing, TakesOut
  <2>7. RowsOwned' BY <1>1, <2>1 DEF QuarantineInv, RowsOwned, Containing
  <2>8. CopyInStore' BY <1>1, <2>1 DEF QuarantineInv, CopyInStore, Gone, PathOfRow
  <2>9. RestoresWrite' BY <1>1, <2>1, RestoresGoOn
  <2>10. AllKept'
    <3>1. \A i \in Row : Leaving(i)' => Leaving(i) BY <2>1 DEF Leaving
    <3> QED BY <1>1, <3>1 DEF QuarantineInv, AllKept, Kept, PathOfRow
  <2>11. HeldEntryHasItsFile' BY <1>1 DEF QuarantineInv, HeldEntryHasItsFile, PathOfRow
  <2>12. FlagsRight' BY <1>1, <2>1, <2>3 DEF QuarantineInv, FlagsRight, Contained
  <2> QED BY <2>4, <2>5, <2>6, <2>7, <2>8, <2>9, <2>10, <2>11, <2>12 DEF QuarantineInv
<1> QED BY <1>2, <1>3 DEF Flag

\* A row is deleted, after its copy or instead of it.
LEMMA RowDeletedKeeps ==
    ASSUME QuarantineAssumption, QuarantineInv, NEW r \in Handler, Undo(r) \/ Erase(r)
    PROVE  QuarantineInv'
<1>1. /\ req[r].at \in {"undo", "erase"} /\ Done(r)
      /\ UNCHANGED <<tree, writing, store, nextRow, flagged, back, loss>>
  BY DEF Undo, Erase
<1>2. PICK n \in Row : n = req[r].row /\ n < nextRow
  BY <1>1 DEF QuarantineInv, RowsKnown, Containing, TakesOut
<1>3. CASE UNCHANGED entry BY <1>1, <1>3, EndKeeps
<1>4. CASE entry' = [entry EXCEPT ![n].state = "deleted"]
  <2>1. /\ req' \in [Handler -> RequestType] /\ req'[r].at = "idle"
        /\ \A s \in Handler \ {r} : req'[s] = req[s]
    BY <1>1, RequestEnds DEF QuarantineInv
  <2>2. /\ entry' \in [Row -> EntryType]
        /\ entry'[n].state = "deleted"
        /\ \A i \in Row : entry'[i].named = entry[i].named /\ entry'[i].finding = entry[i].finding
        /\ \A i \in Row \ {n} : entry'[i] = entry[i]
    BY <1>4 DEF QuarantineInv, QuarantineTypes, EntryType
  <2>3. \A i \in Row : PathOfRow(i)' = PathOfRow(i) BY <2>2 DEF PathOfRow
  <2>4. \A s \in Handler : Containing(s) \/ TakesOut(s) => req[s].row \in Row
    BY DEF QuarantineInv, RowsKnown
  <2>5. QuarantineTypes' BY <1>1, <2>1, <2>2 DEF QuarantineInv, QuarantineTypes
  <2>6. RowsInUse' BY <1>1, <1>2, <2>2 DEF QuarantineInv, RowsInUse
  <2>7. RowsKnown' BY <1>1, <2>1, <2>2, <2>4 DEF QuarantineInv, RowsKnown, Containing, TakesOut
  <2>8. RowsOwned' BY <1>1, <2>1, <2>2, <2>4 DEF QuarantineInv, RowsOwned, Containing
  <2>9. CopyInStore'
    BY <1>1, <2>1, <2>2, <2>3, <2>4 DEF QuarantineInv, CopyInStore, Containing, TakesOut, Gone
  <2>10. RestoresWrite' BY <1>1, <2>1, <2>3, <2>4 DEF QuarantineInv, RestoresWrite, TakesOut
  <2>11. AllKept'
    <3>1. \A i \in Row : Leaving(i)' => Leaving(i) BY <2>1 DEF Leaving
    <3> QED BY <1>1, <2>3, <3>1 DEF QuarantineInv, AllKept, Kept
  <2>12. HeldEntryHasItsFile' BY <1>1, <2>2, <2>3 DEF QuarantineInv, HeldEntryHasItsFile
  <2>13. FlagsRight' BY <1>1, <2>1 DEF QuarantineInv, FlagsRight, Contained
  <2> QED BY <2>5, <2>6, <2>7, <2>8, <2>9, <2>10, <2>11, <2>12, <2>13 DEF QuarantineInv
<1> QED BY <1>2, <1>3, <1>4 DEF Undo, Erase

\* A restore that is complete is recorded.
LEMMA MarkKeeps ==
    ASSUME QuarantineAssumption, QuarantineInv, NEW r \in Handler, Mark(r) PROVE QuarantineInv'
<1>1. /\ req[r].at = "mark"
      /\ UNCHANGED <<tree, writing, store, nextRow, flagged, back, loss>>
  BY DEF Mark
<1>2. PICK n \in Row : n = req[r].row /\ n < nextRow
  BY <1>1 DEF QuarantineInv, RowsKnown, TakesOut
<1>3. CASE Done(r) /\ UNCHANGED entry BY <1>1, <1>3, EndKeeps
<1>4. CASE /\ GoOn(r, "drop")
           /\ entry' = [entry EXCEPT ![n].state = IF @ = "held" THEN "restored" ELSE @]
  <2>1. /\ req' \in [Handler -> RequestType]
        /\ req'[r].at = "drop" /\ req'[r].row = n /\ req'[r].named = req[r].named
        /\ \A s \in Handler \ {r} : req'[s] = req[s]
    BY <1>2, <1>4, RequestGoesOn DEF QuarantineInv, QuarantineStep
  <2>2. /\ entry' \in [Row -> EntryType]
        /\ entry'[n].state = IF entry[n].state = "held" THEN "restored" ELSE entry[n].state
        /\ \A i \in Row : entry'[i].named = entry[i].named /\ entry'[i].finding = entry[i].finding
        /\ \A i \in Row \ {n} : entry'[i] = entry[i]
    BY <1>4 DEF QuarantineInv, QuarantineTypes, EntryType
  <2>3. \A i \in Row : PathOfRow(i)' = PathOfRow(i) BY <2>2 DEF PathOfRow
  <2>4. \A s \in Handler : Containing(s) \/ TakesOut(s) => req[s].row \in Row
    BY DEF QuarantineInv, RowsKnown
  <2>5. QuarantineTypes' BY <1>1, <2>1, <2>2 DEF QuarantineInv, QuarantineTypes
  <2>6. RowsInUse' BY <1>1, <1>2, <2>2 DEF QuarantineInv, RowsInUse
  <2>7. RowsKnown'
    BY <1>1, <1>2, <2>1, <2>2, <2>4 DEF QuarantineInv, RowsKnown, Containing, TakesOut
  <2>8. RowsOwned' BY <1>1, <2>1, <2>2, <2>4 DEF QuarantineInv, RowsOwned, Containing
  <2>9. CopyInStore'
    <3>1. \A i \in Row : entry[i].state # "held" => entry'[i].state # "held" BY <2>2
    <3> QED BY <1>1, <2>1, <2>2, <2>3, <2>4, <3>1
            DEF QuarantineInv, CopyInStore, Containing, TakesOut, Gone
  <2>10. RestoresWrite' BY <1>1, <2>1, <2>3, <2>4 DEF QuarantineInv, RestoresWrite, TakesOut
  <2>11. AllKept'
    <3>1. \A i \in Row : Leaving(i)' => Leaving(i) BY <1>1, <1>2, <2>1 DEF Leaving
    <3> QED BY <1>1, <2>3, <3>1 DEF QuarantineInv, AllKept, Kept
  <2>12. HeldEntryHasItsFile'
    <3>1. \A i \in Row : entry'[i].state = "held" => entry[i].state = "held" BY <2>2
    <3> QED BY <1>1, <2>2, <2>3, <3>1 DEF QuarantineInv, HeldEntryHasItsFile
  <2>13. FlagsRight' BY <1>1, <2>1 DEF QuarantineInv, FlagsRight, Contained
  <2> QED BY <2>5, <2>6, <2>7, <2>8, <2>9, <2>10, <2>11, <2>12, <2>13 DEF QuarantineInv
<1> QED BY <1>1, <1>2, <1>3, <1>4 DEF Mark

\* The copy of a restored file goes.
LEMMA DropKeeps ==
    ASSUME QuarantineAssumption, QuarantineInv, NEW r \in Handler, Drop(r) PROVE QuarantineInv'
<1>1. /\ req[r].at = "drop" /\ Done(r)
      /\ UNCHANGED <<tree, writing, entry, nextRow, flagged, back, loss>>
  BY DEF Drop
<1>2. PICK n \in Row : n = req[r].row /\ n < nextRow /\ entry[n].named /\ entry[n].state # "held"
  BY <1>1 DEF QuarantineInv, RowsKnown, TakesOut, CopyInStore
<1>3. CASE UNCHANGED store BY <1>1, <1>3, EndKeeps
<1>4. CASE store' = [store EXCEPT ![n] = Nothing]
  <2>1. /\ req' \in [Handler -> RequestType] /\ req'[r].at = "idle"
        /\ \A s \in Handler \ {r} : req'[s] = req[s]
    BY <1>1, RequestEnds DEF QuarantineInv
  <2>2. /\ store' \in [Row -> Content \cup {Nothing}]
        /\ store'[n] = Nothing
        /\ \A i \in Row \ {n} : store'[i] = store[i]
    BY <1>4 DEF QuarantineInv, QuarantineTypes
  <2>3. QuarantineTypes' BY <1>1, <2>1, <2>2 DEF QuarantineInv, QuarantineTypes
  <2>4. RowsInUse' BY <1>1, <1>2, <2>2 DEF QuarantineInv, RowsInUse
  <2>5. RowsKnown' BY <1>1, <2>1 DEF QuarantineInv, RowsKnown, Containing, TakesOut
  <2>6. RowsOwned' BY <1>1, <2>1 DEF QuarantineInv, RowsOwned, Containing
  <2>7. CopyInStore'
    <3>1. \A s \in Handler : req[s].at \in {"remove", "name"} => req[s].row \in Row /\ req[s].row # n
      BY <1>2 DEF QuarantineInv, RowsKnown, RowsOwned, Containing
    <3>2. \A s \in Handler : Containing(s) => req[s].row \in Row BY DEF QuarantineInv, RowsKnown
    <3> QED BY <1>1, <2>1, <2>2, <3>1, <3>2
            DEF QuarantineInv, CopyInStore, Gone, PathOfRow, Containing
  <2>8. RestoresWrite' BY <1>1, <2>1, <2>2, RestoresGoOn
  <2>9. AllKept'
    <3>1. \A i \in Row : Leaving(i)' => Leaving(i) BY <2>1 DEF Leaving
    <3>2. Leaving(n) BY <1>1, <1>2 DEF Leaving
    <3> QED BY <1>1, <2>2, <3>1, <3>2 DEF QuarantineInv, AllKept, Kept, PathOfRow
  <2>10. HeldEntryHasItsFile'
    BY <1>1, <1>2, <2>2 DEF QuarantineInv, HeldEntryHasItsFile, PathOfRow
  <2>11. FlagsRight' BY <1>1, <2>1 DEF QuarantineInv, FlagsRight, Contained
  <2> QED BY <2>3, <2>4, <2>5, <2>6, <2>7, <2>8, <2>9, <2>10, <2>11 DEF QuarantineInv
<1> QED BY <1>2, <1>3, <1>4 DEF Drop

\* Where no found file is, another is put there or taken away.
LEMMA TreeKeeps ==
    ASSUME QuarantineAssumption, QuarantineInv, NEW p \in Path, NEW c \in {"part", "own", Nothing},
           tree[p] # "found", writing[p] = Nothing, tree' = [tree EXCEPT ![p] = c],
           UNCHANGED <<writing, store, entry, nextRow, flagged, back, loss>>,
           \/ UNCHANGED req
           \/ \E r \in Handler : req[r].at # "stream" /\ Done(r)
    PROVE  QuarantineInv'
<1>1. /\ req' \in [Handler -> RequestType]
      /\ \A s \in Handler : req'[s].at # "idle" => req'[s] = req[s]
      /\ \A s \in Handler : req[s].at = "stream" => req'[s] = req[s]
  BY RequestEnds DEF QuarantineInv, QuarantineTypes
<1>2. /\ tree' \in [Path -> Content \cup {Nothing}]
      /\ tree'[p] # "found" /\ \A q \in Path \ {p} : tree'[q] = tree[q]
  BY DEF QuarantineAssumption, QuarantineInv, QuarantineTypes, Content
<1>3. QuarantineTypes' BY <1>1, <1>2 DEF QuarantineInv, QuarantineTypes
<1>4. RowsInUse' BY DEF QuarantineInv, RowsInUse
<1>5. RowsKnown' BY <1>1 DEF QuarantineInv, RowsKnown, Containing, TakesOut
<1>6. RowsOwned' BY <1>1 DEF QuarantineInv, RowsOwned, Containing
<1>7. CopyInStore' BY <1>1 DEF QuarantineInv, CopyInStore, Gone, PathOfRow
<1>8. RestoresWrite' BY <1>1, <1>2, RestoresGoOn
<1>9. AllKept'
  <2>1. \A i \in Row : Leaving(i)' => Leaving(i) BY <1>1 DEF Leaving
  <2> QED BY <1>2, <2>1 DEF QuarantineInv, AllKept, Kept, PathOfRow
<1>10. HeldEntryHasItsFile' BY DEF QuarantineInv, HeldEntryHasItsFile, PathOfRow
<1>11. FlagsRight'
  <2>1. \A f \in Finding : Contained(f) => Contained(f)'
    BY <1>2 DEF QuarantineAssumption, Contained
  <2>2. \A s \in Handler : req[s].at \in {"name", "flag"} => req[s].finding \in Finding
    BY DEF QuarantineInv, RowsKnown, Containing
  <2> QED BY <1>1, <2>1, <2>2 DEF QuarantineInv, FlagsRight
<1> QED BY <1>3, <1>4, <1>5, <1>6, <1>7, <1>8, <1>9, <1>10, <1>11 DEF QuarantineInv

\* The target of a restore is created where nothing is.
LEMMA OpenKeeps ==
    ASSUME QuarantineAssumption, QuarantineInv, NEW r \in Handler, Open(r) PROVE QuarantineInv'
<1>1. /\ req[r].at = "open"
      /\ UNCHANGED <<store, entry, nextRow, flagged, back, loss>>
  BY DEF Open
<1>2. PICK n \in Row, p \in Path : n = req[r].row /\ n < nextRow /\ p = PathOfRow(n)
  BY <1>1 DEF QuarantineAssumption, QuarantineInv, RowsKnown, RowsInUse, TakesOut, PathOfRow
<1>3. CASE Done(r) /\ UNCHANGED <<tree, writing>>
  BY <1>1, <1>3, EndKeeps
<1>4. tree[p] = Nothing => writing[p] = Nothing /\ tree[p] # "found"
  BY DEF QuarantineAssumption, QuarantineInv, RestoresWrite
<1>5. CASE tree[p] = Nothing /\ tree' = [tree EXCEPT ![p] = "part"] /\ Done(r) /\ UNCHANGED writing
  BY <1>1, <1>4, <1>5, TreeKeeps
<1>6. CASE /\ req[r].named /\ tree[p] = Nothing
           /\ tree' = [tree EXCEPT ![p] = "part"]
           /\ writing' = [writing EXCEPT ![p] = r]
           /\ req' = [req EXCEPT ![r].at = "stream", ![r].content = store[n]]
  <2>1. /\ req' \in [Handler -> RequestType]
        /\ req'[r].at = "stream" /\ req'[r].content = store[n]
        /\ req'[r].row = n /\ req'[r].named = req[r].named
        /\ \A s \in Handler \ {r} : req'[s] = req[s]
    <3> DEFINE m == [req EXCEPT ![r].at = "stream"]
    <3>1. /\ m \in [Handler -> RequestType]
          /\ m[r].at = "stream" /\ m[r].row = n /\ m[r].named = req[r].named
          /\ \A s \in Handler \ {r} : m[s] = req[s]
      BY <1>2 DEF QuarantineInv, QuarantineTypes, RequestType, QuarantineStep
    <3>2. req' = [m EXCEPT ![r].content = store[n]] BY <1>6
    <3>3. store[n] \in Content \cup {Nothing} BY DEF QuarantineInv, QuarantineTypes
    <3> HIDE DEF m
    <3> QED BY <3>1, <3>2, <3>3 DEF RequestType
  <2>2. /\ tree' \in [Path -> Content \cup {Nothing}]
        /\ tree'[p] = "part" /\ \A q \in Path \ {p} : tree'[q] = tree[q]
    BY <1>6 DEF QuarantineInv, QuarantineTypes, Content
  <2>3. /\ writing' \in [Path -> Handler \cup {Nothing}]
        /\ writing'[p] = r /\ \A q \in Path \ {p} : writing'[q] = writing[q]
    BY <1>6 DEF QuarantineInv, QuarantineTypes
  <2>4. \A i \in Row : PathOfRow(i)' = PathOfRow(i) BY <1>1 DEF PathOfRow
  <2>5. QuarantineTypes' BY <1>1, <2>1, <2>2, <2>3 DEF QuarantineInv, QuarantineTypes
  <2>6. RowsInUse' BY <1>1 DEF QuarantineInv, RowsInUse
  <2>7. RowsKnown' BY <1>1, <1>2, <1>6, <2>1 DEF QuarantineInv, RowsKnown, Containing, TakesOut
  <2>8. RowsOwned' BY <1>1, <2>1 DEF QuarantineInv, RowsOwned, Containing
  <2>9. CopyInStore' BY <1>1, <2>1 DEF QuarantineInv, CopyInStore, Gone, PathOfRow
  <2>10. RestoresWrite'
    <3>1. \A q \in Path : writing[q] # r BY <1>1 DEF QuarantineInv, RestoresWrite
    <3>2. \A s \in Handler : TakesOut(s) => req[s].row \in Row BY DEF QuarantineInv, RowsKnown
    <3>3. (\A q \in Path : writing[q] # Nothing => tree[q] = "part")'
      BY <2>2, <2>3 DEF QuarantineInv, RestoresWrite
    <3>4. (\A q \in Path, s \in Handler :
             writing[q] = s => req[s].at = "stream" /\ PathOfRow(req[s].row) = q)'
      BY <1>2, <2>1, <2>3, <2>4, <3>1, <3>2 DEF QuarantineInv, RestoresWrite, TakesOut
    <3>5. \A s \in Handler \ {r} : req[s].at = "stream" =>
             \/ writing'[PathOfRow(req[s].row)] = s
             \/ loss[PathOfRow(req[s].row)] # {}
      <4>1. \A s \in Handler : req[s].at = "stream" =>
               writing[PathOfRow(req[s].row)] = s \/ loss[PathOfRow(req[s].row)] # {}
        BY DEF QuarantineInv, RestoresWrite
      <4>2. \A s \in Handler : req[s].at = "stream" => PathOfRow(req[s].row) \in Path
        BY DEF QuarantineAssumption, QuarantineInv, RowsKnown, RowsInUse, TakesOut, PathOfRow
      <4>3. \A s \in Handler : s # Nothing BY DEF QuarantineAssumption
      <4> QED BY <1>4, <1>6, <2>3, <4>1, <4>2, <4>3
    <3>6. (\A s \in Handler : req[s].at = "stream" =>
             /\ store[req[s].row] \in {req[s].content, Nothing}
             /\ writing[PathOfRow(req[s].row)] = s \/ loss[PathOfRow(req[s].row)] # {})'
      BY <1>1, <1>2, <2>1, <2>3, <2>4, <3>2, <3>5 DEF QuarantineInv, RestoresWrite, TakesOut
    <3> QED BY <3>3, <3>4, <3>6 DEF RestoresWrite
  <2>11. AllKept'
    <3>1. \A i \in Row : Leaving(i)' => Leaving(i) BY <2>1 DEF Leaving
    <3> QED BY <1>1, <1>4, <1>6, <2>2, <2>4, <3>1 DEF QuarantineInv, AllKept, Kept
  <2>12. HeldEntryHasItsFile' BY <1>1, <2>4 DEF QuarantineInv, HeldEntryHasItsFile
  <2>13. FlagsRight'
    <3>1. \A f \in Finding : Contained(f) => Contained(f)'
      BY <1>1, <2>2 DEF QuarantineAssumption, Contained
    <3>2. \A s \in Handler : req[s].at \in {"name", "flag"} => req[s].finding \in Finding
      BY DEF QuarantineInv, RowsKnown, Containing
    <3> QED BY <1>1, <2>1, <3>1, <3>2 DEF QuarantineInv, FlagsRight
  <2> QED BY <2>5, <2>6, <2>7, <2>8, <2>9, <2>10, <2>11, <2>12, <2>13 DEF QuarantineInv
<1> QED BY <1>2, <1>3, <1>5, <1>6 DEF Open

\* A restore writes what is stored to the file it created, or breaks off.
LEMMA StreamKeeps ==
    ASSUME QuarantineAssumption, QuarantineInv, NEW r \in Handler, Stream(r) PROVE QuarantineInv'
<1>1. /\ req[r].at = "stream"
      /\ UNCHANGED <<store, entry, nextRow, flagged, loss>>
  BY DEF Stream
<1>2. PICK n \in Row, p \in Path : n = req[r].row /\ n < nextRow /\ p = PathOfRow(n)
  BY <1>1 DEF QuarantineAssumption, QuarantineInv, RowsKnown, RowsInUse, TakesOut, PathOfRow
<1>3. /\ store[n] \in {req[r].content, Nothing}
      /\ writing[p] = r \/ loss[p] # {}
      /\ writing[p] # Nothing => tree[p] = "part"
      /\ r # Nothing
  BY <1>1, <1>2 DEF QuarantineAssumption, QuarantineInv, RestoresWrite
<1>4. writing' = [writing EXCEPT ![p] = IF writing[p] = r THEN Nothing ELSE writing[p]]
  BY <1>2 DEF Stream
<1>5. /\ writing' \in [Path -> Handler \cup {Nothing}]
      /\ \A q \in Path : writing'[q] = IF writing[q] = r THEN Nothing ELSE writing[q]
  <2>1. \A q \in Path \ {p} : writing[q] # r BY <1>2 DEF QuarantineInv, RestoresWrite
  <2> QED BY <1>4, <2>1 DEF QuarantineInv, QuarantineTypes
<1>6. PICK s0 \in {"idle", "mark"} :
         /\ req' \in [Handler -> RequestType]
         /\ req'[r].at = s0
         /\ s0 = "mark" => req'[r].row = n /\ req'[r].named = req[r].named
         /\ \A s \in Handler \ {r} : req'[s] = req[s]
  <2>1. CASE GoOn(r, "mark")
    BY <1>2, <2>1, RequestGoesOn DEF QuarantineInv, QuarantineStep
  <2>2. CASE Done(r) BY <2>2, RequestEnds DEF QuarantineInv
  <2> QED BY <2>1, <2>2 DEF Stream
<1>7. /\ back \subseteq back'
      /\ \/ UNCHANGED tree /\ s0 = "idle"
         \/ /\ tree' = [tree EXCEPT ![p] = IF writing[p] = r THEN req[r].content ELSE tree[p]]
            /\ p \in back'
  <2>1. CASE Done(r) /\ UNCHANGED <<tree, back>>
    BY <1>6, <2>1, RequestEnds DEF QuarantineInv
  <2>2. CASE /\ back' = back \cup {p}
             /\ tree' = [tree EXCEPT ![p] = IF writing[p] = r THEN req[r].content ELSE tree[p]]
    BY <2>2
  <2> QED BY <1>2, <2>1, <2>2 DEF Stream
<1>8. /\ tree' \in [Path -> Content \cup {Nothing}]
      /\ \A q \in Path \ {p} : tree'[q] = tree[q]
      /\ writing[p] # r => tree'[p] = tree[p]
      /\ s0 = "mark" /\ writing[p] = r => tree'[p] = req[r].content
      /\ tree'[p] # tree[p] => p \in back'
  <2>1. req[r].content \in Content \cup {Nothing}
    BY DEF QuarantineInv, QuarantineTypes, RequestType
  <2>2. tree \in [Path -> Content \cup {Nothing}] BY DEF QuarantineInv, QuarantineTypes
  <2> QED BY <1>7, <2>1, <2>2
<1>9. \A i \in Row : PathOfRow(i)' = PathOfRow(i) BY <1>1 DEF PathOfRow
<1>10. QuarantineTypes' BY <1>1, <1>5, <1>6, <1>8 DEF QuarantineInv, QuarantineTypes
<1>11. RowsInUse' BY <1>1 DEF QuarantineInv, RowsInUse
<1>12. RowsKnown' BY <1>1, <1>2, <1>6 DEF QuarantineInv, RowsKnown, Containing, TakesOut
<1>13. RowsOwned' BY <1>1, <1>6 DEF QuarantineInv, RowsOwned, Containing
<1>14. CopyInStore' BY <1>1, <1>6 DEF QuarantineInv, CopyInStore, Gone, PathOfRow
<1>15. RestoresWrite'
  <2>1. \A q \in Path : writing'[q] # Nothing => tree'[q] = "part"
    BY <1>5, <1>8 DEF QuarantineInv, RestoresWrite
  <2>2. \A s \in Handler : s # Nothing BY DEF QuarantineAssumption
  <2>3. \A q \in Path, s \in Handler : writing'[q] = s => s # r /\ writing[q] = s
    BY <1>5, <2>2
  <2>4. (\A q \in Path, s \in Handler :
           writing[q] = s => req[s].at = "stream" /\ PathOfRow(req[s].row) = q)'
    BY <1>1, <1>6, <2>3 DEF QuarantineInv, RestoresWrite, PathOfRow
  <2>5. \A s \in Handler \ {r}, q \in Path : writing[q] = s => writing'[q] = s
    BY <1>5
  <2>6. \A s \in Handler : req[s].at = "stream" => PathOfRow(req[s].row) \in Path
    BY DEF QuarantineAssumption, QuarantineInv, RowsKnown, RowsInUse, TakesOut, PathOfRow
  <2>7. (\A s \in Handler : req[s].at = "stream" =>
           /\ store[req[s].row] \in {req[s].content, Nothing}
           /\ writing[PathOfRow(req[s].row)] = s \/ loss[PathOfRow(req[s].row)] # {})'
    BY <1>1, <1>6, <1>9, <2>5, <2>6 DEF QuarantineInv, RestoresWrite, RowsKnown, TakesOut
  <2> QED BY <2>1, <2>4, <2>7 DEF RestoresWrite
<1>16. AllKept'
  <2>1. \A i \in Row : Leaving(i)' => Leaving(i) \/ (i = n /\ s0 = "mark")
    BY <1>6 DEF Leaving
  <2>2. \A q \in Path \ {p} : Kept(q)'
    BY <1>1, <1>2, <1>8, <1>9, <2>1 DEF QuarantineInv, AllKept, Kept
  <2>3. CASE loss[p] # {} BY <1>1, <2>2, <2>3 DEF AllKept, Kept
  <2>4. CASE loss[p] = {}
    <3>1. tree[p] # "found" /\ writing[p] = r BY <1>3, <2>4
    <3>2. store[n] = "found" /\ s0 = "mark" => tree'[p] = "found"
      BY <1>3, <1>8, <3>1 DEF QuarantineAssumption
    <3>3. Kept(p)' BY <1>1, <1>9, <2>1, <2>4, <3>1, <3>2 DEF QuarantineInv, AllKept, Kept
    <3> QED BY <2>2, <3>3 DEF AllKept
  <2> QED BY <2>3, <2>4
<1>17. HeldEntryHasItsFile' BY <1>1 DEF QuarantineInv, HeldEntryHasItsFile, PathOfRow
<1>18. FlagsRight'
  <2>1. \A f \in Finding : Contained(f) => Contained(f)'
    BY <1>7, <1>8 DEF QuarantineAssumption, Contained
  <2>2. \A s \in Handler : req[s].at \in {"name", "flag"} => req[s].finding \in Finding
    BY DEF QuarantineInv, RowsKnown, Containing
  <2> QED BY <1>1, <1>6, <2>1, <2>2 DEF QuarantineInv, FlagsRight
<1> QED BY <1>10, <1>11, <1>12, <1>13, <1>14, <1>15, <1>16, <1>17, <1>18 DEF QuarantineInv

\* What a deletion takes away is written down as lost.
LEMMA LossIsWrittenDown ==
    ASSUME QuarantineAssumption, QuarantineInv, NEW r \in Handler, req[r].at = "unlink",
           GoOn(r, "erase") \/ Done(r),
           UNCHANGED <<tree, writing, entry, nextRow, flagged, back>>,
           store' \in [Row -> Content \cup {Nothing}],
           \A i \in Row : store'[i] \in {store[i], Nothing},
           loss' \in [Path -> SUBSET {"deleted", "wiped", "torn", "swapped"}],
           \A p \in Path : loss[p] \subseteq loss'[p],
           \A i \in Row : i < nextRow /\ store[i] # store'[i] => Gone(i)'
    PROVE  QuarantineInv'
<1>1. /\ req' \in [Handler -> RequestType]
      /\ req'[r].at \in {"idle", "erase"}
      /\ req'[r].at = "erase" => req'[r].row = req[r].row /\ req'[r].named = req[r].named
      /\ \A s \in Handler \ {r} : req'[s] = req[s]
  <2>1. CASE GoOn(r, "erase") BY <2>1, RequestGoesOn DEF QuarantineInv, QuarantineStep
  <2>2. CASE Done(r) BY <2>2, RequestEnds DEF QuarantineInv
  <2> QED BY <2>1, <2>2
<1>2. \A i \in Row : PathOfRow(i)' = PathOfRow(i) BY DEF PathOfRow
<1>3. \A i \in Row : i < nextRow => PathOfRow(i) \in Path
  BY DEF QuarantineAssumption, QuarantineInv, RowsInUse, PathOfRow
<1>4. \A i \in Row : i < nextRow /\ Gone(i) => Gone(i)' BY <1>2, <1>3 DEF Gone
<1>5. \A s \in Handler : Containing(s) \/ TakesOut(s) => req[s].row \in Row /\ req[s].row < nextRow
  BY DEF QuarantineInv, RowsKnown
<1>6. QuarantineTypes' BY <1>1 DEF QuarantineInv, QuarantineTypes
<1>7. RowsInUse' BY DEF QuarantineInv, RowsInUse
<1>8. RowsKnown' BY <1>1 DEF QuarantineInv, RowsKnown, Containing, TakesOut
<1>9. RowsOwned' BY <1>1 DEF QuarantineInv, RowsOwned, Containing
<1>10. CopyInStore'
  BY <1>1, <1>4, <1>5 DEF QuarantineInv, CopyInStore, Containing, TakesOut
<1>11. RestoresWrite'
  BY <1>1, <1>2, <1>3, <1>5 DEF QuarantineInv, RestoresWrite, TakesOut
<1>12. AllKept'
  <2>1. \A i \in Row : Leaving(i)' => Leaving(i) BY <1>1 DEF Leaving
  <2>2. \A i \in Row : store[i] = "found" => i < nextRow
    BY DEF QuarantineAssumption, QuarantineInv, RowsInUse
  <2>3. ASSUME NEW p \in Path PROVE Kept(p)'
    <3>1. CASE loss'[p] # {} BY <3>1 DEF Kept
    <3>2. CASE loss'[p] = {}
      <4>1. \A i \in Row : i < nextRow /\ PathOfRow(i) = p => store'[i] = store[i]
        BY <1>2, <3>2 DEF Gone
      <4> QED BY <1>2, <2>1, <2>2, <2>3, <3>2, <4>1 DEF QuarantineInv, AllKept, Kept
    <3> QED BY <3>1, <3>2
  <2> QED BY <2>3 DEF AllKept
<1>13. HeldEntryHasItsFile'
  <2>1. \A i \in Row : entry[i].state = "held" => i < nextRow
    BY DEF QuarantineInv, RowsInUse, NoEntry
  <2> QED BY <1>4, <2>1 DEF QuarantineInv, HeldEntryHasItsFile, Gone
<1>14. FlagsRight' BY <1>1 DEF QuarantineInv, FlagsRight, Contained
<1> QED BY <1>6, <1>7, <1>8, <1>9, <1>10, <1>11, <1>12, <1>13, <1>14 DEF QuarantineInv

\* The stored file is deleted, or all of the tenant's when the row has no name.
LEMMA UnlinkKeeps ==
    ASSUME QuarantineAssumption, QuarantineInv, NEW r \in Handler, Unlink(r) PROVE QuarantineInv'
<1>1. /\ req[r].at = "unlink"
      /\ UNCHANGED <<tree, writing, entry, nextRow, flagged, back>>
  BY DEF Unlink
<1>2. PICK n \in Row, p \in Path : n = req[r].row /\ n < nextRow /\ p = PathOfRow(n)
  BY <1>1 DEF QuarantineAssumption, QuarantineInv, RowsKnown, RowsInUse, TakesOut, PathOfRow
<1>3. \A i \in Row : i < nextRow => PathOfRow(i) \in Path
  BY DEF QuarantineAssumption, QuarantineInv, RowsInUse, PathOfRow
<1>4. \A i \in Row : PathOfRow(i)' = PathOfRow(i) BY <1>1 DEF PathOfRow
<1>5. /\ store \in [Row -> Content \cup {Nothing}]
      /\ loss \in [Path -> SUBSET {"deleted", "wiped", "torn", "swapped"}]
  BY DEF QuarantineInv, QuarantineTypes
<1>6. CASE /\ store' = [store EXCEPT ![n] = Nothing] /\ GoOn(r, "erase")
           /\ loss' = [loss EXCEPT ![p] = IF store[n] = Nothing THEN @ ELSE @ \cup {"deleted"}]
  <2>1. /\ store' \in [Row -> Content \cup {Nothing}]
        /\ store'[n] = Nothing /\ \A i \in Row \ {n} : store'[i] = store[i]
    BY <1>5, <1>6
  <2>2. /\ loss' \in [Path -> SUBSET {"deleted", "wiped", "torn", "swapped"}]
        /\ \A q \in Path : loss[q] \subseteq loss'[q]
        /\ store[n] # Nothing => "deleted" \in loss'[p]
    BY <1>5, <1>6
  <2>3. store[n] # Nothing => Gone(n)' BY <1>2, <1>4, <2>2 DEF Gone
  <2> QED BY <1>1, <1>6, <2>1, <2>2, <2>3, LossIsWrittenDown
<1>7. CASE /\ store' = [j \in Row |-> Nothing] /\ Done(r)
           /\ loss' = [q \in Path |->
                  IF \E j \in Row : store[j] # Nothing /\ PathOfRow(j) = q
                  THEN loss[q] \cup {"wiped"} ELSE loss[q]]
  <2>1. /\ store' \in [Row -> Content \cup {Nothing}]
        /\ \A i \in Row : store'[i] = Nothing
    BY <1>7
  <2>2. /\ loss' \in [Path -> SUBSET {"deleted", "wiped", "torn", "swapped"}]
        /\ \A q \in Path : loss[q] \subseteq loss'[q]
    BY <1>5, <1>7
  <2>3. \A i \in Row : i < nextRow /\ store[i] # Nothing => "wiped" \in loss'[PathOfRow(i)]
    BY <1>3, <1>7
  <2>4. \A i \in Row : i < nextRow /\ store[i] # store'[i] => Gone(i)'
    BY <1>4, <2>1, <2>3 DEF Gone
  <2> QED BY <1>1, <1>7, <2>1, <2>2, <2>4, LossIsWrittenDown
<1>8. CASE (GoOn(r, "erase") \/ Done(r)) /\ UNCHANGED <<store, loss>>
  BY <1>1, <1>5, <1>8, LossIsWrittenDown
<1> QED BY <1>2, <1>6, <1>7, <1>8 DEF Unlink

\* The panel stops: every request is forgotten, every file as far as it was.
LEMMA QuarantineStopKeeps ==
    ASSUME QuarantineAssumption, QuarantineInv, QuarantineStops PROVE QuarantineInv'
<1>1. /\ req' = [r \in Handler |-> NotAsked] /\ writing' = [p \in Path |-> Nothing]
      /\ UNCHANGED <<tree, store, entry, nextRow, flagged, back, loss>>
  BY DEF QuarantineStops
<1>2. \A r \in Handler : req'[r].at = "idle" BY <1>1, NotAskedIsARequest
<1>3. QuarantineTypes' BY <1>1, NotAskedIsARequest DEF QuarantineInv, QuarantineTypes
<1>4. RowsInUse' BY <1>1 DEF QuarantineInv, RowsInUse
<1>5. RowsKnown' BY <1>2 DEF RowsKnown, Containing, TakesOut
<1>6. RowsOwned' BY <1>2 DEF RowsOwned, Containing
<1>7. CopyInStore' BY <1>2 DEF CopyInStore
<1>8. RestoresWrite' BY <1>1, <1>2 DEF QuarantineAssumption, RestoresWrite
<1>9. AllKept' BY <1>1, <1>2 DEF QuarantineInv, AllKept, Kept, Leaving, PathOfRow
<1>10. HeldEntryHasItsFile' BY <1>1 DEF QuarantineInv, HeldEntryHasItsFile, PathOfRow
<1>11. FlagsRight' BY <1>1, <1>2 DEF QuarantineInv, FlagsRight, Contained
<1> QED BY <1>3, <1>4, <1>5, <1>6, <1>7, <1>8, <1>9, <1>10, <1>11 DEF QuarantineInv

\* Every step of the quarantine keeps the invariant.
LEMMA QuarantineStepKeeps ==
    QuarantineAssumption /\ QuarantineInv /\ [QuarantineNext]_quarantineVars => QuarantineInv'
<1> SUFFICES ASSUME QuarantineAssumption, QuarantineInv, [QuarantineNext]_quarantineVars
             PROVE  QuarantineInv'
  OBVIOUS
<1>1. CASE UNCHANGED quarantineVars
  <2> USE <1>1 DEF quarantineVars
  <2>1. QuarantineTypes' BY DEF QuarantineInv, QuarantineTypes
  <2>2. RowsInUse' BY DEF QuarantineInv, RowsInUse
  <2>3. RowsKnown' BY DEF QuarantineInv, RowsKnown, Containing, TakesOut
  <2>4. RowsOwned' BY DEF QuarantineInv, RowsOwned, Containing
  <2>5. CopyInStore' BY DEF QuarantineInv, CopyInStore, Gone, PathOfRow
  <2>6. RestoresWrite' BY DEF QuarantineInv, RestoresWrite, PathOfRow
  <2>7. AllKept' BY DEF QuarantineInv, AllKept, Kept, Leaving, PathOfRow
  <2>8. HeldEntryHasItsFile' BY DEF QuarantineInv, HeldEntryHasItsFile, PathOfRow
  <2>9. FlagsRight' BY DEF QuarantineInv, FlagsRight, Contained
  <2> QED BY <2>1, <2>2, <2>3, <2>4, <2>5, <2>6, <2>7, <2>8, <2>9 DEF QuarantineInv
<1>2. ASSUME NEW r \in Handler, NEW f \in Finding, AskQuarantine(r, f) PROVE QuarantineInv'
  BY <1>2, AskKeeps
<1>3. ASSUME NEW r \in Handler, NEW i \in Row, AskRestore(r, i) \/ AskDelete(r, i)
      PROVE  QuarantineInv'
  BY <1>3, AskKeeps
<1>4. ASSUME NEW p \in Path, TenantUploads(p) \/ TenantRemoves(p) PROVE QuarantineInv'
  <2>1. PICK c \in {"own", Nothing} : tree' = [tree EXCEPT ![p] = c]
    BY <1>4 DEF TenantUploads, TenantRemoves
  <2>2. /\ tree[p] # "found" /\ writing[p] = Nothing
        /\ UNCHANGED <<writing, store, entry, nextRow, flagged, req, back, loss>>
    BY <1>4 DEF TenantUploads, TenantRemoves, QuarantineAssumption, QuarantineInv, RestoresWrite
  <2> QED BY <2>1, <2>2, TreeKeeps
<1>5. ASSUME NEW r \in Handler,
             \/ record(r) \/ Copy(r) \/ RemoveOriginal(r) \/ Name(r) \/ Flag(r) \/ Undo(r)
      PROVE  QuarantineInv'
  BY <1>5, RecordKeeps, CopyKeeps, RemoveOriginalKeeps, NameKeeps, FlagKeeps, RowDeletedKeeps
<1>6. ASSUME NEW r \in Handler,
             \/ Open(r) \/ Stream(r) \/ Mark(r) \/ Drop(r) \/ Unlink(r) \/ Erase(r)
      PROVE  QuarantineInv'
  BY <1>6, OpenKeeps, StreamKeeps, MarkKeeps, DropKeeps, UnlinkKeeps, RowDeletedKeeps
<1> QED BY <1>1, <1>2, <1>3, <1>4, <1>5, <1>6, QuarantineStopKeeps DEF QuarantineNext

\* The quarantine is always where its requests have brought it.
LEMMA QuarantineInvariant ==
    ASSUME QuarantineAssumption PROVE QuarantineSpec => []QuarantineInv
<1>1. QuarantineInit => QuarantineInv BY QuarantineStarts
<1>2. QuarantineInv /\ [QuarantineNext]_quarantineVars => QuarantineInv' BY QuarantineStepKeeps
<1> QED BY <1>1, <1>2, PTL DEF QuarantineSpec

(***************************************************************************)
(* A found file is in the tree or in the store, whatever failed, until a   *)
(* deletion or a restore under the containment cost it (contain removes    *)
(* the original last, restoreEntry the copy).                              *)
(***************************************************************************)
THEOREM FoundFileIsKept == ASSUME QuarantineAssumption PROVE QuarantineSpec => []FoundIsKept
<1>1. QuarantineInv => FoundIsKept BY DEF QuarantineInv, AllKept, Kept, FoundIsKept
<1>2. QuarantineSpec => []QuarantineInv BY QuarantineInvariant
<1> QED BY <1>1, <1>2, PTL

(***************************************************************************)
(* A held entry that names its stored file can be restored from it, unless *)
(* a deletion took the file (restoreEntry's order, recordQuarantine's).    *)
(***************************************************************************)
THEOREM HeldEntryCanBeRestored ==
    ASSUME QuarantineAssumption PROVE QuarantineSpec => []HeldEntryHasItsFile
<1>1. QuarantineInv => HeldEntryHasItsFile BY DEF QuarantineInv
<1>2. QuarantineSpec => []QuarantineInv BY QuarantineInvariant
<1> QED BY <1>1, <1>2, PTL

(***************************************************************************)
(* A finding is not marked while its file is still in the tree: it is      *)
(* there again only where a restore put one back (contain's slip back).    *)
(***************************************************************************)
THEOREM FlaggedFileHasLeft ==
    ASSUME QuarantineAssumption PROVE QuarantineSpec => []FlaggedIsContained
<1>1. QuarantineInv => FlaggedIsContained
  BY DEF QuarantineInv, FlagsRight, Contained, FlaggedIsContained
<1>2. QuarantineSpec => []QuarantineInv BY QuarantineInvariant
<1> QED BY <1>1, <1>2, PTL

(***************************************************************************)
(* The types in full, with the store's directory, what restores put back   *)
(* and the bounds.                                                         *)
(***************************************************************************)
QuarantineBounds ==
    /\ storeDir \in BOOLEAN /\ back \subseteq Path /\ nextRow \in 1..(MaxRows + 1)
    /\ qFaults \in 0..MaxFaults /\ qRestarts \in 0..MaxRestarts

\* A restore puts back a file some finding reported.
LEMMA RestoredPath ==
    ASSUME QuarantineAssumption, QuarantineInv, NEW r \in Handler, req[r].at = "stream"
    PROVE  PathOfRow(req[r].row) \in Path
<1>1. req[r].row \in Row /\ req[r].row < nextRow BY DEF QuarantineInv, RowsKnown, TakesOut
<1>2. entry[req[r].row].finding \in Finding BY <1>1 DEF QuarantineInv, RowsInUse
<1> QED BY <1>2 DEF QuarantineAssumption, PathOfRow

LEMMA RequestStaysBounded ==
    ASSUME QuarantineAssumption, QuarantineInv, QuarantineBounds, NEW r \in Handler,
           \/ \E f \in Finding : AskQuarantine(r, f)
           \/ record(r) \/ Copy(r) \/ RemoveOriginal(r) \/ Name(r) \/ Flag(r) \/ Undo(r)
           \/ \E i \in Row : AskRestore(r, i) \/ AskDelete(r, i)
           \/ Open(r) \/ Stream(r) \/ Mark(r) \/ Drop(r)
           \/ Unlink(r) \/ Erase(r)
    PROVE  QuarantineBounds'
<1>1. /\ storeDir' \in {storeDir, TRUE} /\ UNCHANGED qRestarts
      /\ FileWorks \/ FileFault
  BY DEF AskQuarantine, record, Copy, RemoveOriginal, Name, Flag, Undo, AskRestore, AskDelete, Open,
         Stream, Mark, Drop, Unlink, Erase, FileWorks
<1>2. nextRow' \in 1..(MaxRows + 1)
  <2>1. UNCHANGED nextRow \/ (nextRow \in Row /\ nextRow' = nextRow + 1)
    BY DEF AskQuarantine, record, Copy, RemoveOriginal, Name, Flag, Undo, AskRestore, AskDelete, Open,
           Stream, Mark, Drop, Unlink, Erase
  <2>2. nextRow \in Nat /\ nextRow >= 1 /\ nextRow <= MaxRows + 1 /\ MaxRows \in Nat
    BY DEF QuarantineAssumption, QuarantineBounds
  <2> QED BY <2>1, <2>2 DEF Row
<1>3. back' \subseteq Path
  <2>1. UNCHANGED back \/ (req[r].at = "stream" /\ back' = back \cup {PathOfRow(req[r].row)})
    BY DEF AskQuarantine, record, Copy, RemoveOriginal, Name, Flag, Undo, AskRestore, AskDelete, Open,
           Stream, Mark, Drop, Unlink, Erase
  <2> QED BY <2>1, RestoredPath DEF QuarantineBounds
<1>4. qFaults' \in 0..MaxFaults
  BY <1>1 DEF QuarantineAssumption, QuarantineBounds, FileWorks, FileFault
<1> QED BY <1>1, <1>2, <1>3, <1>4 DEF QuarantineBounds

(***************************************************************************)
(* The tree, the store, the rows and the requests keep their types, and    *)
(* what restores put back are paths that some finding reported.            *)
(***************************************************************************)
THEOREM QuarantineTypeCorrect ==
    ASSUME QuarantineAssumption PROVE QuarantineSpec => []QuarantineTypeOK
<1>1. QuarantineInit => QuarantineInv /\ QuarantineBounds
  <2> SUFFICES ASSUME QuarantineInit PROVE QuarantineBounds BY QuarantineStarts
  <2>1. 0 \in 0..MaxFaults /\ 0 \in 0..MaxRestarts /\ 1 \in 1..(MaxRows + 1)
    BY DEF QuarantineAssumption
  <2> QED BY <2>1 DEF QuarantineInit, QuarantineBounds
<1>2. /\ QuarantineInv /\ QuarantineBounds /\ [QuarantineNext]_quarantineVars
      => QuarantineInv' /\ QuarantineBounds'
  <2> SUFFICES ASSUME QuarantineInv, QuarantineBounds, [QuarantineNext]_quarantineVars
               PROVE  QuarantineBounds'
    BY QuarantineStepKeeps
  <2>1. CASE UNCHANGED quarantineVars BY <2>1 DEF quarantineVars, QuarantineBounds
  <2>2. CASE QuarantineStops \/ \E p \in Path : TenantUploads(p) \/ TenantRemoves(p)
    BY <2>2 DEF QuarantineStops, TenantUploads, TenantRemoves, QuarantineBounds, QuarantineAssumption
  <2> QED BY <2>1, <2>2, RequestStaysBounded DEF QuarantineNext
<1>3. QuarantineInv /\ QuarantineBounds => QuarantineTypeOK
  BY DEF QuarantineInv, QuarantineTypes, QuarantineBounds, QuarantineTypeOK, RequestType, EntryType,
         QuarantineStep
<1> QED BY <1>1, <1>2, <1>3, PTL DEF QuarantineSpec
=============================================================================
