------------------------------ MODULE ScanSlot ------------------------------
(***************************************************************************)
(* The one scan slot of the server (internal/antivirus, slot.go): a flag   *)
(* in the memory of the process, and a named lock of the database that     *)
(* belongs to a connection.  The panel's requests and its hourly tick ask  *)
(* for it, and the timer's own process (servika-server -av-sweep).         *)
(*                                                                         *)
(* The scan is one step, and its row in av_scans is left out.              *)
(***************************************************************************)
EXTENDS Naturals

CONSTANTS
    Asker, Process, ProcessOf,      \* who asks for the slot, and in which process
    Connection, PoolOf,             \* the database connections of the processes
    None,
    MaxSlotFaults, MaxSlotStops     \* bounds

SlotAssumption ==
    /\ ProcessOf \in [Asker -> Process] /\ PoolOf \in [Connection -> Process]
    /\ None \notin Connection \cup Process
    /\ {MaxSlotFaults, MaxSlotStops} \subseteq Nat

VARIABLES
    scanning,      \* the flag of each process
    lock,          \* servika_av_scan: its connection, and how often that took it
    asker,         \* where each asker is, and the connection it has
    unreleased,    \* a release was refused on a connection that lives on
    lockLost,      \* the connection of a scan at work was lost
    slotFaults, slotStops

slotVars == <<scanning, lock, asker, unreleased, lockLost, slotFaults, slotStops>>

Unlocked == [conn |-> None, times |-> 0]
NotAsking     == [at |-> "idle", conn |-> None]

SlotInit ==
    /\ scanning = [p \in Process |-> FALSE]
    /\ lock = Unlocked
    /\ asker = [a \in Asker |-> NotAsking]
    /\ unreleased = FALSE /\ lockLost = FALSE
    /\ slotFaults = 0 /\ slotStops = 0

SlotWorks == UNCHANGED slotFaults
SlotFault == slotFaults < MaxSlotFaults /\ slotFaults' = slotFaults + 1

\* Conn.Close gives a connection back to the pool, and the lock with it.
FreeConnection(p) ==
    {c \in Connection : PoolOf[c] = p /\ \A b \in Asker : asker[b].conn # c}

\* takeScanSlot: the flag first.  A request that finds it set is refused.
TakeFlag(a) ==
    /\ asker[a] = NotAsking /\ ~scanning[ProcessOf[a]]
    /\ scanning' = [scanning EXCEPT ![ProcessOf[a]] = TRUE]
    /\ asker' = [asker EXCEPT ![a].at = "lock"]
    /\ UNCHANGED <<lock, unreleased, lockLost, slotFaults, slotStops>>

\* A slip: the asker that found the database's lock taken leaves the flag set.
RefusedKeepsFlag(a) ==
    /\ asker' = [asker EXCEPT ![a] = NotAsking]
    /\ UNCHANGED scanning

Refused(a) ==
    /\ asker' = [asker EXCEPT ![a] = NotAsking]
    /\ scanning' = [scanning EXCEPT ![ProcessOf[a]] = FALSE]

\* A slip: the answer of GET_LOCK is not looked at.
GetLockUnread(a, c) ==
    lock' = IF lock = Unlocked \/ lock.conn = c
            THEN [conn |-> c, times |-> lock.times + 1] ELSE lock

\* GET_LOCK with no wait: a connection that has the lock takes it once more.
GetLock(a, c) ==
    /\ lock = Unlocked \/ lock.conn = c
    /\ lock' = [conn |-> c, times |-> lock.times + 1]

TakeLock(a) ==
    /\ asker[a].at = "lock"
    /\ \/ \E c \in FreeConnection(ProcessOf[a]) :
            /\ GetLock(a, c) /\ UNCHANGED slotFaults
            /\ asker' = [asker EXCEPT ![a] = [at |-> "record", conn |-> c]]
            /\ UNCHANGED scanning
       \/ /\ \E c \in FreeConnection(ProcessOf[a]) : lock # Unlocked /\ lock.conn # c
          /\ SlotWorks /\ Refused(a) /\ UNCHANGED lock
       \/ SlotFault /\ Refused(a) /\ UNCHANGED lock
    /\ UNCHANGED <<unreleased, lockLost, slotStops>>

\* The scan's row; without it the slot is given back.
Record(a) ==
    /\ asker[a].at = "record"
    /\ \/ SlotWorks /\ asker' = [asker EXCEPT ![a].at = "scan"]
       \/ SlotFault /\ asker' = [asker EXCEPT ![a].at = "release"]
    /\ UNCHANGED <<scanning, lock, unreleased, lockLost, slotStops>>

\* The scan ends, by a panic too: the release is deferred.
ScanEnds(a) ==
    /\ asker[a].at = "scan"
    /\ asker' = [asker EXCEPT ![a].at = "release"]
    /\ UNCHANGED <<scanning, lock, unreleased, lockLost, slotFaults, slotStops>>

\* RELEASE_LOCK, which may be refused on a connection that lives on; then the
\* connection goes back and the flag is cleared.
Release(a) ==
    /\ asker[a].at = "release"
    /\ asker' = [asker EXCEPT ![a] = NotAsking]
    /\ scanning' = [scanning EXCEPT ![ProcessOf[a]] = FALSE]
    /\ \/ /\ SlotWorks /\ UNCHANGED unreleased
          /\ lock' = IF lock.conn # asker[a].conn THEN lock
                     ELSE IF lock.times = 1 THEN Unlocked
                     ELSE [lock EXCEPT !.times = @ - 1]
       \/ SlotFault /\ unreleased' = TRUE /\ UNCHANGED lock
    /\ UNCHANGED <<lockLost, slotStops>>

\* The database drops the connection that has the lock.
ConnectionLost ==
    /\ lock # Unlocked /\ SlotFault
    /\ lock' = Unlocked
    /\ lockLost' = (lockLost \/ \E a \in Asker : asker[a].conn = lock.conn)
    /\ UNCHANGED <<scanning, asker, unreleased, slotStops>>

\* A process stops, and its scan and its connections with it.
ProcessStops(p) ==
    /\ slotStops < MaxSlotStops /\ slotStops' = slotStops + 1
    /\ scanning' = [scanning EXCEPT ![p] = FALSE]
    /\ asker' = [a \in Asker |-> IF ProcessOf[a] = p THEN NotAsking ELSE asker[a]]
    /\ lock' = IF lock # Unlocked /\ PoolOf[lock.conn] = p THEN Unlocked ELSE lock
    /\ UNCHANGED <<unreleased, lockLost, slotFaults>>

SlotNext ==
    \/ \E a \in Asker : TakeFlag(a) \/ TakeLock(a) \/ Record(a) \/ ScanEnds(a) \/ Release(a)
    \/ ConnectionLost
    \/ \E p \in Process : ProcessStops(p)

SlotSpec == SlotInit /\ [][SlotNext]_slotVars

-----------------------------------------------------------------------------
\* The types of the variables.
SlotTypeOK ==
    /\ scanning \in [Process -> BOOLEAN]
    /\ lock.conn \in Connection \cup {None} /\ lock.times \in Nat
    /\ asker \in [Asker -> [at : {"idle", "lock", "record", "scan", "release"},
                            conn : Connection \cup {None}]]
    /\ unreleased \in BOOLEAN /\ lockLost \in BOOLEAN
    /\ slotFaults \in 0..MaxSlotFaults /\ slotStops \in 0..MaxSlotStops

(***************************************************************************)
(* One scan at a time in a process and, unless the connection of a scan at *)
(* work was lost, on the server: "Both halves are needed and neither       *)
(* replaces the other".                                                    *)
(***************************************************************************)
OneScanAtATime ==
    \A a, b \in Asker :
        asker[a].at = "scan" /\ asker[b].at = "scan" /\ a # b =>
            lockLost /\ ProcessOf[a] # ProcessOf[b]

(***************************************************************************)
(* A slot nobody works in can be taken: the flag is given back on every    *)
(* failure ("or a refused attempt would leave this process unable to scan  *)
(* until it restarted"), and so is the lock, unless its release was        *)
(* refused on a connection that went back to the pool.                     *)
(***************************************************************************)
SlotComesBack ==
    /\ \A p \in Process : scanning[p] => \E a \in Asker : ProcessOf[a] = p /\ asker[a].at # "idle"
    /\ lock # Unlocked /\ ~unreleased => \E a \in Asker : asker[a].conn = lock.conn

(***************************************************************************)
(* What the flag promises whatever becomes of the lock: a process has one  *)
(* asker past it at a time, from taking it to giving it back on every path *)
(* out (takeScanSlot: "The atomic is taken FIRST").  See ExclusiveUse.     *)
(***************************************************************************)
FlagUse == INSTANCE ExclusiveUse WITH
    User <- Asker, Resource <- Process, NoResource <- None,
    using <- [a \in Asker |-> IF asker[a].at = "idle" THEN None ELSE ProcessOf[a]]

FlagUseSpec == FlagUse!Spec
=============================================================================
