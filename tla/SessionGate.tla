---------------------------- MODULE SessionGate ----------------------------
(***************************************************************************)
(* What RequireAuth asks of one account's sessions on every request: the   *)
(* account's token_version and the list of signed-out sessions, read       *)
(* through readState (internal/middleware, dbresilience.go), then the idle *)
(* timeout (internal/sessionidle).  Requests overlap, a read may fail on   *)
(* all of its attempts, and what was read is stored some time later.       *)
(*                                                                         *)
(* Time is counted in half minutes.  The absolute lifetime of a token and  *)
(* the sweep of the expired rows are left out: such a token is refused     *)
(* whatever the list says.                                                 *)
(***************************************************************************)
EXTENDS Naturals

CONSTANTS
    Session,
    Call,            \* requests in flight
    NoSession,
    stateCacheTTL, settingTTL, touchInterval,
    IdleLimit,       \* the timeout an administrator may set, 0 for none
    Latency,         \* how long a request may take, at most
    Horizon, MaxVersions, MaxSaves, MaxReadFaults    \* bounds

SessionAssumption ==
    /\ NoSession \notin Session
    /\ {stateCacheTTL, settingTTL, touchInterval, Latency, MaxSaves, MaxReadFaults} \subseteq Nat
    /\ {Horizon, MaxVersions} \subseteq Nat \ {0}
    /\ IdleLimit \subseteq Nat

VARIABLES
    clock,
    minutes,       \* panel_settings.session_idle_minutes
    setting,       \* its cached value
    version,       \* users.token_version
    versionCache,
    listed,        \* revoked_sessions
    listedCache,
    stamp,         \* users.last_activity_ts, Never before the first
    session,       \* the tokens handed out
    call,
    revokedAt, savedAt, activeAt,    \* when each last happened
    saves, readFaults

sessionVars == <<clock, minutes, setting, version, versionCache, listed, listedCache, stamp,
          session, call, revokedAt, savedAt, activeAt, saves, readFaults>>

Never   == 0
Uncached == [value |-> 0, at |-> Never]
Idle    == [at |-> "idle", session |-> NoSession, seen |-> 0, born |-> Never]

SessionInit ==
    /\ clock = 1
    /\ minutes = 0 /\ setting = Uncached
    /\ version = 1 /\ versionCache = Uncached
    /\ listed = {} /\ listedCache = [s \in Session |-> Uncached]
    /\ stamp = Never
    /\ session = [s \in Session |-> [version |-> 0, since |-> Never]]
    /\ call = [q \in Call |-> Idle]
    /\ revokedAt = [s \in Session |-> Never]
    /\ savedAt = Never /\ activeAt = Never
    /\ saves = 0 /\ readFaults = 0

Read        == UNCHANGED readFaults
ReadFails   == readFaults < MaxReadFaults /\ readFaults' = readFaults + 1
Goto(q, a, v) == call' = [call EXCEPT ![q].at = a, ![q].seen = v]
Refuse(q)   == call' = [call EXCEPT ![q] = Idle] /\ UNCHANGED activeAt
Accept(q)   == Goto(q, "serve", 0) /\ activeAt' = clock
Cached(v)   == [value |-> v, at |-> clock]

\* A slip: an entry serves whatever its age.
FreshAtAnyAge(entry, ttl) == entry.at # Never

\* stateLoad.
Fresh(entry, ttl) == entry.at # Never /\ clock - entry.at <= ttl

\* A token carries the version the account has when it is issued.
Login(s) ==
    /\ session[s].since = Never
    /\ session' = [session EXCEPT ![s] = [version |-> version, since |-> clock]]
    /\ UNCHANGED <<clock, minutes, setting, version, versionCache, listed, listedCache, stamp,
                   call, revokedAt, savedAt, activeAt, saves, readFaults>>

\* The list is written, unless that fails: the browser forgets the session anyway.
Logout(s) ==
    /\ session[s].since # Never /\ s \notin listed
    /\ listed' = listed \cup {s}
    /\ revokedAt' = [revokedAt EXCEPT ![s] = IF @ = Never THEN clock ELSE @]
    /\ UNCHANGED <<clock, minutes, setting, version, versionCache, listedCache, stamp,
                   session, call, savedAt, activeAt, saves, readFaults>>

\* A new password, a changed role or a suspension ends every session.
RevokeSessions ==
    /\ version < MaxVersions
    /\ version' = version + 1
    /\ revokedAt' = [s \in Session |->
           IF session[s].since # Never /\ revokedAt[s] = Never THEN clock ELSE revokedAt[s]]
    /\ UNCHANGED <<clock, minutes, setting, versionCache, listed, listedCache, stamp,
                   session, call, savedAt, activeAt, saves, readFaults>>

\* The UPDATE, its audit record and Invalidate in one step: an old value that is
\* cached between the first and the last is dropped, and one that is used there
\* is used within settingTTL of the UPDATE.
SessionIdleSave(m) ==
    /\ saves < MaxSaves /\ m # minutes
    /\ minutes' = m
    /\ setting' = Uncached
    /\ savedAt' = clock
    /\ saves' = saves + 1
    /\ UNCHANGED <<clock, version, versionCache, listed, listedCache, stamp,
                   session, call, revokedAt, activeAt, readFaults>>

-----------------------------------------------------------------------------
Ask(q, s) ==
    /\ call[q] = Idle /\ session[s].since # Never
    /\ call' = [call EXCEPT ![q] = [at |-> "version", session |-> s, seen |-> 0, born |-> clock]]
    /\ UNCHANGED <<clock, minutes, setting, version, versionCache, listed, listedCache, stamp,
                   session, revokedAt, savedAt, activeAt, saves, readFaults>>

\* tokenVersionMatches: a mismatch refuses, and so does a read that failed with
\* nothing fresh to fall back on.
JudgeVersion(q, v) ==
    IF v = session[call[q].session].version
    THEN Goto(q, "listed", 0) /\ UNCHANGED activeAt
    ELSE Refuse(q)

ReadVersion(q) ==
    /\ call[q].at = "version"
    /\ \/ Read /\ Goto(q, "keepVersion", version) /\ UNCHANGED activeAt
       \/ ReadFails /\ IF Fresh(versionCache, stateCacheTTL)
                       THEN JudgeVersion(q, versionCache.value) ELSE Refuse(q)
    /\ UNCHANGED <<clock, minutes, setting, version, versionCache, listed, listedCache, stamp,
                   session, revokedAt, savedAt, saves>>

\* stateStore: the entry is as old as the moment it was stored, not read.
KeepVersion(q) ==
    /\ call[q].at = "keepVersion"
    /\ versionCache' = Cached(call[q].seen)
    /\ JudgeVersion(q, call[q].seen)
    /\ UNCHANGED <<clock, minutes, setting, version, listed, listedCache, stamp,
                   session, revokedAt, savedAt, saves, readFaults>>

\* sessionRevoked.
JudgeListed(q, v) ==
    IF v = 0 THEN Goto(q, "setting", 0) /\ UNCHANGED activeAt ELSE Refuse(q)

ReadListed(q) ==
    LET s == call[q].session
    IN  /\ call[q].at = "listed"
        /\ \/ Read /\ Goto(q, "keepListed", IF s \in listed THEN 1 ELSE 0) /\ UNCHANGED activeAt
           \/ ReadFails /\ IF Fresh(listedCache[s], stateCacheTTL)
                           THEN JudgeListed(q, listedCache[s].value) ELSE Refuse(q)
        /\ UNCHANGED <<clock, minutes, setting, version, versionCache, listed, listedCache, stamp,
                       session, revokedAt, savedAt, saves>>

KeepListed(q) ==
    /\ call[q].at = "keepListed"
    /\ listedCache' = [listedCache EXCEPT ![call[q].session] = Cached(call[q].seen)]
    /\ JudgeListed(q, call[q].seen)
    /\ UNCHANGED <<clock, minutes, setting, version, versionCache, listed, stamp,
                   session, revokedAt, savedAt, saves, readFaults>>

\* Minutes.  A failure lets the request through.
UseSetting(q, m) ==
    IF m = 0 THEN Accept(q) ELSE Goto(q, "stamp", m) /\ UNCHANGED activeAt

\* A slip: the cached setting never runs out.
CachedSettingAtAnyAge == setting.at # Never

CachedSetting == setting.at # Never /\ clock - setting.at < settingTTL

ReadSetting(q) ==
    /\ call[q].at = "setting"
    /\ \/ CachedSetting /\ Read /\ UseSetting(q, setting.value)
       \/ /\ ~CachedSetting
          /\ \/ Read /\ Goto(q, "keepSetting", minutes) /\ UNCHANGED activeAt
             \/ ReadFails /\ Accept(q)
    /\ UNCHANGED <<clock, minutes, setting, version, versionCache, listed, listedCache, stamp,
                   session, revokedAt, savedAt, saves>>

KeepSetting(q) ==
    /\ call[q].at = "keepSetting"
    /\ setting' = Cached(call[q].seen)
    /\ UseSetting(q, call[q].seen)
    /\ UNCHANGED <<clock, minutes, version, versionCache, listed, listedCache, stamp,
                   session, revokedAt, savedAt, saves, readFaults>>

\* A slip: a session that waited too long is stamped like any other.
EnforceWithoutExpiry(q) ==
    /\ call[q].at = "stamp"
    /\ \/ Read /\ IF stamp # Never /\ clock - stamp < touchInterval
                  THEN Accept(q) ELSE Goto(q, "touch", clock) /\ UNCHANGED activeAt
       \/ ReadFails /\ Accept(q)
    /\ UNCHANGED <<clock, minutes, setting, version, versionCache, listed, listedCache, stamp,
                   session, revokedAt, savedAt, saves>>

Expired(q) == stamp # Never /\ clock - stamp > call[q].seen

\* Enforce: the stamp is of the account, and only a request moves it.
Enforce(q) ==
    /\ call[q].at = "stamp"
    /\ \/ Expired(q) /\ Read /\ Refuse(q)
       \/ /\ ~Expired(q) /\ Read
          /\ IF stamp # Never /\ clock - stamp < touchInterval
             THEN Accept(q) ELSE Goto(q, "touch", clock) /\ UNCHANGED activeAt
       \/ ReadFails /\ Accept(q)
    /\ UNCHANGED <<clock, minutes, setting, version, versionCache, listed, listedCache, stamp,
                   session, revokedAt, savedAt, saves>>

Touch(q) ==
    /\ call[q].at = "touch"
    /\ Accept(q)
    /\ \/ Read /\ stamp' = call[q].seen
       \/ ReadFails /\ UNCHANGED stamp
    /\ UNCHANGED <<clock, minutes, setting, version, versionCache, listed, listedCache,
                   session, revokedAt, savedAt, saves>>

Answer(q) ==
    /\ call[q].at = "serve"
    /\ Refuse(q)
    /\ UNCHANGED <<clock, minutes, setting, version, versionCache, listed, listedCache, stamp,
                   session, revokedAt, savedAt, saves, readFaults>>

TimePasses ==
    /\ clock < Horizon
    /\ \A q \in Call : call[q] # Idle => clock - call[q].born < Latency
    /\ clock' = clock + 1
    /\ UNCHANGED <<minutes, setting, version, versionCache, listed, listedCache, stamp,
                   session, call, revokedAt, savedAt, activeAt, saves, readFaults>>

SessionNext ==
    \/ \E s \in Session : Login(s) \/ Logout(s) \/ \E q \in Call : Ask(q, s)
    \/ RevokeSessions
    \/ \E m \in IdleLimit : SessionIdleSave(m)
    \/ \E q \in Call :
         \/ ReadVersion(q) \/ KeepVersion(q) \/ ReadListed(q) \/ KeepListed(q)
         \/ ReadSetting(q) \/ KeepSetting(q) \/ Enforce(q) \/ Touch(q) \/ Answer(q)
    \/ TimePasses

SessionSpec == SessionInit /\ [][SessionNext]_sessionVars

-----------------------------------------------------------------------------
\* The types of the variables.
SessionTypeOK ==
    LET Time  == 0..Horizon
        Entry == [value : Nat, at : Time]
    IN  /\ clock \in Time
        /\ minutes \in IdleLimit \cup {0} /\ setting \in Entry
        /\ version \in 1..MaxVersions /\ versionCache \in Entry
        /\ listed \subseteq Session /\ listedCache \in [Session -> Entry]
        /\ stamp \in Time
        /\ session \in [Session -> [version : 0..MaxVersions, since : Time]]
        /\ call \in [Call -> [at : {"idle", "version", "keepVersion", "listed", "keepListed",
                                    "setting", "keepSetting", "stamp", "touch", "serve"},
                              session : Session \cup {NoSession}, seen : Nat, born : Time]]
        /\ revokedAt \in [Session -> Time] /\ savedAt \in Time /\ activeAt \in Time
        /\ saves \in 0..MaxSaves /\ readFaults \in 0..MaxReadFaults

Accepted(q) == call[q].at # "serve" /\ call'[q].at = "serve"
ExpiresNow(q) == call[q].at = "stamp" /\ call'[q] = Idle

NoLateAcceptance ==
    \A q \in Call : Accepted(q) =>
        LET t == revokedAt[call[q].session]
        IN  t # Never => clock <= t + stateCacheTTL + 2 * Latency

NoIdleAcceptance ==
    \A q \in Call :
        Accepted(q) /\ stamp # Never /\ readFaults' = readFaults =>
          /\ call[q].at = "stamp" => clock - activeAt <= call[q].seen
          /\ call[q].at = "touch" /\ clock >= savedAt + settingTTL + 2 * Latency =>
                 clock - activeAt <= minutes + Latency

NoStaleSetting ==
    \A q \in Call :
        call[q].at \in {"setting", "keepSetting"} /\ call'[q].at \in {"stamp", "serve"}
        /\ readFaults' = readFaults /\ call'[q].seen # minutes =>
          clock < savedAt + settingTTL + Latency

(***************************************************************************)
(* A session that was signed out, or whose account's version went up, is   *)
(* accepted for at most stateCacheTTL more, and the two requests that      *)
(* stored and used the entry (dbresilience.go: "a session revoked during   *)
(* an outage can survive for up to stateCacheTTL").                        *)
(***************************************************************************)
RevokedIsRefused == [][NoLateAcceptance]_sessionVars

(***************************************************************************)
(* While the timeout is in force, a request is accepted only when the      *)
(* account's last one is not longer ago than the limit (Enforce), however  *)
(* many requests overlap, once the account has a stamp and unless that     *)
(* could not be read.  One that moves the stamp took its time, and may     *)
(* have been judged by the limit before the last save.                     *)
(***************************************************************************)
IdleIsSignedOut == [][NoIdleAcceptance]_sessionVars

(***************************************************************************)
(* A timeout saved on the screen is the one requests are judged by: Save   *)
(* calls Invalidate, and a request that read the old one before may store  *)
(* it after, for settingTTL ("an operator using the screen never waits     *)
(* this out" does wait, but never longer).                                 *)
(***************************************************************************)
SettingTakesHold == [][NoStaleSetting]_sessionVars

(***************************************************************************)
(* The timeout never signs out "somebody who is working"                   *)
(* (sessionidle.go): a session is refused for idleness only when nobody    *)
(* signed in with it within the limit.                                     *)
(***************************************************************************)
FreshSignInIsAccepted ==
    [][\A q \in Call : ExpiresNow(q) =>
         clock - session[call[q].session].since + touchInterval >= call[q].seen]_sessionVars
=============================================================================
