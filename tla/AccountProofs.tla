--------------------------- MODULE AccountProofs ----------------------------
(***************************************************************************)
(* What is kept for an account: its sessions, for any number of sessions   *)
(* and requests, any cache lifetimes and any number of failed reads; and   *)
(* the copies of its mailboxes, for any number of mailboxes, workers,      *)
(* requests and jobs, any length of the queue, and any number of faults    *)
(* and restarts.                                                           *)
(***************************************************************************)
EXTENDS SessionGate, MailMigration, TLAPS

(***************************************************************************)
(* The sessions' inductive invariant for a revocation.                     *)
(***************************************************************************)
Step == {"idle", "version", "keepVersion", "listed", "keepListed",
         "setting", "keepSetting", "stamp", "touch", "serve"}

SessionTypes ==
    LET Entry == [value : Nat, at : Nat]
    IN  /\ clock \in Nat \ {0}
        /\ minutes \in Nat /\ setting \in Entry
        /\ version \in Nat /\ versionCache \in Entry
        /\ listed \subseteq Session /\ listedCache \in [Session -> Entry]
        /\ session \in [Session -> [version : Nat, since : Nat]]
        /\ call \in [Call -> [at : Step, session : Session \cup {NoSession}, seen : Nat, born : Nat]]
        /\ revokedAt \in [Session -> Nat]

PastListed(q)  == call[q].at \in {"setting", "keepSetting", "stamp", "touch", "serve"}
PastVersion(q) == PastListed(q) \/ call[q].at \in {"listed", "keepListed"}

\* A request in flight is not older than the server lets one be.
InTime ==
    \A q \in Call : call[q].at # "idle" =>
        call[q].session \in Session /\ call[q].born <= clock /\ clock <= call[q].born + Latency

\* What is stored or revoked was so by now; a token's version was its account's.
InThePast ==
    /\ versionCache.at <= clock
    /\ \A s \in Session :
          /\ listedCache[s].at <= clock
          /\ revokedAt[s] # Never => session[s].since # Never /\ revokedAt[s] <= clock
          /\ session[s].version <= version

(***************************************************************************)
(* A session that was signed out at t.  Whatever still says it was not is  *)
(* from a request that came by t, or from the entry such a request stored. *)
(***************************************************************************)
SignedOut(s, t) ==
    /\ s \in listed
    /\ listedCache[s].at # Never /\ listedCache[s].value = 0 => listedCache[s].at <= t + Latency
    /\ \A q \in Call : call[q].session = s =>
          /\ call[q].at = "keepListed" /\ call[q].seen = 0 => call[q].born <= t
          /\ PastListed(q) => call[q].born <= t + Latency + stateCacheTTL

\* The same of a session whose account's version went up at t.
Outdated(s, t) ==
    LET v == session[s].version IN
    /\ v < version
    /\ versionCache.at # Never /\ versionCache.value = v => versionCache.at <= t + Latency
    /\ \A q \in Call :
          /\ call[q].at = "keepVersion" /\ call[q].seen = v => call[q].born <= t
          /\ call[q].session = s /\ PastVersion(q) => call[q].born <= t + Latency + stateCacheTTL

RevokedIsOld ==
    \A s \in Session :
        revokedAt[s] # Never => SignedOut(s, revokedAt[s]) \/ Outdated(s, revokedAt[s])

RevocationInv == SessionTypes /\ InTime /\ InThePast /\ RevokedIsOld

-----------------------------------------------------------------------------
\* Nobody has signed in.
LEMMA GateInit == ASSUME SessionAssumption, SessionInit PROVE RevocationInv
<1> USE DEF SessionAssumption, SessionInit, Uncached, Idle, Never
<1>1. SessionTypes BY DEF SessionTypes, Step
<1>2. InTime BY DEF InTime
<1>3. InThePast BY DEF InThePast
<1>4. RevokedIsOld BY DEF RevokedIsOld
<1> QED BY <1>1, <1>2, <1>3, <1>4 DEF RevocationInv

\* A request that goes on changes nothing else of itself.
LEMMA GotoTypes ==
    ASSUME SessionTypes, NEW q \in Call, NEW a \in Step, NEW v \in Nat, Goto(q, a, v)
    PROVE  /\ call' \in [Call -> [at : Step, session : Session \cup {NoSession},
                                  seen : Nat, born : Nat]]
           /\ call'[q].at = a /\ call'[q].seen = v
           /\ call'[q].session = call[q].session /\ call'[q].born = call[q].born
           /\ \A r \in Call \ {q} : call'[r] = call[r]
<1>1. call' = [call EXCEPT ![q] = [call[q] EXCEPT !.at = a, !.seen = v]]
  BY DEF Goto, SessionTypes
<1>2. call[q] \in [at : Step, session : Session \cup {NoSession}, seen : Nat, born : Nat]
  BY DEF SessionTypes
<1>3. [call[q] EXCEPT !.at = a, !.seen = v]
        \in [at : Step, session : Session \cup {NoSession}, seen : Nat, born : Nat]
  BY <1>2
<1> QED BY <1>1, <1>2, <1>3 DEF SessionTypes

\* Requests that end, begin, or go on past what says that they are revoked.
LEMMA QuietKeeps ==
    ASSUME SessionAssumption, RevocationInv,
           UNCHANGED <<clock, version, versionCache, listed, listedCache, session, revokedAt>>,
           minutes' \in Nat, setting' \in [value : Nat, at : Nat],
           call' \in [Call -> [at : Step, session : Session \cup {NoSession}, seen : Nat, born : Nat]],
           \A q \in Call :
               \/ call'[q] = call[q]
               \/ call'[q].at = "idle"
               \/ call'[q].at = "version" /\ call'[q].session \in Session /\ call'[q].born = clock
               \/ /\ PastListed(q) /\ PastListed(q)'
                  /\ call'[q].session = call[q].session /\ call'[q].born = call[q].born
    PROVE  RevocationInv'
<1> USE DEF SessionAssumption
<1>1. SessionTypes' BY DEF RevocationInv, SessionTypes
<1>2. InTime' BY DEF RevocationInv, SessionTypes, InTime, PastListed
<1>3. InThePast' BY DEF RevocationInv, InThePast
<1>4. RevokedIsOld'
  <2> SUFFICES ASSUME NEW s \in Session, revokedAt[s] # Never
               PROVE  SignedOut(s, revokedAt[s])' \/ Outdated(s, revokedAt[s])'
    BY DEF RevokedIsOld
  <2>1. CASE SignedOut(s, revokedAt[s]) BY <2>1 DEF SignedOut, PastListed
  <2>2. CASE Outdated(s, revokedAt[s]) BY <2>2 DEF Outdated, PastVersion, PastListed
  <2> QED BY <2>1, <2>2 DEF RevocationInv, RevokedIsOld
<1> QED BY <1>1, <1>2, <1>3, <1>4 DEF RevocationInv

\* The rest of the gate, behind the two questions, and the setting's save.
LEMMA RestKeeps ==
    ASSUME SessionAssumption, RevocationInv, NEW q \in Call,
           \/ ReadSetting(q) \/ KeepSetting(q) \/ Enforce(q) \/ Touch(q) \/ Answer(q)
           \/ \E s \in Session : Ask(q, s)
    PROVE  RevocationInv'
<1>1. /\ UNCHANGED <<clock, version, versionCache, listed, listedCache, session, revokedAt, minutes>>
      /\ setting' \in [value : Nat, at : Nat]
  BY DEF ReadSetting, KeepSetting, Enforce, Touch, Answer, Ask, Cached, RevocationInv, SessionTypes
<1>2. CASE \E s \in Session : Ask(q, s)
  <2>1. PICK s \in Session :
          call' = [call EXCEPT ![q] = [at |-> "version", session |-> s, seen |-> 0, born |-> clock]]
    BY <1>2 DEF Ask
  <2>2. call' \in [Call -> [at : Step, session : Session \cup {NoSession}, seen : Nat, born : Nat]]
    BY <2>1 DEF RevocationInv, SessionTypes, Step
  <2> QED BY <1>1, <2>1, <2>2, QuietKeeps DEF RevocationInv, SessionTypes
<1>3. CASE ReadSetting(q) \/ KeepSetting(q) \/ Enforce(q) \/ Touch(q) \/ Answer(q)
  <2>1. PastListed(q)
    BY <1>3 DEF ReadSetting, KeepSetting, Enforce, Touch, Answer, PastListed
  <2>2. \/ call' = [call EXCEPT ![q] = Idle]
        \/ \E a \in {"keepSetting", "stamp", "touch", "serve"}, v \in Nat : Goto(q, a, v)
    BY <1>3 DEF ReadSetting, KeepSetting, Enforce, Touch, Answer, UseSetting, Accept, Refuse,
                RevocationInv, SessionTypes
  <2>3. CASE call' = [call EXCEPT ![q] = Idle]
    <3>1. call' \in [Call -> [at : Step, session : Session \cup {NoSession}, seen : Nat, born : Nat]]
      BY <2>3 DEF RevocationInv, SessionTypes, Idle, Step, Never
    <3> QED BY <1>1, <2>3, <3>1, QuietKeeps DEF RevocationInv, SessionTypes, Idle
  <2>4. ASSUME NEW a \in {"keepSetting", "stamp", "touch", "serve"}, NEW v \in Nat, Goto(q, a, v)
        PROVE  RevocationInv'
    <3>1. call' \in [Call -> [at : Step, session : Session \cup {NoSession}, seen : Nat, born : Nat]]
      BY <2>4, GotoTypes DEF RevocationInv, Step
    <3>2. /\ PastListed(q)' /\ call'[q].session = call[q].session /\ call'[q].born = call[q].born
          /\ \A r \in Call \ {q} : call'[r] = call[r]
      BY <2>4 DEF Goto, PastListed, RevocationInv, SessionTypes
    <3> QED BY <1>1, <2>1, <3>1, <3>2, QuietKeeps DEF RevocationInv, SessionTypes
  <2> QED BY <2>2, <2>3, <2>4
<1> QED BY <1>2, <1>3

\* The setting's save.
LEMMA SaveKeeps ==
    ASSUME SessionAssumption, RevocationInv, NEW m \in IdleLimit, SessionIdleSave(m) PROVE RevocationInv'
BY QuietKeeps DEF SessionIdleSave, SessionAssumption, Uncached, Never, RevocationInv, SessionTypes

\* A token of now, which nobody has revoked.
LEMMA LoginKeeps ==
    ASSUME SessionAssumption, RevocationInv, NEW s \in Session, Login(s) PROVE RevocationInv'
<1> USE DEF SessionAssumption
<1>1. /\ session[s].since = Never
      /\ session' = [session EXCEPT ![s] = [version |-> version, since |-> clock]]
      /\ UNCHANGED <<clock, minutes, setting, version, versionCache, listed, listedCache,
                     call, revokedAt>>
  BY DEF Login
<1>2. SessionTypes' /\ InTime' BY <1>1 DEF RevocationInv, SessionTypes, InTime
<1>3. InThePast' BY <1>1 DEF RevocationInv, SessionTypes, InThePast, Never
<1>4. RevokedIsOld'
  <2> SUFFICES ASSUME NEW z \in Session, revokedAt[z] # Never
               PROVE  SignedOut(z, revokedAt[z])' \/ Outdated(z, revokedAt[z])'
    BY <1>1 DEF RevokedIsOld
  <2>1. z # s BY <1>1 DEF RevocationInv, InThePast
  <2>2. session'[z] = session[z] BY <1>1, <2>1 DEF RevocationInv, SessionTypes
  <2> QED BY <1>1, <2>2 DEF RevocationInv, RevokedIsOld, SignedOut, Outdated, PastListed, PastVersion
<1> QED BY <1>2, <1>3, <1>4 DEF RevocationInv

\* What is known of a session at the moment it is revoked.
LEMMA LogoutKeeps ==
    ASSUME SessionAssumption, RevocationInv, NEW s \in Session, Logout(s) PROVE RevocationInv'
<1> USE DEF SessionAssumption
<1>1. /\ session[s].since # Never /\ listed' = listed \cup {s}
      /\ revokedAt' = [revokedAt EXCEPT ![s] = IF @ = Never THEN clock ELSE @]
      /\ UNCHANGED <<clock, minutes, setting, version, versionCache, listedCache, session, call>>
  BY DEF Logout
<1>2. SessionTypes' /\ InTime' BY <1>1 DEF RevocationInv, SessionTypes, InTime
<1>3. InThePast' BY <1>1 DEF RevocationInv, SessionTypes, InThePast
<1>4. RevokedIsOld'
  <2> SUFFICES ASSUME NEW z \in Session, revokedAt'[z] # Never
               PROVE  SignedOut(z, revokedAt[z])' \/ Outdated(z, revokedAt[z])'
    BY DEF RevokedIsOld
  <2>1. CASE revokedAt[z] # Never
    <3>1. revokedAt'[z] = revokedAt[z] BY <1>1, <2>1 DEF RevocationInv, SessionTypes
    <3> QED BY <1>1, <2>1, <3>1
            DEF RevocationInv, RevokedIsOld, SignedOut, Outdated, PastListed, PastVersion
  <2>2. CASE revokedAt[z] = Never
    <3>1. z = s /\ revokedAt'[z] = clock BY <1>1, <2>2 DEF RevocationInv, SessionTypes
    <3>2. listedCache[s].at <= clock + Latency BY DEF RevocationInv, SessionTypes, InThePast
    <3>3. \A q \in Call : call[q].at # "idle" =>
              call[q].born <= clock /\ call[q].born <= clock + Latency + stateCacheTTL
      BY DEF RevocationInv, SessionTypes, InTime
    <3> QED BY <1>1, <3>1, <3>2, <3>3 DEF SignedOut, PastListed
  <2> QED BY <2>1, <2>2
<1> QED BY <1>2, <1>3, <1>4 DEF RevocationInv

LEMMA RevokeKeeps == ASSUME SessionAssumption, RevocationInv, RevokeSessions PROVE RevocationInv'
<1> USE DEF SessionAssumption
<1>1. /\ version' = version + 1
      /\ revokedAt' = [s \in Session |->
             IF session[s].since # Never /\ revokedAt[s] = Never THEN clock ELSE revokedAt[s]]
      /\ UNCHANGED <<clock, minutes, setting, versionCache, listed, listedCache, session, call>>
  BY DEF RevokeSessions
<1>2. SessionTypes' /\ InTime' BY <1>1 DEF RevocationInv, SessionTypes, InTime
<1>3. InThePast' BY <1>1 DEF RevocationInv, SessionTypes, InThePast
<1>4. RevokedIsOld'
  <2> SUFFICES ASSUME NEW z \in Session, revokedAt'[z] # Never
               PROVE  SignedOut(z, revokedAt[z])' \/ Outdated(z, revokedAt[z])'
    BY DEF RevokedIsOld
  <2>1. session[z].version <= version /\ version \in Nat /\ session[z].version \in Nat
    BY DEF RevocationInv, SessionTypes, InThePast
  <2>2. CASE revokedAt[z] # Never
    <3>1. revokedAt'[z] = revokedAt[z] BY <1>1, <2>2 DEF RevocationInv, SessionTypes
    <3> QED BY <1>1, <2>1, <2>2, <3>1
            DEF RevocationInv, RevokedIsOld, SignedOut, Outdated, PastListed, PastVersion
  <2>3. CASE revokedAt[z] = Never
    <3>1. revokedAt'[z] = clock BY <1>1, <2>3 DEF RevocationInv, SessionTypes
    <3>2. versionCache.at <= clock + Latency BY DEF RevocationInv, SessionTypes, InThePast
    <3>3. \A q \in Call : call[q].at # "idle" =>
              call[q].born <= clock /\ call[q].born <= clock + Latency + stateCacheTTL
      BY DEF RevocationInv, SessionTypes, InTime
    <3> QED BY <1>1, <2>1, <3>1, <3>2, <3>3 DEF Outdated, PastVersion, PastListed
  <2> QED BY <2>2, <2>3
<1> QED BY <1>2, <1>3, <1>4 DEF RevocationInv

\* Time passes only while every request in flight has some left.
LEMMA TimeKeeps == ASSUME SessionAssumption, RevocationInv, TimePasses PROVE RevocationInv'
<1> USE DEF SessionAssumption
<1>1. /\ clock' = clock + 1
      /\ \A q \in Call : call[q] # Idle => clock - call[q].born < Latency
      /\ UNCHANGED <<minutes, setting, version, versionCache, listed, listedCache, session,
                     call, revokedAt>>
  BY DEF TimePasses
<1>2. SessionTypes' BY <1>1 DEF RevocationInv, SessionTypes
<1>3. InTime' BY <1>1 DEF RevocationInv, SessionTypes, InTime, Idle
<1>4. InThePast' BY <1>1 DEF RevocationInv, SessionTypes, InThePast
<1>5. RevokedIsOld'
  BY <1>1 DEF RevocationInv, RevokedIsOld, SignedOut, Outdated, PastListed, PastVersion
<1> QED BY <1>2, <1>3, <1>4, <1>5 DEF RevocationInv
-----------------------------------------------------------------------------
(* The two questions.                                                      *)

\* One request goes on, or ends, and may store what it read.
Asks(q) ==
    /\ UNCHANGED <<clock, minutes, setting, version, listed, session, revokedAt>>
    /\ call[q].at # "idle" /\ call' \in [Call -> [at : Step, session : Session \cup {NoSession},
                                                 seen : Nat, born : Nat]]
    /\ \A r \in Call \ {q} : call'[r] = call[r]
    /\ \/ call'[q].at = "idle"
       \/ call'[q].session = call[q].session /\ call'[q].born = call[q].born

\* A request that reads, is judged, or both, with what it may have stored.
LEMMA AsksKeeps ==
    ASSUME SessionAssumption, RevocationInv, NEW q \in Call, Asks(q),
           versionCache' \in {versionCache, Cached(call[q].seen)},
           \A s \in Session : listedCache'[s] \in {listedCache[s], Cached(call[q].seen)},
           listedCache' \in [Session -> [value : Nat, at : Nat]]
    PROVE  SessionTypes' /\ InTime' /\ InThePast'
<1> USE DEF SessionAssumption
<1>1. SessionTypes' BY DEF Asks, Cached, RevocationInv, SessionTypes
<1>2. InTime' BY DEF Asks, RevocationInv, SessionTypes, InTime
<1>3. InThePast'
  <2>1. versionCache'.at <= clock /\ clock \in Nat
    BY DEF Cached, RevocationInv, SessionTypes, InThePast
  <2>2. \A s \in Session : listedCache'[s].at <= clock
    BY <2>1 DEF Cached, RevocationInv, InThePast
  <2> QED BY <2>1, <2>2 DEF Asks, RevocationInv, InThePast
<1> QED BY <1>1, <1>2, <1>3

\* The version as it is, or as the cache has it.
LEMMA ReadVersionKeeps ==
    ASSUME SessionAssumption, RevocationInv, NEW q \in Call, ReadVersion(q) PROVE RevocationInv'
<1> USE DEF SessionAssumption
<1> DEFINE s == call[q].session
<1>1. /\ UNCHANGED <<clock, minutes, setting, version, versionCache, listed, listedCache, session,
                     revokedAt>>
      /\ call[q].at = "version" /\ s \in Session
  BY DEF ReadVersion, RevocationInv, InTime
<1>2. CASE call' = [call EXCEPT ![q] = Idle]
  BY <1>1, <1>2, QuietKeeps DEF RevocationInv, SessionTypes, Idle, Step, Never
<1>3. ASSUME NEW a \in {"keepVersion", "listed"}, NEW v \in Nat, Goto(q, a, v),
             \/ a = "keepVersion" /\ v = version
             \/ a = "listed" /\ Fresh(versionCache, stateCacheTTL)
                /\ versionCache.value = session[s].version
      PROVE  RevocationInv'
  <2>1. /\ call' \in [Call -> [at : Step, session : Session \cup {NoSession}, seen : Nat, born : Nat]]
        /\ call'[q].at = a /\ call'[q].seen = v
        /\ call'[q].session = s /\ call'[q].born = call[q].born
        /\ \A r \in Call \ {q} : call'[r] = call[r]
    BY <1>3, GotoTypes DEF RevocationInv, Step
  <2>2. SessionTypes' /\ InTime' /\ InThePast' BY <1>1, <2>1, AsksKeeps DEF Asks, RevocationInv, SessionTypes
  <2>3. RevokedIsOld'
    <3> SUFFICES ASSUME NEW z \in Session, revokedAt[z] # Never
                 PROVE  SignedOut(z, revokedAt[z])' \/ Outdated(z, revokedAt[z])'
      BY <1>1 DEF RevokedIsOld
    <3>1. CASE SignedOut(z, revokedAt[z])
      <4>1. ~PastListed(q)' /\ call'[q].at # "keepListed" BY <2>1 DEF PastListed
      <4> QED BY <1>1, <2>1, <3>1, <4>1 DEF SignedOut, PastListed
    <3>2. CASE Outdated(z, revokedAt[z])
      <4>1. call'[q].at = "keepVersion" => call'[q].seen # session[z].version
        BY <1>3, <2>1, <3>2 DEF Outdated, RevocationInv, SessionTypes
      <4>2. s = z /\ PastVersion(q)' => call'[q].born <= revokedAt[z] + Latency + stateCacheTTL
        <5> SUFFICES ASSUME s = z, PastVersion(q)'
                     PROVE  call[q].born <= revokedAt[z] + Latency + stateCacheTTL
          BY <2>1
        <5>1. a = "listed" BY <2>1 DEF PastVersion, PastListed
        <5>2. versionCache.at # Never /\ clock - versionCache.at <= stateCacheTTL
              /\ versionCache.value = session[z].version
          BY <1>3, <5>1 DEF Fresh
        <5>3. versionCache.at <= revokedAt[z] + Latency BY <3>2, <5>2 DEF Outdated
        <5>4. call[q].born <= clock BY <1>1 DEF RevocationInv, InTime
        <5> QED BY <5>2, <5>3, <5>4 DEF RevocationInv, SessionTypes
      <4> QED BY <1>1, <2>1, <3>2, <4>1, <4>2 DEF Outdated, PastVersion, PastListed
    <3> QED BY <3>1, <3>2 DEF RevocationInv, RevokedIsOld
  <2> QED BY <2>2, <2>3 DEF RevocationInv
<1>4. \/ call' = [call EXCEPT ![q] = Idle]
      \/ Goto(q, "keepVersion", version)
      \/ /\ Goto(q, "listed", 0) /\ Fresh(versionCache, stateCacheTTL)
         /\ versionCache.value = session[s].version
  BY DEF ReadVersion, JudgeVersion, Refuse
<1> QED BY <1>2, <1>3, <1>4 DEF RevocationInv, SessionTypes

\* The version stored is at most as old as the request that read it.
LEMMA KeepVersionKeeps ==
    ASSUME SessionAssumption, RevocationInv, NEW q \in Call, KeepVersion(q) PROVE RevocationInv'
<1> USE DEF SessionAssumption
<1> DEFINE s == call[q].session
<1>1. /\ UNCHANGED <<clock, minutes, setting, version, listed, listedCache, session, revokedAt>>
      /\ versionCache' = [value |-> call[q].seen, at |-> clock]
      /\ call[q].at = "keepVersion" /\ s \in Session
      /\ call[q].born <= clock /\ clock <= call[q].born + Latency
  BY DEF KeepVersion, Cached, RevocationInv, InTime
<1>2. /\ call' \in [Call -> [at : Step, session : Session \cup {NoSession}, seen : Nat, born : Nat]]
      /\ \A r \in Call \ {q} : call'[r] = call[r]
      /\ \/ call'[q].at = "idle"
         \/ /\ call'[q].at = "listed" /\ call'[q].session = s /\ call'[q].born = call[q].born
            /\ call[q].seen = session[s].version
  BY DEF KeepVersion, JudgeVersion, Refuse, Goto, Idle, Never, RevocationInv, SessionTypes, Step
<1>3. SessionTypes' /\ InTime' /\ InThePast'
  BY <1>1, <1>2, AsksKeeps DEF Asks, Cached, RevocationInv, SessionTypes
<1>4. RevokedIsOld'
  <2> SUFFICES ASSUME NEW z \in Session, revokedAt[z] # Never
               PROVE  SignedOut(z, revokedAt[z])' \/ Outdated(z, revokedAt[z])'
    BY <1>1 DEF RevokedIsOld
  <2>1. CASE SignedOut(z, revokedAt[z])
    <3>1. ~PastListed(q)' /\ call'[q].at # "keepListed" BY <1>2 DEF PastListed
    <3> QED BY <1>1, <1>2, <2>1, <3>1 DEF SignedOut, PastListed
  <2>2. CASE Outdated(z, revokedAt[z])
    <3>1. call[q].seen = session[z].version => call[q].born <= revokedAt[z]
      BY <1>1, <2>2 DEF Outdated
    <3>2. versionCache'.value = session[z].version => versionCache'.at <= revokedAt[z] + Latency
      BY <1>1, <3>1 DEF RevocationInv, SessionTypes
    <3>3. call'[q].at # "keepVersion" BY <1>2
    <3>4. call'[q].session = z /\ PastVersion(q)' =>
             call'[q].born <= revokedAt[z] + Latency + stateCacheTTL
      BY <1>1, <1>2, <3>1 DEF PastVersion, PastListed, RevocationInv, SessionTypes
    <3> QED BY <1>1, <1>2, <2>2, <3>2, <3>3, <3>4 DEF Outdated, PastVersion, PastListed
  <2> QED BY <2>1, <2>2 DEF RevocationInv, RevokedIsOld
<1> QED BY <1>3, <1>4 DEF RevocationInv

\* The list as it is, or as the cache has it.
LEMMA ReadListedKeeps ==
    ASSUME SessionAssumption, RevocationInv, NEW q \in Call, ReadListed(q) PROVE RevocationInv'
<1> USE DEF SessionAssumption
<1> DEFINE s == call[q].session
<1>1. /\ UNCHANGED <<clock, minutes, setting, version, versionCache, listed, listedCache, session,
                     revokedAt>>
      /\ call[q].at = "listed" /\ s \in Session
  BY DEF ReadListed, RevocationInv, InTime
<1>2. CASE call' = [call EXCEPT ![q] = Idle]
  BY <1>1, <1>2, QuietKeeps DEF RevocationInv, SessionTypes, Idle, Step, Never
<1>3. ASSUME NEW a \in {"keepListed", "setting"}, NEW v \in {0, 1}, Goto(q, a, v),
             \/ a = "keepListed" /\ (v = 0 => s \notin listed)
             \/ a = "setting" /\ Fresh(listedCache[s], stateCacheTTL) /\ listedCache[s].value = 0
      PROVE  RevocationInv'
  <2>1. /\ call' \in [Call -> [at : Step, session : Session \cup {NoSession}, seen : Nat, born : Nat]]
        /\ call'[q].at = a /\ call'[q].seen = v
        /\ call'[q].session = s /\ call'[q].born = call[q].born
        /\ \A r \in Call \ {q} : call'[r] = call[r]
    BY <1>3, GotoTypes DEF RevocationInv, Step
  <2>2. SessionTypes' /\ InTime' /\ InThePast' BY <1>1, <2>1, AsksKeeps DEF Asks, RevocationInv, SessionTypes
  <2>3. RevokedIsOld'
    <3> SUFFICES ASSUME NEW z \in Session, revokedAt[z] # Never
                 PROVE  SignedOut(z, revokedAt[z])' \/ Outdated(z, revokedAt[z])'
      BY <1>1 DEF RevokedIsOld
    <3>1. CASE SignedOut(z, revokedAt[z])
      <4>1. s = z /\ call'[q].at = "keepListed" => call'[q].seen # 0
        BY <1>3, <2>1, <3>1 DEF SignedOut
      <4>2. s = z /\ PastListed(q)' => call'[q].born <= revokedAt[z] + Latency + stateCacheTTL
        <5> SUFFICES ASSUME s = z, PastListed(q)'
                     PROVE  call[q].born <= revokedAt[z] + Latency + stateCacheTTL
          BY <2>1
        <5>1. a = "setting" BY <2>1 DEF PastListed
        <5>2. listedCache[z].at # Never /\ clock - listedCache[z].at <= stateCacheTTL
              /\ listedCache[z].value = 0
          BY <1>3, <5>1 DEF Fresh
        <5>3. listedCache[z].at <= revokedAt[z] + Latency BY <3>1, <5>2 DEF SignedOut
        <5>4. call[q].born <= clock BY <1>1 DEF RevocationInv, InTime
        <5> QED BY <5>2, <5>3, <5>4 DEF RevocationInv, SessionTypes
      <4> QED BY <1>1, <2>1, <3>1, <4>1, <4>2 DEF SignedOut, PastListed
    <3>2. CASE Outdated(z, revokedAt[z])
      <4>1. PastVersion(q) /\ call'[q].at # "keepVersion"
        BY <1>1, <2>1 DEF PastVersion
      <4> QED BY <1>1, <2>1, <3>2, <4>1 DEF Outdated, PastVersion, PastListed
    <3> QED BY <3>1, <3>2 DEF RevocationInv, RevokedIsOld
  <2> QED BY <2>2, <2>3 DEF RevocationInv
<1>4. \/ call' = [call EXCEPT ![q] = Idle]
      \/ Goto(q, "keepListed", IF s \in listed THEN 1 ELSE 0)
      \/ /\ Goto(q, "setting", 0) /\ Fresh(listedCache[s], stateCacheTTL)
         /\ listedCache[s].value = 0
  BY DEF ReadListed, JudgeListed, Refuse
<1> QED BY <1>2, <1>3, <1>4

\* What is stored of a session is at most as old as the request that read it.
LEMMA KeepListedKeeps ==
    ASSUME SessionAssumption, RevocationInv, NEW q \in Call, KeepListed(q) PROVE RevocationInv'
<1> USE DEF SessionAssumption
<1> DEFINE s == call[q].session
<1>1. /\ UNCHANGED <<clock, minutes, setting, version, versionCache, listed, session, revokedAt>>
      /\ listedCache' = [listedCache EXCEPT ![s] = [value |-> call[q].seen, at |-> clock]]
      /\ call[q].at = "keepListed" /\ s \in Session
      /\ call[q].born <= clock /\ clock <= call[q].born + Latency
  BY DEF KeepListed, Cached, RevocationInv, InTime
<1>2. /\ call' \in [Call -> [at : Step, session : Session \cup {NoSession}, seen : Nat, born : Nat]]
      /\ \A r \in Call \ {q} : call'[r] = call[r]
      /\ \/ call'[q].at = "idle"
         \/ /\ call'[q].at = "setting" /\ call'[q].session = s /\ call'[q].born = call[q].born
            /\ call[q].seen = 0
  <2>1. call' = [call EXCEPT ![q] = Idle] \/ (call[q].seen = 0 /\ Goto(q, "setting", 0))
    BY DEF KeepListed, JudgeListed, Refuse
  <2>2. CASE call' = [call EXCEPT ![q] = Idle]
    BY <2>2 DEF Idle, Never, RevocationInv, SessionTypes, Step
  <2>3. CASE call[q].seen = 0 /\ Goto(q, "setting", 0)
    BY <2>3, GotoTypes DEF RevocationInv, Step
  <2> QED BY <2>1, <2>2, <2>3
<1>3. SessionTypes' /\ InTime' /\ InThePast'
  <2>1. /\ listedCache' \in [Session -> [value : Nat, at : Nat]]
        /\ \A z \in Session : listedCache'[z] \in {listedCache[z], Cached(call[q].seen)}
    BY <1>1 DEF Cached, RevocationInv, SessionTypes
  <2> QED BY <1>1, <1>2, <2>1, AsksKeeps DEF Asks, RevocationInv, SessionTypes
<1>4. RevokedIsOld'
  <2> SUFFICES ASSUME NEW z \in Session, revokedAt[z] # Never
               PROVE  SignedOut(z, revokedAt[z])' \/ Outdated(z, revokedAt[z])'
    BY <1>1 DEF RevokedIsOld
  <2>1. CASE SignedOut(z, revokedAt[z])
    <3>1. s = z /\ call[q].seen = 0 => call[q].born <= revokedAt[z]
      BY <1>1, <2>1 DEF SignedOut
    <3>2. listedCache'[z].at # Never /\ listedCache'[z].value = 0 =>
             listedCache'[z].at <= revokedAt[z] + Latency
      <4>1. CASE s = z BY <1>1, <3>1, <4>1 DEF RevocationInv, SessionTypes
      <4>2. CASE s # z BY <1>1, <2>1, <4>2 DEF SignedOut, RevocationInv, SessionTypes
      <4> QED BY <4>1, <4>2
    <3>3. call'[q].at # "keepListed" BY <1>2
    <3>4. call'[q].session = z /\ PastListed(q)' =>
             call'[q].born <= revokedAt[z] + Latency + stateCacheTTL
      BY <1>1, <1>2, <3>1 DEF PastListed, RevocationInv, SessionTypes
    <3> QED BY <1>1, <1>2, <2>1, <3>2, <3>3, <3>4 DEF SignedOut, PastListed
  <2>2. CASE Outdated(z, revokedAt[z])
    <3>1. PastVersion(q) /\ call'[q].at # "keepVersion" BY <1>1, <1>2 DEF PastVersion
    <3>2. PastVersion(q)' => call'[q].session = s /\ call'[q].born = call[q].born
      BY <1>2 DEF PastVersion, PastListed
    <3> QED BY <1>1, <1>2, <2>2, <3>1, <3>2 DEF Outdated, PastVersion, PastListed
  <2> QED BY <2>1, <2>2 DEF RevocationInv, RevokedIsOld
<1> QED BY <1>3, <1>4 DEF RevocationInv

-----------------------------------------------------------------------------
\* Every step of the gate keeps the invariant.
LEMMA GateStep == ASSUME SessionAssumption, RevocationInv, [SessionNext]_sessionVars PROVE RevocationInv'
<1>1. CASE UNCHANGED sessionVars
  BY <1>1 DEF sessionVars, RevocationInv, SessionTypes, InTime, InThePast, RevokedIsOld, SignedOut, Outdated,
              PastListed, PastVersion
<1>2. CASE SessionNext
  BY <1>2, LoginKeeps, LogoutKeeps, RevokeKeeps, SaveKeeps, RestKeeps, ReadVersionKeeps,
     KeepVersionKeeps, ReadListedKeeps, KeepListedKeeps, TimeKeeps DEF SessionNext
<1> QED BY <1>1, <1>2

(***************************************************************************)
(* A session that was signed out, or whose account's version went up, is   *)
(* accepted for at most stateCacheTTL and two requests more (readState,    *)
(* fallbackState).                                                         *)
(***************************************************************************)
THEOREM RevocationHolds == ASSUME SessionAssumption PROVE SessionSpec => RevokedIsRefused
<1>1. SessionInit => RevocationInv BY GateInit
<1>2. RevocationInv /\ [SessionNext]_sessionVars => RevocationInv' BY GateStep
<1>3. RevocationInv /\ [SessionNext]_sessionVars => [NoLateAcceptance]_sessionVars
  <2> SUFFICES ASSUME RevocationInv, SessionNext, NEW q \in Call, Accepted(q),
                      revokedAt[call[q].session] # Never
               PROVE  clock <= revokedAt[call[q].session] + stateCacheTTL + 2 * Latency
    BY DEF NoLateAcceptance
  <2> DEFINE s == call[q].session
  <2>1. PastListed(q)
    <3>1. call[q].at # "serve" /\ call'[q].at = "serve" BY DEF Accepted
    <3>2. \A r \in Call : r # q /\ (\/ ReadVersion(r) \/ KeepVersion(r) \/ ReadListed(r)
                                   \/ KeepListed(r) \/ ReadSetting(r) \/ KeepSetting(r)
                                   \/ Enforce(r) \/ Touch(r) \/ Answer(r)
                                   \/ \E z \in Session : Ask(r, z))
             => call'[q] = call[q]
      BY DEF ReadVersion, KeepVersion, ReadListed, KeepListed, ReadSetting, KeepSetting, Enforce,
             Touch, Answer, Ask, JudgeVersion, JudgeListed, UseSetting, Accept, Refuse, Goto,
             RevocationInv, SessionTypes
    <3>3. ~(ReadVersion(q) \/ KeepVersion(q) \/ ReadListed(q) \/ KeepListed(q)
            \/ \E z \in Session : Ask(q, z))
      BY <3>1 DEF ReadVersion, KeepVersion, ReadListed, KeepListed, Ask, JudgeVersion,
                  JudgeListed, Refuse, Goto, Idle, RevocationInv, SessionTypes
    <3>4. ReadSetting(q) \/ KeepSetting(q) \/ Enforce(q) \/ Touch(q) \/ UNCHANGED call
          \/ Answer(q)
      BY <3>1, <3>2, <3>3 DEF SessionNext, Login, Logout, RevokeSessions, SessionIdleSave, TimePasses
    <3> QED BY <3>1, <3>4
            DEF ReadSetting, KeepSetting, Enforce, Touch, Answer, PastListed
  <2>2. s \in Session /\ clock <= call[q].born + Latency
    BY <2>1 DEF PastListed, RevocationInv, InTime
  <2>3. call[q].born <= revokedAt[s] + Latency + stateCacheTTL
    BY <2>1, <2>2 DEF RevocationInv, RevokedIsOld, SignedOut, Outdated, PastVersion
  <2>4. /\ clock \in Nat /\ call[q].born \in Nat /\ revokedAt[s] \in Nat
        /\ Latency \in Nat /\ stateCacheTTL \in Nat
    BY <2>2 DEF RevocationInv, SessionTypes, SessionAssumption
  <2> QED BY <2>2, <2>3, <2>4
<1> QED BY <1>1, <1>2, <1>3, PTL DEF SessionSpec, RevokedIsRefused

-----------------------------------------------------------------------------
(***************************************************************************)
(* The idle timeout.  Its invariant dates every use of a timeout that is   *)
(* no longer the saved one: the request that read it came before the save, *)
(* or used what such a request had stored.                                 *)
(***************************************************************************)
Stamped ==
    /\ stamp \in Nat /\ activeAt \in Nat /\ savedAt \in Nat
    /\ stamp <= activeAt /\ activeAt <= clock /\ savedAt <= clock

SettingIsOld ==
    setting.at # Never /\ setting.value # minutes => setting.at <= savedAt + Latency

\* A request that read another timeout, is judged by one, or was and moves the stamp.
LimitIsOld(q) ==
    /\ call[q].at = "keepSetting" /\ call[q].seen # minutes => call[q].born <= savedAt
    /\ call[q].at = "stamp" /\ call[q].seen # minutes =>
           call[q].born < savedAt + settingTTL + Latency
    /\ call[q].at = "touch" =>
           /\ call[q].born <= call[q].seen /\ call[q].seen <= clock
           /\ \/ stamp = Never
              \/ call[q].seen <= activeAt + minutes
              \/ call[q].born < savedAt + settingTTL + Latency

IdleInv == Stamped /\ SettingIsOld /\ \A q \in Call : LimitIsOld(q)

\* A step of one request leaves what is known of the others, whoever it accepts.
LEMMA RequestKeepsIdle ==
    ASSUME SessionAssumption, RevocationInv, IdleInv, NEW q \in Call,
           \A r \in Call : r # q => call'[r] = call[r],
           UNCHANGED <<clock, minutes, savedAt>>, activeAt' \in {activeAt, clock},
           stamp' = stamp \/ (stamp' \in Nat /\ stamp' <= clock /\ activeAt' = clock),
           SettingIsOld', LimitIsOld(q)'
    PROVE  IdleInv'
<1>1. clock \in Nat /\ minutes \in Nat BY DEF RevocationInv, SessionTypes
<1>2. Stamped' BY <1>1 DEF IdleInv, Stamped
<1>3. ASSUME NEW r \in Call, r # q PROVE LimitIsOld(r)'
  <2>1. /\ call'[r] = call[r] /\ LimitIsOld(r) /\ Stamped
        /\ call[r].seen \in Nat /\ call[r].born \in Nat
    BY <1>3 DEF IdleInv, RevocationInv, SessionTypes
  <2> QED BY <1>1, <2>1 DEF LimitIsOld, Stamped
<1> QED BY <1>2, <1>3 DEF IdleInv

\* The checks of the version and of the list are not about the timeout.
LEMMA EarlierKeepsIdle ==
    ASSUME SessionAssumption, RevocationInv, IdleInv, NEW q \in Call,
           \/ ReadVersion(q) \/ KeepVersion(q) \/ ReadListed(q) \/ KeepListed(q) \/ Answer(q)
           \/ \E s \in Session : Ask(q, s)
    PROVE  IdleInv'
<1>1. /\ UNCHANGED <<clock, minutes, setting, savedAt, stamp, activeAt>>
      /\ \A r \in Call : r # q => call'[r] = call[r]
      /\ call'[q].at \notin {"keepSetting", "stamp", "touch"}
  BY DEF ReadVersion, KeepVersion, ReadListed, KeepListed, Answer, Ask, JudgeVersion,
         JudgeListed, Refuse, Goto, Idle, RevocationInv, SessionTypes
<1>2. SettingIsOld' /\ LimitIsOld(q)' BY <1>1 DEF IdleInv, SettingIsOld, LimitIsOld
<1> QED BY <1>1, <1>2, RequestKeepsIdle

\* The cached timeout, or the saved one, which is stored a while later.
LEMMA SettingKeepsIdle ==
    ASSUME SessionAssumption, settingTTL > 0, RevocationInv, IdleInv, NEW q \in Call,
           ReadSetting(q) \/ KeepSetting(q)
    PROVE  IdleInv'
<1> USE DEF SessionAssumption
<1>1. /\ UNCHANGED <<clock, minutes, savedAt, stamp>> /\ activeAt' \in {activeAt, clock}
      /\ \A r \in Call : r # q => call'[r] = call[r]
  BY DEF ReadSetting, KeepSetting, UseSetting, Accept, Goto, RevocationInv, SessionTypes
<1>2. /\ clock \in Nat /\ minutes \in Nat /\ savedAt \in Nat
      /\ call[q].born \in Nat /\ call[q].seen \in Nat
      /\ setting.at \in Nat /\ setting.value \in Nat
  BY DEF RevocationInv, SessionTypes, IdleInv, Stamped
<1>3. call[q].at # "idle" /\ call[q].born <= clock /\ clock <= call[q].born + Latency
  BY DEF ReadSetting, KeepSetting, RevocationInv, InTime
<1>4. CASE ReadSetting(q)
  <2>1. UNCHANGED setting BY <1>4 DEF ReadSetting
  <2>2. /\ call'[q].born = call[q].born
        /\ \/ call'[q].at = "serve"
           \/ call'[q].at = "keepSetting" /\ call'[q].seen = minutes
           \/ call'[q].at = "stamp" /\ call'[q].seen = setting.value /\ CachedSetting
    BY <1>4 DEF ReadSetting, UseSetting, Accept, Goto, RevocationInv, SessionTypes
  <2>3. CachedSetting /\ setting.value # minutes => clock < savedAt + settingTTL + Latency
    BY <1>2 DEF CachedSetting, IdleInv, SettingIsOld
  <2>4. LimitIsOld(q)' BY <1>1, <1>2, <1>3, <2>2, <2>3 DEF LimitIsOld
  <2>5. SettingIsOld' BY <1>1, <2>1 DEF IdleInv, SettingIsOld
  <2> QED BY <1>1, <2>4, <2>5, RequestKeepsIdle
<1>5. CASE KeepSetting(q)
  <2>1. /\ call[q].at = "keepSetting" /\ setting' = [value |-> call[q].seen, at |-> clock]
        /\ call'[q].born = call[q].born
        /\ call'[q].at = "serve" \/ (call'[q].at = "stamp" /\ call'[q].seen = call[q].seen)
    BY <1>5 DEF KeepSetting, Cached, UseSetting, Accept, Goto, RevocationInv, SessionTypes
  <2>2. call[q].seen # minutes => call[q].born <= savedAt BY <2>1 DEF IdleInv, LimitIsOld
  <2>3. LimitIsOld(q)' BY <1>1, <1>2, <2>1, <2>2 DEF LimitIsOld
  <2>4. SettingIsOld' BY <1>1, <1>2, <1>3, <2>1, <2>2 DEF SettingIsOld
  <2> QED BY <1>1, <2>3, <2>4, RequestKeepsIdle
<1> QED BY <1>4, <1>5

\* A stamp is moved to a moment at which the account was active.
LEMMA StampKeepsIdle ==
    ASSUME SessionAssumption, RevocationInv, IdleInv, NEW q \in Call, Enforce(q) \/ Touch(q)
    PROVE  IdleInv'
<1> USE DEF SessionAssumption
<1>1. /\ UNCHANGED <<clock, minutes, setting, savedAt>> /\ activeAt' \in {activeAt, clock}
      /\ \A r \in Call : r # q => call'[r] = call[r]
  BY DEF Enforce, Touch, Accept, Refuse, Goto, RevocationInv, SessionTypes
<1>2. /\ clock \in Nat /\ minutes \in Nat /\ Stamped
      /\ call[q].born \in Nat /\ call[q].seen \in Nat
  BY DEF RevocationInv, SessionTypes, IdleInv
<1>3. call[q].born <= clock BY DEF Enforce, Touch, RevocationInv, InTime
<1>4. SettingIsOld' BY <1>1 DEF IdleInv, SettingIsOld
<1>5. CASE Enforce(q)
  <2>1. /\ UNCHANGED stamp /\ call[q].at = "stamp"
        /\ \/ call'[q].at \in {"idle", "serve"}
           \/ /\ call'[q].at = "touch" /\ call'[q].seen = clock /\ call'[q].born = call[q].born
              /\ ~Expired(q) /\ UNCHANGED activeAt
    BY <1>5 DEF Enforce, Accept, Refuse, Goto, Idle, RevocationInv, SessionTypes
  <2>2. call[q].seen # minutes => call[q].born < savedAt + settingTTL + Latency
    BY <2>1 DEF IdleInv, LimitIsOld
  <2>3. ~Expired(q) => stamp = Never \/ clock <= activeAt + call[q].seen
    BY <1>2 DEF Expired, Stamped
  <2>4. LimitIsOld(q)' BY <1>1, <1>2, <1>3, <2>1, <2>2, <2>3 DEF LimitIsOld
  <2> QED BY <1>1, <1>4, <2>1, <2>4, RequestKeepsIdle
<1>6. CASE Touch(q)
  <2>1. /\ call[q].at = "touch" /\ call'[q].at = "serve" /\ activeAt' = clock
        /\ stamp' \in {stamp, call[q].seen}
    BY <1>6 DEF Touch, Accept, Goto, RevocationInv, SessionTypes
  <2>2. call[q].seen <= clock BY <2>1 DEF IdleInv, LimitIsOld
  <2>3. LimitIsOld(q)' BY <2>1 DEF LimitIsOld
  <2> QED BY <1>1, <1>2, <1>4, <2>1, <2>2, <2>3, RequestKeepsIdle
<1> QED BY <1>5, <1>6

\* What was known of the old timeout is now about one saved this moment.
LEMMA SaveKeepsIdle ==
    ASSUME SessionAssumption, settingTTL > 0, RevocationInv, IdleInv, NEW m \in IdleLimit,
           SessionIdleSave(m)
    PROVE  IdleInv'
<1> USE DEF SessionAssumption
<1>1. /\ UNCHANGED <<clock, call, stamp, activeAt>> /\ savedAt' = clock
      /\ minutes' = m /\ m \in Nat /\ setting' = Uncached
  BY DEF SessionIdleSave
<1>2. clock \in Nat BY DEF RevocationInv, SessionTypes
<1>3. Stamped' /\ SettingIsOld'
  BY <1>1, <1>2 DEF IdleInv, Stamped, SettingIsOld, Uncached, Never
<1>4. ASSUME NEW q \in Call PROVE LimitIsOld(q)'
  <2>1. call[q].born \in Nat /\ (call[q].at # "idle" => call[q].born <= clock)
    BY DEF RevocationInv, SessionTypes, InTime
  <2>2. LimitIsOld(q) BY DEF IdleInv
  <2> QED BY <1>1, <1>2, <2>1, <2>2 DEF LimitIsOld
<1> QED BY <1>3, <1>4 DEF IdleInv

\* The steps that touch neither the timeout nor a request.
LEMMA OtherKeepsIdle ==
    ASSUME SessionAssumption, RevocationInv, IdleInv,
           \/ \E s \in Session : Login(s) \/ Logout(s)
           \/ RevokeSessions \/ TimePasses \/ UNCHANGED sessionVars
    PROVE  IdleInv'
<1>1. /\ UNCHANGED <<minutes, setting, call, stamp, activeAt, savedAt>>
      /\ clock' \in {clock, clock + 1}
  BY DEF Login, Logout, RevokeSessions, TimePasses, sessionVars
<1>2. clock \in Nat /\ \A q \in Call : call[q].seen \in Nat BY DEF RevocationInv, SessionTypes
<1>3. Stamped' /\ SettingIsOld' BY <1>1, <1>2 DEF IdleInv, Stamped, SettingIsOld
<1>4. \A q \in Call : LimitIsOld(q)' BY <1>1, <1>2 DEF IdleInv, LimitIsOld
<1> QED BY <1>3, <1>4 DEF IdleInv

\* Reads that failed are counted, so that one that did not can be told.
LEMMA FaultsAreCounted ==
    ASSUME readFaults \in Nat, [SessionNext]_sessionVars PROVE readFaults' \in Nat
<1>1. readFaults' = readFaults \/ readFaults' = readFaults + 1
  BY DEF SessionNext, sessionVars, Login, Logout, Ask, RevokeSessions, SessionIdleSave, TimePasses,
         ReadVersion, KeepVersion, ReadListed, KeepListed, ReadSetting, KeepSetting, Enforce,
         Touch, Answer, Read, ReadFails
<1> QED BY <1>1

GateInv == RevocationInv /\ IdleInv /\ readFaults \in Nat

LEMMA IdleInit == ASSUME SessionAssumption, SessionInit PROVE GateInv
<1>1. IdleInv BY DEF SessionInit, IdleInv, Stamped, SettingIsOld, LimitIsOld, Uncached, Idle, Never
<1>2. readFaults \in Nat BY DEF SessionInit
<1> QED BY <1>1, <1>2, GateInit DEF GateInv

LEMMA IdleStep ==
    ASSUME SessionAssumption, settingTTL > 0, GateInv, [SessionNext]_sessionVars PROVE GateInv'
<1> USE DEF GateInv
<1>1. RevocationInv' BY GateStep
<1>2. IdleInv'
  BY EarlierKeepsIdle, SettingKeepsIdle, StampKeepsIdle, SaveKeepsIdle, OtherKeepsIdle DEF SessionNext
<1> QED BY <1>1, <1>2, FaultsAreCounted

\* Only the request itself takes its steps.
LEMMA OwnStep ==
    ASSUME RevocationInv, SessionNext, NEW q \in Call, call'[q] # call[q], call[q].at # "idle"
    PROVE  \/ ReadVersion(q) \/ KeepVersion(q) \/ ReadListed(q) \/ KeepListed(q)
           \/ ReadSetting(q) \/ KeepSetting(q) \/ Enforce(q) \/ Touch(q) \/ Answer(q)
<1>1. \A r \in Call : r # q /\ (\/ ReadVersion(r) \/ KeepVersion(r) \/ ReadListed(r)
                               \/ KeepListed(r) \/ ReadSetting(r) \/ KeepSetting(r)
                               \/ Enforce(r) \/ Touch(r) \/ Answer(r)
                               \/ \E z \in Session : Ask(r, z))
         => call'[q] = call[q]
  BY DEF ReadVersion, KeepVersion, ReadListed, KeepListed, ReadSetting, KeepSetting, Enforce,
         Touch, Answer, Ask, JudgeVersion, JudgeListed, UseSetting, Accept, Refuse, Goto,
         RevocationInv, SessionTypes
<1>2. ~\E z \in Session : Ask(q, z) BY DEF Ask, Idle
<1> QED BY <1>1, <1>2 DEF SessionNext, Login, Logout, RevokeSessions, SessionIdleSave, TimePasses

(***************************************************************************)
(* A timeout that was saved judges every request settingTTL and a          *)
(* request's length later (Minutes, Save: Invalidate races the store).     *)
(***************************************************************************)
THEOREM SavedSettingHolds ==
    ASSUME SessionAssumption, settingTTL > 0 PROVE SessionSpec => SettingTakesHold
<1>1. SessionInit => GateInv BY IdleInit
<1>2. GateInv /\ [SessionNext]_sessionVars => GateInv' BY IdleStep
<1>3. GateInv /\ [SessionNext]_sessionVars => [NoStaleSetting]_sessionVars
  <2> SUFFICES ASSUME GateInv, SessionNext, NEW q \in Call,
                      call[q].at \in {"setting", "keepSetting"}, call'[q].at \in {"stamp", "serve"},
                      readFaults' = readFaults, call'[q].seen # minutes
               PROVE  clock < savedAt + settingTTL + Latency
    BY DEF NoStaleSetting
  <2> USE DEF SessionAssumption, GateInv
  <2>1. ReadSetting(q) \/ KeepSetting(q)
    <3>1. call'[q] # call[q] /\ call[q].at # "idle" OBVIOUS
    <3> QED BY <3>1, OwnStep
            DEF ReadVersion, KeepVersion, ReadListed, KeepListed, Enforce, Touch, Answer
  <2>3. clock \in Nat /\ savedAt \in Nat /\ call[q].born \in Nat /\ setting.at \in Nat
    BY DEF RevocationInv, SessionTypes, IdleInv, Stamped
  <2>4. CASE KeepSetting(q)
    <3>1. call[q].seen # minutes /\ call[q].at = "keepSetting"
      BY <2>4 DEF KeepSetting, UseSetting, Accept, Goto, RevocationInv, SessionTypes
    <3>2. call[q].born <= savedAt /\ clock <= call[q].born + Latency
      BY <3>1 DEF IdleInv, LimitIsOld, RevocationInv, InTime
    <3> QED BY <2>3, <3>2
  <2>5. CASE ReadSetting(q)
    <3>1. CachedSetting /\ setting.value # minutes
      BY <2>5 DEF ReadSetting, UseSetting, Accept, Goto, ReadFails, RevocationInv, SessionTypes
    <3> QED BY <2>3, <3>1 DEF CachedSetting, IdleInv, SettingIsOld
  <2> QED BY <2>1, <2>4, <2>5
<1> QED BY <1>1, <1>2, <1>3, PTL DEF SessionSpec, SettingTakesHold

(***************************************************************************)
(* While the timeout is in force, no request is accepted later than the    *)
(* limit after the account's last one, but for a request's own length      *)
(* (Enforce), with any number of them overlapping.                         *)
(***************************************************************************)
THEOREM IdleAccountsAreSignedOut ==
    ASSUME SessionAssumption, settingTTL > 0 PROVE SessionSpec => IdleIsSignedOut
<1>1. SessionInit => GateInv BY IdleInit
<1>2. GateInv /\ [SessionNext]_sessionVars => GateInv' BY IdleStep
<1>3. GateInv /\ [SessionNext]_sessionVars => [NoIdleAcceptance]_sessionVars
  <2> SUFFICES ASSUME GateInv, SessionNext, NEW q \in Call,
                      Accepted(q), stamp # Never, readFaults' = readFaults
               PROVE  /\ call[q].at = "stamp" => clock - activeAt <= call[q].seen
                      /\ call[q].at = "touch" /\ clock >= savedAt + settingTTL + 2 * Latency =>
                             clock - activeAt <= minutes + Latency
    BY DEF NoIdleAcceptance
  <2> USE DEF SessionAssumption, GateInv
  <2>1. /\ clock \in Nat /\ minutes \in Nat /\ Stamped
        /\ call[q].born \in Nat /\ call[q].seen \in Nat
    BY DEF RevocationInv, SessionTypes, IdleInv
  <2>2. ASSUME call[q].at = "stamp" PROVE clock - activeAt <= call[q].seen
    <3>1. Enforce(q)
      <4>1. call'[q] # call[q] BY DEF Accepted
      <4> QED BY <2>2, <4>1, OwnStep
              DEF ReadVersion, KeepVersion, ReadListed, KeepListed, ReadSetting, KeepSetting,
                  Touch, Answer
    <3>2. ~Expired(q)
      BY <3>1 DEF Enforce, Accepted, ReadFails, Refuse, Idle, RevocationInv, SessionTypes
    <3> QED BY <2>1, <3>2 DEF Expired, Stamped
  <2>3. ASSUME call[q].at = "touch", clock >= savedAt + settingTTL + 2 * Latency
        PROVE  clock - activeAt <= minutes + Latency
    <3>1. clock <= call[q].born + Latency BY <2>3 DEF RevocationInv, InTime
    <3>2. LimitIsOld(q) BY DEF IdleInv
    <3> QED BY <2>1, <2>3, <3>1, <3>2 DEF LimitIsOld, Stamped
  <2> QED BY <2>2, <2>3
<1> QED BY <1>1, <1>2, <1>3, PTL DEF SessionSpec, IdleIsSignedOut

-----------------------------------------------------------------------------
(***************************************************************************)
(* The types in full, with the bounds on time and the counters.  What a    *)
(* request writes to the account's stamp is a time it read.                *)
(***************************************************************************)
Times    == 0..Horizon
CallType == [at : Step, session : Session \cup {NoSession}, seen : Nat, born : Times]

SessionTyped ==
    /\ SessionTypeOK
    /\ \A q \in Call : call[q].at = "touch" => call[q].seen \in Times

\* A request that goes on, with a number it read.
LEMMA RequestTyped ==
    ASSUME SessionAssumption, SessionTyped, NEW q \in Call,
           \/ call' = [call EXCEPT ![q] = Idle]
           \/ \E a \in Step \ {"touch"}, v \in Nat : Goto(q, a, v)
           \/ clock \in Nat /\ Goto(q, "touch", clock),
           UNCHANGED clock
    PROVE  /\ call' \in [Call -> CallType]
           /\ \A r \in Call : call'[r].at = "touch" => call'[r].seen \in Times
<1>1. call \in [Call -> CallType] /\ clock \in Times
  BY DEF SessionTyped, SessionTypeOK, CallType, Step, Times
<1>2. CASE call' = [call EXCEPT ![q] = Idle]
  <2>1. Idle \in CallType /\ Idle.at # "touch"
    BY DEF SessionAssumption, Idle, CallType, Step, Never, Times
  <2> QED BY <1>1, <1>2, <2>1 DEF SessionTyped
<1>3. ASSUME NEW a \in Step, NEW v \in Nat, Goto(q, a, v), a = "touch" => v = clock
      PROVE  /\ call' \in [Call -> CallType]
             /\ \A r \in Call : call'[r].at = "touch" => call'[r].seen \in Times
  <2>1. call'[q] = [at |-> a, session |-> call[q].session, seen |-> v, born |-> call[q].born]
    <3>1. call[q] \in CallType BY <1>1
    <3>2. call'[q] = [[call[q] EXCEPT !.at = a] EXCEPT !.seen = v] BY <1>1, <1>3 DEF Goto
    <3> QED BY <3>1, <3>2 DEF CallType
  <2>2. call'[q] \in CallType BY <1>1, <1>3, <2>1 DEF CallType
  <2>3. \A r \in Call \ {q} : call'[r] = call[r] BY <1>1, <1>3 DEF Goto
  <2>4. call' \in [Call -> CallType] BY <1>1, <1>3, <2>2, <2>3 DEF Goto
  <2> QED BY <1>1, <1>3, <2>1, <2>3, <2>4 DEF SessionTyped
<1> QED BY <1>2, <1>3 DEF Step

\* A request asks, is judged, and may store or stamp what it read.
LEMMA RequestStaysTyped ==
    ASSUME SessionAssumption, SessionTyped, NEW q \in Call,
           \/ ReadVersion(q) \/ KeepVersion(q) \/ ReadListed(q) \/ KeepListed(q)
           \/ ReadSetting(q) \/ KeepSetting(q) \/ Enforce(q) \/ Touch(q) \/ Answer(q)
    PROVE  SessionTyped'
<1> DEFINE Entry == [value : Nat, at : Times]
<1>1. /\ clock \in Times /\ clock \in Nat /\ call[q].seen \in Nat /\ minutes \in Nat
      /\ version \in Nat /\ setting \in Entry /\ setting.value \in Nat
      /\ versionCache \in Entry /\ listedCache \in [Session -> Entry]
      /\ stamp \in Times /\ activeAt \in Times /\ readFaults \in 0..MaxReadFaults
  <2>1. clock \in Times /\ version \in 1..MaxVersions /\ minutes \in IdleLimit \cup {0}
    BY DEF SessionTyped, SessionTypeOK, Times
  <2>2. clock \in Nat /\ version \in Nat /\ minutes \in Nat
    BY <2>1 DEF SessionAssumption, Times
  <2>3. call[q].seen \in Nat BY DEF SessionTyped, SessionTypeOK
  <2>4. /\ setting \in Entry /\ versionCache \in Entry /\ listedCache \in [Session -> Entry]
        /\ stamp \in Times /\ activeAt \in Times /\ readFaults \in 0..MaxReadFaults
    BY DEF SessionTyped, SessionTypeOK, Times
  <2> QED BY <2>1, <2>2, <2>3, <2>4
<1>2. /\ UNCHANGED <<clock, minutes, version, listed, session, revokedAt, savedAt, saves>>
      /\ setting' \in {setting, Cached(call[q].seen)}
      /\ versionCache' \in {versionCache, Cached(call[q].seen)}
      /\ listedCache' \in {listedCache, [listedCache EXCEPT ![call[q].session] = Cached(call[q].seen)]}
      /\ activeAt' \in {activeAt, clock}
      /\ stamp' = stamp \/ (call[q].at = "touch" /\ stamp' = call[q].seen)
      /\ Read \/ ReadFails
  BY DEF ReadVersion, KeepVersion, ReadListed, KeepListed, ReadSetting, KeepSetting, Enforce, Touch,
         Answer, JudgeVersion, JudgeListed, UseSetting, Accept, Refuse, Read
<1>3. \/ call' = [call EXCEPT ![q] = Idle]
      \/ \E a \in Step \ {"touch"}, v \in Nat : Goto(q, a, v)
      \/ clock \in Nat /\ Goto(q, "touch", clock)
  BY <1>1 DEF ReadVersion, KeepVersion, ReadListed, KeepListed, ReadSetting, KeepSetting, Enforce,
         Touch, Answer, JudgeVersion, JudgeListed, UseSetting, Accept, Refuse, Step
<1>4. /\ call' \in [Call -> CallType]
      /\ \A r \in Call : call'[r].at = "touch" => call'[r].seen \in Times
  BY <1>2, <1>3, RequestTyped
<1>5. setting' \in Entry /\ versionCache' \in Entry /\ listedCache' \in [Session -> Entry]
  <2>1. Cached(call[q].seen) \in Entry BY <1>1 DEF Cached
  <2> QED BY <1>1, <1>2, <2>1
<1>6. /\ stamp' \in Times /\ activeAt' \in Times
      /\ readFaults' \in 0..MaxReadFaults
  BY <1>1, <1>2 DEF SessionTyped, SessionAssumption, Read, ReadFails
<1> QED BY <1>2, <1>4, <1>5, <1>6
        DEF SessionTyped, SessionTypeOK, CallType, Step, Times

\* Everything else happens at the clock's time.
LEMMA AccountStaysTyped ==
    ASSUME SessionAssumption, SessionTyped,
           \/ \E s \in Session : Login(s) \/ Logout(s) \/ \E q \in Call : Ask(q, s)
           \/ RevokeSessions
           \/ \E m \in IdleLimit : SessionIdleSave(m)
           \/ TimePasses
    PROVE  SessionTyped'
<1> USE DEF SessionAssumption, SessionTyped, SessionTypeOK
<1>1. ASSUME NEW s \in Session, Login(s) PROVE SessionTyped' BY <1>1 DEF Login
<1>2. ASSUME NEW s \in Session, Logout(s) PROVE SessionTyped' BY <1>2 DEF Logout
<1>3. ASSUME NEW s \in Session, NEW q \in Call, Ask(q, s) PROVE SessionTyped'
  BY <1>3 DEF Ask
<1>4. CASE RevokeSessions
  <2>1. revokedAt' \in [Session -> 0..Horizon] /\ version' \in 1..MaxVersions
    BY <1>4 DEF RevokeSessions
  <2> QED BY <1>4, <2>1 DEF RevokeSessions
<1>5. ASSUME NEW m \in IdleLimit, SessionIdleSave(m) PROVE SessionTyped'
  BY <1>5 DEF SessionIdleSave, Uncached, Never
<1>6. CASE TimePasses BY <1>6 DEF TimePasses
<1> QED BY <1>1, <1>2, <1>3, <1>4, <1>5, <1>6

(***************************************************************************)
(* The account, its caches and the requests in flight keep their types;    *)
(* no time lies beyond the clock's end.                                    *)
(***************************************************************************)
THEOREM SessionTypeCorrect == ASSUME SessionAssumption PROVE SessionSpec => []SessionTypeOK
<1>1. SessionInit => SessionTyped
  BY DEF SessionAssumption, SessionInit, SessionTyped, SessionTypeOK, Uncached, Idle, Never
<1>2. SessionTyped /\ [SessionNext]_sessionVars => SessionTyped'
  <2> SUFFICES ASSUME SessionTyped, [SessionNext]_sessionVars PROVE SessionTyped' OBVIOUS
  <2>1. CASE UNCHANGED sessionVars BY <2>1 DEF sessionVars, SessionTyped, SessionTypeOK
  <2> QED BY <2>1, RequestStaysTyped, AccountStaysTyped DEF SessionNext
<1>3. SessionTyped => SessionTypeOK BY DEF SessionTyped
<1> QED BY <1>1, <1>2, <1>3, PTL DEF SessionSpec

-----------------------------------------------------------------------------
(***************************************************************************)
(* The mailbox copies' inductive invariant: who has a job in hand, and     *)
(* which row the copies at work are of.                                    *)
(***************************************************************************)
State == {"none", "queued", "running", "done", "failed", "cancelled"}

MailTypes ==
    /\ job \in [Job -> [state : State, mailbox : Mailbox \cup {NoMailbox}]]
    /\ nextJob \in 1..(MaxJobs + 1)
    /\ queue \in Seq(Job)
    /\ worker \in [Worker -> [at : {"idle", "claim", "remember", "copy", "forget"}, job : Nat]]
    /\ ask \in [Request -> [at : {"idle", "push", "stop", "close"}, job : Nat]]

Busy(w)    == worker[w].at # "idle"
Pushing(r) == ask[r].at = "push"

\* What is on its way to a copy, or past it, has been inserted.
Known ==
    /\ \A i \in DOMAIN queue : queue[i] < nextJob
    /\ \A w \in Worker : Busy(w) => worker[w].job \in Job /\ worker[w].job < nextJob
    /\ \A r \in Request : Pushing(r) => ask[r].job \in Job /\ ask[r].job < nextJob

(***************************************************************************)
(* A job is in one hand: with the request that inserted it, then once on   *)
(* the queue, then with one worker.                                        *)
(***************************************************************************)
OneHand ==
    /\ \A i, k \in DOMAIN queue : queue[i] = queue[k] => i = k
    /\ \A w, v \in Worker : Busy(w) /\ Busy(v) /\ worker[w].job = worker[v].job => w = v
    /\ \A r, s \in Request : Pushing(r) /\ Pushing(s) /\ ask[r].job = ask[s].job => r = s
    /\ \A i \in DOMAIN queue, w \in Worker : Busy(w) => queue[i] # worker[w].job
    /\ \A i \in DOMAIN queue, r \in Request : Pushing(r) => queue[i] # ask[r].job
    /\ \A w \in Worker, r \in Request : Busy(w) /\ Pushing(r) => worker[w].job # ask[r].job

\* The unique index over the active mailbox; an active row has been inserted.
OneActiveRow ==
    /\ \A i, j \in Job :
           job[i].state \in Active /\ job[j].state \in Active
           /\ job[i].mailbox = job[j].mailbox => i = j
    /\ \A j \in Job : job[j].state \in Active => j < nextJob

\* The row of a copy says so, unless a cancel closed it over the copy.
CopyHasItsRow ==
    \A w \in Worker :
        Copying(w) => job[worker[w].job].state = "running" \/ worker[w].job \in raced

MailInv == MailTypes /\ Known /\ OneHand /\ OneActiveRow /\ CopyHasItsRow

-----------------------------------------------------------------------------
\* Nothing has been asked for.
LEMMA MailStarts == ASSUME MigrationAssumption, MailInit PROVE MailInv
<1> USE DEF MigrationAssumption, MailInit, Resting
<1>1. MailTypes BY DEF MailTypes, State, Job
<1>2. Known /\ OneHand BY DEF Known, OneHand, Busy, Pushing
<1>3. OneActiveRow BY DEF OneActiveRow, Active
<1>4. CopyHasItsRow BY DEF CopyHasItsRow, Copying
<1> QED BY <1>1, <1>2, <1>3, <1>4 DEF MailInv

\* A row that is closed frees its mailbox, and is no copy's unless it was raced.
LEMMA CloseKeepsRows ==
    ASSUME MailInv, NEW j \in Job, NEW s \in State \ Active, Close(j, s),
           UNCHANGED nextJob
    PROVE  /\ job' \in [Job -> [state : State, mailbox : Mailbox \cup {NoMailbox}]]
           /\ OneActiveRow'
           /\ \A i \in Job \ {j} : job'[i] = job[i]
<1>1. /\ job' \in [Job -> [state : State, mailbox : Mailbox \cup {NoMailbox}]]
      /\ \A i \in Job \ {j} : job'[i] = job[i]
      /\ job'[j].state = s
  BY DEF MailInv, MailTypes, Close
<1>2. OneActiveRow' BY <1>1 DEF MailInv, OneActiveRow
<1> QED BY <1>1, <1>2

\* The index refuses a second active row, and the new job is in its request's hand.
LEMMA InsertKeeps ==
    ASSUME MigrationAssumption, MailInv, NEW r \in Request, NEW m \in Mailbox, Insert(r, m)
    PROVE  MailInv'
<1> USE DEF MigrationAssumption
<1>1. /\ nextJob \in Job /\ nextJob' = nextJob + 1
      /\ job' = [job EXCEPT ![nextJob] = [state |-> "queued", mailbox |-> m]]
      /\ \A j \in Job : job[j].mailbox = m => job[j].state \notin Active
      /\ ask' = [ask EXCEPT ![r] = [at |-> "push", job |-> nextJob]]
      /\ UNCHANGED <<queue, worker, raced>>
  BY DEF Insert, At
<1>2. MailTypes' BY <1>1 DEF MailInv, MailTypes, Job, State
<1>3. Known' BY <1>1 DEF MailInv, MailTypes, Known, Busy, Pushing, Job
<1>4. OneHand'
  <2>1. /\ \A i \in DOMAIN queue : queue[i] # nextJob
        /\ \A w \in Worker : Busy(w) => worker[w].job # nextJob
        /\ \A s \in Request : Pushing(s) => ask[s].job # nextJob
    BY <1>1 DEF MailInv, MailTypes, Known, Job
  <2>2. \A s \in Request : IF s = r THEN Pushing(s)' /\ ask'[s].job = nextJob
                                     ELSE ask'[s] = ask[s] /\ (Pushing(s)' <=> Pushing(s))
    BY <1>1 DEF MailInv, MailTypes, Pushing
  <2> QED BY <1>1, <2>1, <2>2 DEF MailInv, OneHand, Busy
<1>5. OneActiveRow' BY <1>1 DEF MailInv, MailTypes, OneActiveRow, Active, Job
<1>6. CopyHasItsRow'
  BY <1>1 DEF MailInv, MailTypes, Known, CopyHasItsRow, Copying, Busy, Job
<1> QED BY <1>2, <1>3, <1>4, <1>5, <1>6 DEF MailInv

\* The job goes from the request to the queue, or its row is closed or left.
LEMMA PushKeeps ==
    ASSUME MigrationAssumption, MailInv, NEW r \in Request, Push(r) PROVE MailInv'
<1> USE DEF MigrationAssumption
<1> DEFINE j == ask[r].job
<1>1. /\ Pushing(r) /\ j \in Job /\ j < nextJob
      /\ ask' = [ask EXCEPT ![r] = Resting]
      /\ UNCHANGED <<nextJob, worker, raced>>
  BY DEF Push, Rest, MailInv, Known, Pushing
<1>2. \A s \in Request : Pushing(s)' => s # r /\ Pushing(s) /\ ask'[s] = ask[s]
  BY <1>1 DEF Pushing, Resting, MailInv, MailTypes
<1>3. ask' \in [Request -> [at : {"idle", "push", "stop", "close"}, job : Nat]]
  BY <1>1 DEF MailInv, MailTypes, Resting
<1>4. \A w \in Worker : Busy(w) => worker[w].job # j BY <1>1 DEF MailInv, OneHand
<1>5. CASE queue' = Append(queue, j) /\ UNCHANGED job
  <2>1. /\ queue' \in Seq(Job) /\ Len(queue') = Len(queue) + 1
        /\ \A i \in 1..Len(queue) : queue'[i] = queue[i]
        /\ queue'[Len(queue) + 1] = j
        /\ DOMAIN queue = 1..Len(queue) /\ DOMAIN queue' = 1..(Len(queue) + 1)
        /\ Len(queue) \in Nat
    BY <1>1, <1>5 DEF MailInv, MailTypes
  <2>2. \A i \in DOMAIN queue' : \/ i \in DOMAIN queue /\ queue'[i] = queue[i]
                                 \/ i = Len(queue) + 1 /\ queue'[i] = j
    BY <2>1
  <2>3. MailTypes' BY <1>1, <1>3, <1>5, <2>1 DEF MailInv, MailTypes
  <2>4. Known' BY <1>1, <1>2, <2>2 DEF MailInv, Known, Busy
  <2>5. OneHand'
    BY <1>1, <1>2, <1>4, <2>2 DEF MailInv, OneHand, Busy
  <2>6. OneActiveRow' /\ CopyHasItsRow'
    BY <1>1, <1>5 DEF MailInv, OneActiveRow, CopyHasItsRow, Copying
  <2> QED BY <2>3, <2>4, <2>5, <2>6 DEF MailInv
<1>6. CASE UNCHANGED queue /\ (UNCHANGED job \/ Close(j, "failed"))
  <2>1. /\ job' \in [Job -> [state : State, mailbox : Mailbox \cup {NoMailbox}]]
        /\ OneActiveRow'
        /\ \A i \in Job \ {j} : job'[i] = job[i]
    <3>1. CASE UNCHANGED job BY <1>1, <3>1 DEF MailInv, MailTypes, OneActiveRow
    <3>2. CASE Close(j, "failed") BY <1>1, <3>2, CloseKeepsRows DEF State, Active
    <3> QED BY <1>6, <3>1, <3>2
  <2>2. MailTypes' BY <1>1, <1>3, <1>6, <2>1 DEF MailInv, MailTypes
  <2>3. Known' /\ OneHand' BY <1>1, <1>2, <1>6 DEF MailInv, Known, OneHand, Busy
  <2>4. CopyHasItsRow'
    BY <1>1, <1>4, <2>1 DEF MailInv, Known, CopyHasItsRow, Copying, Busy
  <2> QED BY <2>1, <2>2, <2>3, <2>4 DEF MailInv
<1> QED BY <1>5, <1>6 DEF Push

\* The head of the queue goes to the worker.
LEMMA TakeKeeps ==
    ASSUME MigrationAssumption, MailInv, NEW w \in Worker, Take(w) PROVE MailInv'
<1> USE DEF MigrationAssumption
<1>1. /\ queue # <<>> /\ queue' = Tail(queue) /\ ~Busy(w)
      /\ worker' = [worker EXCEPT ![w] = [at |-> "claim", job |-> Head(queue)]]
      /\ UNCHANGED <<job, nextJob, ask, raced>>
  BY DEF Take, Work, Busy, Resting
<1>2. /\ queue' \in Seq(Job) /\ Head(queue) = queue[1] /\ 1 \in DOMAIN queue
      /\ queue[1] \in Job
      /\ \A i \in DOMAIN queue' : /\ i + 1 \in DOMAIN queue /\ queue'[i] = queue[i + 1]
                                  /\ i \in Nat \ {0}
  BY <1>1 DEF MailInv, MailTypes
<1>3. \A v \in Worker : IF v = w THEN worker'[v].job = queue[1] /\ Busy(v)'
                                 ELSE worker'[v] = worker[v] /\ (Busy(v)' <=> Busy(v))
  BY <1>1, <1>2 DEF MailInv, MailTypes, Busy
<1>4. MailTypes' BY <1>1, <1>2 DEF MailInv, MailTypes, Job
<1>5. Known' BY <1>1, <1>2, <1>3 DEF MailInv, Known, Pushing
<1>6. OneHand'
  <2>1. \A i \in DOMAIN queue' : queue'[i] # queue[1]
    BY <1>2 DEF MailInv, OneHand
  <2>2. \A i, k \in DOMAIN queue' : queue'[i] = queue'[k] => i = k
    BY <1>2 DEF MailInv, OneHand
  <2> QED BY <1>1, <1>2, <1>3, <2>1, <2>2 DEF MailInv, OneHand, Pushing
<1>7. OneActiveRow' BY <1>1 DEF MailInv, OneActiveRow
<1>8. CopyHasItsRow' BY <1>1 DEF MailInv, MailTypes, CopyHasItsRow, Copying
<1> QED BY <1>4, <1>5, <1>6, <1>7, <1>8 DEF MailInv

\* A worker that goes on with its job, or lets it go, while the rows of the other
\* workers' copies stay as they are.
LEMMA WorkerGoesOn ==
    ASSUME MailInv, NEW w \in Worker, Busy(w),
           NEW a \in {"idle", "remember", "copy", "forget"}, NEW j \in Nat,
           worker' = [worker EXCEPT ![w] = [at |-> a, job |-> j]],
           a # "idle" => j = worker[w].job,
           job' \in [Job -> [state : State, mailbox : Mailbox \cup {NoMailbox}]],
           OneActiveRow',
           \A i \in Job \ {worker[w].job} : job'[i] = job[i],
           a \in {"remember", "copy"} => job'[j].state = "running" \/ j \in raced,
           UNCHANGED <<nextJob, queue, ask, raced>>
    PROVE  MailInv'
<1>1. MailTypes' BY DEF MailInv, MailTypes
<1>2. \A v \in Worker : Busy(v)' => Busy(v) /\ worker'[v].job = worker[v].job
  BY DEF MailInv, MailTypes, Busy
<1>3. Known' /\ OneHand' BY <1>2 DEF MailInv, Known, OneHand, Pushing
<1>4. CopyHasItsRow'
  <2> SUFFICES ASSUME NEW v \in Worker, Copying(v)'
               PROVE  job'[worker'[v].job].state = "running" \/ worker'[v].job \in raced
    BY DEF CopyHasItsRow
  <2>1. CASE v = w BY <2>1 DEF Copying, MailInv, MailTypes
  <2>2. CASE v # w
    <3>1. worker'[v] = worker[v] /\ Copying(v) /\ Busy(v)
      BY <2>2 DEF Copying, Busy, MailInv, MailTypes
    <3>2. worker[v].job \in Job \ {worker[w].job}
      BY <2>2, <3>1 DEF MailInv, Known, OneHand
    <3> QED BY <3>1, <3>2 DEF MailInv, CopyHasItsRow
  <2> QED BY <2>1, <2>2
<1> QED BY <1>1, <1>3, <1>4 DEF MailInv

\* Only a queued row is claimed, so the mailbox's active row stays its only one.
LEMMA ClaimKeeps ==
    ASSUME MigrationAssumption, MailInv, NEW w \in Worker, Claim(w) PROVE MailInv'
<1> DEFINE j == worker[w].job
<1>1. /\ Busy(w) /\ j \in Job /\ j \in Nat
      /\ UNCHANGED <<nextJob, queue, ask, raced>>
  BY DEF Claim, MailInv, MailTypes, Known, Busy
<1>2. CASE job[j].state = "queued" /\ Close(j, "running") /\ Work(w, "remember", j)
  <2>1. /\ job' \in [Job -> [state : State, mailbox : Mailbox \cup {NoMailbox}]]
        /\ OneActiveRow' /\ job'[j].state = "running"
        /\ \A i \in Job \ {j} : job'[i] = job[i]
    BY <1>1, <1>2 DEF MailInv, MailTypes, OneActiveRow, Close, Active, State
  <2> QED BY <1>1, <1>2, <2>1, WorkerGoesOn DEF Work
<1>3. CASE Work(w, "idle", 0) /\ UNCHANGED job
  <2>1. job \in [Job -> [state : State, mailbox : Mailbox \cup {NoMailbox}]] /\ OneActiveRow'
    BY <1>1, <1>3 DEF MailInv, MailTypes, OneActiveRow
  <2> QED BY <1>1, <1>3, <2>1, WorkerGoesOn DEF Work
<1> QED BY <1>2, <1>3 DEF Claim

\* The copy is remembered, and forgotten once its row is closed.
LEMMA RememberForgetKeeps ==
    ASSUME MigrationAssumption, MailInv, NEW w \in Worker, rememberJob(w) \/ forgetJob(w)
    PROVE  MailInv'
<1>1. /\ Busy(w) /\ worker[w].job \in Nat
      /\ UNCHANGED <<job, nextJob, queue, ask, raced>>
  BY DEF rememberJob, forgetJob, Busy, MailInv, MailTypes
<1>2. job \in [Job -> [state : State, mailbox : Mailbox \cup {NoMailbox}]] /\ OneActiveRow'
  BY <1>1 DEF MailInv, MailTypes, OneActiveRow
<1>3. CASE rememberJob(w)
  <2>1. job[worker[w].job].state = "running" \/ worker[w].job \in raced
    BY <1>3 DEF rememberJob, Copying, MailInv, CopyHasItsRow
  <2> QED BY <1>1, <1>2, <1>3, <2>1, WorkerGoesOn DEF rememberJob, Work
<1>4. CASE forgetJob(w) BY <1>1, <1>2, <1>4, WorkerGoesOn DEF forgetJob, Work
<1> QED BY <1>3, <1>4

\* The copy ends, and its row with it or not.
LEMMA FinishKeeps ==
    ASSUME MigrationAssumption, MailInv, NEW w \in Worker, finishJob(w) PROVE MailInv'
<1> DEFINE j == worker[w].job
<1>1. /\ Busy(w) /\ j \in Job /\ j \in Nat
      /\ Work(w, "forget", j)
      /\ UNCHANGED <<nextJob, queue, ask, raced>>
  BY DEF finishJob, MailInv, MailTypes, Known, Busy
<1>2. \/ UNCHANGED job
      \/ \E s \in {"done", "failed", "cancelled"} : Close(j, s)
  BY DEF finishJob
<1>3. /\ job' \in [Job -> [state : State, mailbox : Mailbox \cup {NoMailbox}]]
      /\ OneActiveRow'
      /\ \A i \in Job \ {j} : job'[i] = job[i]
  <2>1. CASE UNCHANGED job BY <1>1, <2>1 DEF MailInv, MailTypes, OneActiveRow
  <2>2. ASSUME NEW s \in {"done", "failed", "cancelled"}, Close(j, s)
        PROVE  /\ job' \in [Job -> [state : State, mailbox : Mailbox \cup {NoMailbox}]]
               /\ OneActiveRow'
               /\ \A i \in Job \ {j} : job'[i] = job[i]
    BY <1>1, <2>2, CloseKeepsRows DEF State, Active
  <2> QED BY <1>2, <2>1, <2>2
<1> QED BY <1>1, <1>3, WorkerGoesOn DEF Work

\* A cancel looks for the row, and stops the copy if it is remembered.
LEMMA CancelKeeps ==
    ASSUME MigrationAssumption, MailInv, NEW r \in Request,
           Stop(r) \/ \E m \in Mailbox : Cancel(r, m)
    PROVE  MailInv'
<1>1. /\ UNCHANGED <<job, nextJob, queue, worker, raced>>
      /\ \E a \in {"idle", "stop", "close"}, j \in Nat :
             ask' = [ask EXCEPT ![r] = [at |-> a, job |-> j]]
  BY DEF Stop, Cancel, At, Rest, Resting, MailInv, MailTypes, Job
<1>2. /\ ask' \in [Request -> [at : {"idle", "push", "stop", "close"}, job : Nat]]
      /\ \A s \in Request : Pushing(s)' => Pushing(s) /\ ask'[s] = ask[s]
  BY <1>1 DEF MailInv, MailTypes, Pushing
<1>3. MailTypes' BY <1>1, <1>2 DEF MailInv, MailTypes
<1>4. Known' /\ OneHand' BY <1>1, <1>2 DEF MailInv, Known, OneHand, Busy
<1>5. OneActiveRow' /\ CopyHasItsRow'
  BY <1>1 DEF MailInv, OneActiveRow, CopyHasItsRow, Copying
<1> QED BY <1>3, <1>4, <1>5 DEF MailInv

\* A row closed over a copy is noted.
LEMMA CloseCancelledKeeps ==
    ASSUME MigrationAssumption, MailInv, NEW r \in Request, CloseCancelled(r) PROVE MailInv'
<1> DEFINE j == ask[r].job
<1>1. /\ UNCHANGED <<nextJob, queue, worker>> /\ raced \subseteq raced'
      /\ ask' = [ask EXCEPT ![r] = Resting]
      /\ UNCHANGED job \/ Close(j, "cancelled")
      /\ \A w \in Worker : Copying(w) /\ worker[w].job = j => UNCHANGED job \/ j \in raced'
  BY DEF CloseCancelled, Rest
<1>2. /\ ask' \in [Request -> [at : {"idle", "push", "stop", "close"}, job : Nat]]
      /\ \A s \in Request : Pushing(s)' => Pushing(s) /\ ask'[s] = ask[s]
  BY <1>1 DEF MailInv, MailTypes, Pushing, Resting
<1>3. /\ job' \in [Job -> [state : State, mailbox : Mailbox \cup {NoMailbox}]]
      /\ OneActiveRow'
      /\ \A i \in Job \ {j} : job'[i] = job[i]
  <2>1. CASE UNCHANGED job BY <1>1, <2>1 DEF MailInv, MailTypes, OneActiveRow
  <2>2. CASE Close(j, "cancelled") /\ j \in Job
    BY <1>1, <2>2, CloseKeepsRows DEF State, Active
  <2>3. CASE Close(j, "cancelled") /\ j \notin Job
    <3>1. job' = job BY <2>3 DEF Close, MailInv, MailTypes
    <3> QED BY <2>1, <3>1
  <2> QED BY <1>1, <2>1, <2>2, <2>3
<1>4. MailTypes' BY <1>1, <1>2, <1>3 DEF MailInv, MailTypes
<1>5. Known' /\ OneHand' BY <1>1, <1>2 DEF MailInv, Known, OneHand, Busy
<1>6. CopyHasItsRow'
  <2> SUFFICES ASSUME NEW w \in Worker, Copying(w)
               PROVE  job'[worker[w].job].state = "running" \/ worker[w].job \in raced'
    BY <1>1 DEF CopyHasItsRow, Copying
  <2>1. worker[w].job \in Job BY DEF MailInv, Known, Busy, Copying
  <2>2. job[worker[w].job].state = "running" \/ worker[w].job \in raced
    BY DEF MailInv, CopyHasItsRow
  <2> QED BY <1>1, <1>3, <2>1, <2>2
<1> QED BY <1>3, <1>4, <1>5, <1>6 DEF MailInv

\* A restart leaves no copy, and queues unfinished rows once each.
LEMMA RestartKeeps ==
    ASSUME MigrationAssumption, MailInv, Restart PROVE MailInv'
<1> USE DEF MigrationAssumption
<1>1. /\ UNCHANGED nextJob
      /\ worker' = [w \in Worker |-> Resting] /\ ask' = [r \in Request |-> Resting]
  BY DEF Restart, Stopped
<1>2. /\ \A w \in Worker : ~Busy(w)' /\ ~Copying(w)'
      /\ \A r \in Request : ~Pushing(r)'
  BY <1>1 DEF Busy, Copying, Pushing, Resting
<1>3. /\ queue' \in Seq(Job)
      /\ \A i \in DOMAIN queue' : queue'[i] \in Unfinished
      /\ \A i, k \in DOMAIN queue' : queue'[i] = queue'[k] => i = k
  <2>1. CASE queue' = <<>> BY <2>1
  <2>2. ASSUME NEW kept \in BoundedSeq(Unfinished, QueueSize),
               \A i, k \in DOMAIN kept : i < k => kept[i] < kept[k], queue' = kept
        PROVE  /\ queue' \in Seq(Job)
               /\ \A i \in DOMAIN queue' : queue'[i] \in Unfinished
               /\ \A i, k \in DOMAIN queue' : queue'[i] = queue'[k] => i = k
    <3>1. PICK n \in 0..QueueSize : kept \in [1..n -> Unfinished]
      BY DEF BoundedSeq, SeqOf
    <3>2. Unfinished \subseteq Job /\ Unfinished \subseteq Int /\ n \in Nat
      BY DEF Unfinished, Job
    <3>3. DOMAIN kept = 1..n BY <3>1
    <3>4. \A i \in DOMAIN kept : kept[i] \in Unfinished BY <3>1
    <3>5. kept \in Seq(Job)
      <4>1. kept \in [1..n -> Job] BY <3>1, <3>2
      <4> QED BY <3>2, <4>1
    <3>6. ASSUME NEW i \in 1..n, NEW k \in 1..n, kept[i] = kept[k] PROVE i = k
      <4>1. kept[i] \in Int /\ kept[k] \in Int BY <3>2, <3>3, <3>4
      <4>2. ~(i < k) /\ ~(k < i) BY <2>2, <3>3, <3>6, <4>1
      <4> QED BY <4>2
    <3> QED BY <2>2, <3>3, <3>4, <3>5, <3>6
  <2> QED BY <2>1, <2>2 DEF Restart
<1>4. /\ job' \in [Job -> [state : State, mailbox : Mailbox \cup {NoMailbox}]]
      /\ \A j \in Job : /\ job'[j].mailbox = job[j].mailbox
                        /\ job'[j].state \in Active => job[j].state \in Active
  <2>1. \/ UNCHANGED job
        \/ \E s \in [Job -> State] :
               /\ \A j \in Job \ Unfinished : s[j] = job[j].state
               /\ job' = [j \in Job |-> [job[j] EXCEPT !.state = s[j]]]
    <3>1. ASSUME NEW kept \in BoundedSeq(Unfinished, QueueSize),
                 job' = [j \in Job |->
                    IF j \in ToSet(kept) THEN [job[j] EXCEPT !.state = "queued"]
                    ELSE IF j \in Unfinished THEN [job[j] EXCEPT !.state = "failed"]
                    ELSE job[j]]
          PROVE  \E s \in [Job -> State] :
                    /\ \A j \in Job \ Unfinished : s[j] = job[j].state
                    /\ job' = [j \in Job |-> [job[j] EXCEPT !.state = s[j]]]
      <4> DEFINE s == [j \in Job |-> IF j \in ToSet(kept) THEN "queued"
                                     ELSE IF j \in Unfinished THEN "failed" ELSE job[j].state]
      <4>1. ToSet(kept) \subseteq Unfinished BY DEF BoundedSeq, SeqOf, ToSet
      <4>2. s \in [Job -> State] BY DEF State, MailInv, MailTypes
      <4>3. \A j \in Job \ Unfinished : s[j] = job[j].state BY <4>1
      <4>4. \A j \in Job : job'[j] = [job[j] EXCEPT !.state = s[j]]
        BY <3>1 DEF MailInv, MailTypes
      <4>5. job' = [j \in Job |-> [job[j] EXCEPT !.state = s[j]]] BY <3>1, <4>4
      <4> HIDE DEF s
      <4> QED BY <4>2, <4>3, <4>5
    <3>2. ASSUME job' = [j \in Job |-> IF j \in Unfinished THEN [job[j] EXCEPT !.state = "queued"]
                                                           ELSE job[j]]
          PROVE  \E s \in [Job -> State] :
                    /\ \A j \in Job \ Unfinished : s[j] = job[j].state
                    /\ job' = [j \in Job |-> [job[j] EXCEPT !.state = s[j]]]
      <4> DEFINE s == [j \in Job |-> IF j \in Unfinished THEN "queued" ELSE job[j].state]
      <4>1. s \in [Job -> State] BY DEF State, MailInv, MailTypes
      <4>2. \A j \in Job \ Unfinished : s[j] = job[j].state OBVIOUS
      <4>3. \A j \in Job : job'[j] = [job[j] EXCEPT !.state = s[j]]
        BY <3>2 DEF MailInv, MailTypes
      <4>4. job' = [j \in Job |-> [job[j] EXCEPT !.state = s[j]]] BY <3>2, <4>3
      <4> HIDE DEF s
      <4> QED BY <4>1, <4>2, <4>4
    <3> QED BY <3>1, <3>2 DEF Restart
  <2>2. CASE UNCHANGED job BY <2>2 DEF MailInv, MailTypes
  <2>3. ASSUME NEW s \in [Job -> State],
               \A j \in Job \ Unfinished : s[j] = job[j].state,
               job' = [j \in Job |-> [job[j] EXCEPT !.state = s[j]]]
        PROVE  /\ job' \in [Job -> [state : State, mailbox : Mailbox \cup {NoMailbox}]]
               /\ \A j \in Job : /\ job'[j].mailbox = job[j].mailbox
                                 /\ job'[j].state \in Active => job[j].state \in Active
    <3>1. job \in [Job -> [state : State, mailbox : Mailbox \cup {NoMailbox}]]
      BY DEF MailInv, MailTypes
    <3>2. \A j \in Job : job'[j] = [job[j] EXCEPT !.state = s[j]] BY <2>3
    <3>3. \A j \in Job : /\ job'[j] \in [state : State, mailbox : Mailbox \cup {NoMailbox}]
                         /\ job'[j].state = s[j] /\ job'[j].mailbox = job[j].mailbox
      BY <2>3, <3>1, <3>2
    <3>4. \A j \in Job : s[j] \in Active => job[j].state \in Active BY <2>3 DEF Unfinished
    <3> QED BY <2>3, <3>3, <3>4
  <2> QED BY <2>1, <2>2, <2>3
<1>5. MailTypes' BY <1>1, <1>3, <1>4 DEF MailInv, MailTypes, Resting
<1>6. Known'
  <2>1. \A i \in DOMAIN queue' : queue'[i] < nextJob BY <1>3 DEF MailInv, OneActiveRow, Unfinished
  <2> QED BY <1>1, <1>2, <2>1 DEF Known
<1>7. OneHand' BY <1>2, <1>3 DEF OneHand
<1>8. OneActiveRow' BY <1>1, <1>4 DEF MailInv, OneActiveRow
<1>9. CopyHasItsRow' BY <1>2 DEF CopyHasItsRow
<1> QED BY <1>5, <1>6, <1>7, <1>8, <1>9 DEF MailInv

\* Every step of the queue keeps the invariant.
LEMMA MailStep == ASSUME MigrationAssumption, MailInv, [MailNext]_mailVars PROVE MailInv'
<1>1. CASE UNCHANGED mailVars
  BY <1>1 DEF mailVars, MailInv, MailTypes, Known, OneHand, OneActiveRow, CopyHasItsRow, Copying, Busy, Pushing
<1>2. ASSUME NEW w \in Worker, WorkerStep(w) PROVE MailInv'
  BY <1>2, TakeKeeps, ClaimKeeps, RememberForgetKeeps, FinishKeeps DEF WorkerStep
<1>3. ASSUME NEW r \in Request, RequestStep(r) PROVE MailInv'
  BY <1>3, PushKeeps, CancelKeeps, CloseCancelledKeeps DEF RequestStep
<1>4. ASSUME NEW r \in Request, NEW m \in Mailbox, Insert(r, m) \/ Cancel(r, m) PROVE MailInv'
  BY <1>4, InsertKeeps, CancelKeeps
<1> QED BY <1>1, <1>2, <1>3, <1>4, RestartKeeps DEF MailNext

(***************************************************************************)
(* One mailbox is copied once at a time, unless a cancel closed the row of *)
(* a copy that had not been remembered (startMigrationJob's unique index,  *)
(* runMigrationJob's guarded claim).                                       *)
(***************************************************************************)
THEOREM OneCopy == ASSUME MigrationAssumption PROVE MailSpec => []OneCopyPerMailbox
<1>1. MailInit => MailInv BY MailStarts
<1>2. MailInv /\ [MailNext]_mailVars => MailInv' BY MailStep
<1>3. MailInv => OneCopyPerMailbox
  <2> SUFFICES ASSUME MailInv, NEW w \in Worker, NEW v \in Worker, Copying(w), Copying(v),
                      job[worker[w].job].mailbox = job[worker[v].job].mailbox,
                      {worker[w].job, worker[v].job} \cap raced = {}
               PROVE  w = v
    BY DEF OneCopyPerMailbox
  <2>1. Busy(w) /\ Busy(v) /\ worker[w].job \in Job /\ worker[v].job \in Job
    BY DEF MailInv, Known, Busy, Copying
  <2>2. job[worker[w].job].state = "running" /\ job[worker[v].job].state = "running"
    BY DEF MailInv, CopyHasItsRow
  <2>3. worker[w].job = worker[v].job BY <2>1, <2>2 DEF MailInv, OneActiveRow, Active
  <2> QED BY <2>1, <2>3 DEF MailInv, OneHand
<1> QED BY <1>1, <1>2, <1>3, PTL DEF MailSpec

-----------------------------------------------------------------------------
(***************************************************************************)
(* Who has a job in hand: the queue, a worker about to claim it, or the    *)
(* request that inserted it.  A job that a step takes from one hand goes   *)
(* to the next, or its row is closed, claimed or noted as stranded.        *)
(***************************************************************************)
InHand(j) ==
    \/ \E k \in DOMAIN queue : queue[k] = j
    \/ \E w \in Worker : worker[w].at = "claim" /\ worker[w].job = j
    \/ \E r \in Request : Pushing(r) /\ ask[r].job = j

\* QueuedIsReachable in these terms.
Reachable == \A j \in Job : job[j].state = "queued" => j \in stranded \/ InHand(j)

\* A request that inserts a row has it in hand, and nothing else at the time.
LEMMA InsertReaches ==
    ASSUME MigrationAssumption, MailInv, Reachable,
           NEW r \in Request, NEW m \in Mailbox, Insert(r, m)
    PROVE  Reachable'
<1>1. /\ nextJob \in Job /\ job' = [job EXCEPT ![nextJob] = [state |-> "queued", mailbox |-> m]]
      /\ ask' = [ask EXCEPT ![r] = [at |-> "push", job |-> nextJob]] /\ ~Pushing(r)
      /\ UNCHANGED <<queue, worker, stranded>>
  BY DEF Insert, At, Pushing, Resting
<1>2. /\ Pushing(r)' /\ ask'[r].job = nextJob
      /\ \A s \in Request : Pushing(s) => Pushing(s)' /\ ask'[s].job = ask[s].job
  BY <1>1 DEF Pushing, MailInv, MailTypes
<1>3. \A j \in Job : j = nextJob \/ InHand(j) => InHand(j)' BY <1>1, <1>2 DEF InHand
<1>4. \A j \in Job : j # nextJob => job'[j] = job[j] BY <1>1 DEF MailInv, MailTypes
<1> QED
  <2> SUFFICES ASSUME NEW j \in Job, job'[j].state = "queued"
               PROVE  j \in stranded' \/ InHand(j)'
    BY DEF Reachable
  <2> QED BY <1>1, <1>3, <1>4 DEF Reachable

\* The request puts its job on the queue, or closes its row, or leaves it stranded.
LEMMA PushReaches ==
    ASSUME MigrationAssumption, MailInv, Reachable, NEW r \in Request, Push(r)
    PROVE  Reachable'
<1> DEFINE i == ask[r].job
<1>1. /\ i \in Job /\ ask' = [ask EXCEPT ![r] = Resting] /\ UNCHANGED worker
      /\ \/ queue' = Append(queue, i) /\ UNCHANGED <<job, stranded>>
         \/ UNCHANGED queue /\ Close(i, "failed") /\ UNCHANGED stranded
         \/ UNCHANGED <<queue, job>> /\ stranded' = stranded \cup {i}
  BY DEF Push, Rest, MailInv, Known, Pushing
<1>2. \A k \in DOMAIN queue : k \in DOMAIN queue' /\ queue'[k] = queue[k]
  <2>1. queue \in Seq(Job) BY DEF MailInv, MailTypes
  <2>2. CASE queue' = Append(queue, i) BY <1>1, <2>1, <2>2
  <2>3. CASE UNCHANGED queue BY <2>3
  <2> QED BY <1>1, <2>2, <2>3
<1>3. \A s \in Request : s # r => (Pushing(s)' <=> Pushing(s)) /\ ask'[s] = ask[s]
  BY <1>1 DEF Pushing, MailInv, MailTypes
<1>4. \A j \in Job : j # i /\ InHand(j) => InHand(j)' BY <1>1, <1>2, <1>3 DEF InHand
<1>5. CASE queue' = Append(queue, i) /\ UNCHANGED <<job, stranded>>
  <2>1. Len(queue) + 1 \in DOMAIN queue' /\ queue'[Len(queue) + 1] = i
    BY <1>1, <1>5 DEF MailInv, MailTypes
  <2>2. \A j \in Job : j = i => InHand(j)' BY <2>1 DEF InHand
  <2> QED BY <1>4, <1>5, <2>2 DEF Reachable
<1>6. CASE Close(i, "failed") /\ UNCHANGED stranded
  <2>1. \A j \in Job : job'[j].state = "queued" => j # i /\ job[j].state = "queued"
    BY <1>1, <1>6 DEF Close, MailInv, MailTypes
  <2> QED BY <1>4, <1>6, <2>1 DEF Reachable
<1>7. CASE UNCHANGED job /\ stranded' = stranded \cup {i}
  BY <1>4, <1>7 DEF Reachable
<1> QED BY <1>1, <1>5, <1>6, <1>7

\* The head of the queue goes to a worker that had none.
LEMMA TakeReaches ==
    ASSUME MigrationAssumption, MailInv, Reachable, NEW w \in Worker, Take(w)
    PROVE  Reachable'
<1>1. /\ queue # <<>> /\ queue' = Tail(queue) /\ worker[w].at = "idle"
      /\ worker' = [worker EXCEPT ![w] = [at |-> "claim", job |-> Head(queue)]]
      /\ UNCHANGED <<job, ask, stranded>>
  BY DEF Take, Work, Resting
<1>2. \A k \in DOMAIN queue :
          queue[k] = Head(queue) \/ (k - 1 \in DOMAIN queue' /\ queue'[k - 1] = queue[k])
  BY <1>1 DEF MailInv, MailTypes
<1>3. worker'[w].at = "claim" /\ worker'[w].job = Head(queue) BY <1>1 DEF MailInv, MailTypes
<1>4. \A v \in Worker : v # w => worker'[v] = worker[v] BY <1>1 DEF MailInv, MailTypes
<1>5. \A s \in Request : Pushing(s)' <=> Pushing(s) BY <1>1 DEF Pushing
<1>6. ASSUME NEW j \in Job, InHand(j) PROVE InHand(j)'
  <2>1. CASE \E k \in DOMAIN queue : queue[k] = j BY <1>2, <1>3, <2>1 DEF InHand
  <2>2. CASE \E v \in Worker : worker[v].at = "claim" /\ worker[v].job = j
    BY <1>1, <1>4, <2>2 DEF InHand
  <2>3. CASE \E s \in Request : Pushing(s) /\ ask[s].job = j
    BY <1>1, <1>5, <2>3 DEF InHand
  <2> QED BY <1>6, <2>1, <2>2, <2>3 DEF InHand
<1> QED BY <1>1, <1>6 DEF Reachable

\* A step of a worker that leaves the queue and the requests alone, and settles
\* whatever it was about to claim.
LEMMA WorkerReaches ==
    ASSUME MailInv, Reachable, NEW w \in Worker, NEW a \in {"idle", "remember", "copy", "forget"},
           NEW i \in Nat, Work(w, a, i), UNCHANGED <<queue, ask>>, stranded \subseteq stranded',
           \A j \in Job : job'[j].state = "queued" =>
               /\ job[j].state = "queued"
               /\ worker[w].at = "claim" /\ worker[w].job = j => j \in stranded'
    PROVE  Reachable'
<1>1. \A v \in Worker : v # w => worker'[v] = worker[v] BY DEF Work, MailInv, MailTypes
<1>2. \A s \in Request : Pushing(s)' <=> Pushing(s) BY DEF Pushing
<1>3. ASSUME NEW j \in Job, InHand(j), ~(worker[w].at = "claim" /\ worker[w].job = j)
      PROVE  InHand(j)'
  BY <1>1, <1>2, <1>3 DEF InHand
<1> QED
  <2> SUFFICES ASSUME NEW j \in Job, job'[j].state = "queued"
               PROVE  j \in stranded' \/ InHand(j)'
    BY DEF Reachable
  <2> QED BY <1>3 DEF Reachable

\* A row that is closed is no longer queued, and the others stay as they are.
LEMMA ClosedIsNotQueued ==
    ASSUME MailInv, NEW i, NEW state \in {"done", "failed", "cancelled"}, Close(i, state),
           NEW j \in Job, job'[j].state = "queued"
    PROVE  job[j].state = "queued"
<1>1. job \in [Job -> [state : State, mailbox : Mailbox \cup {NoMailbox}]] BY DEF MailInv, MailTypes
<1>2. CASE j = i
  <2>1. job'[j].state = state BY <1>1, <1>2 DEF Close
  <2> QED BY <2>1
<1>3. CASE j # i BY <1>1, <1>3 DEF Close
<1> QED BY <1>2, <1>3

\* The worker's steps but the first.
LEMMA WorkReaches ==
    ASSUME MigrationAssumption, MailInv, Reachable, NEW w \in Worker,
           Claim(w) \/ rememberJob(w) \/ finishJob(w) \/ forgetJob(w)
    PROVE  Reachable'
<1>1. worker[w].job \in Nat BY DEF MailInv, MailTypes
<1>2. CASE Claim(w)
  <2>1. PICK a \in {"idle", "remember"}, i \in Nat : Work(w, a, i)
    BY <1>1, <1>2 DEF Claim
  <2>2. UNCHANGED <<queue, ask>> /\ stranded \subseteq stranded' BY <1>2 DEF Claim
  <2>3. \A j \in Job : job'[j].state = "queued" =>
            /\ job[j].state = "queued"
            /\ worker[w].job = j => j \in stranded'
    BY <1>2 DEF Claim, Close, MailInv, MailTypes
  <2> QED BY <2>1, <2>2, <2>3, WorkerReaches
<1>3. CASE rememberJob(w) \/ forgetJob(w)
  <2>1. /\ worker[w].at # "claim" /\ UNCHANGED <<job, queue, ask, stranded>>
        /\ \E a \in {"idle", "copy"}, i \in Nat : Work(w, a, i)
    BY <1>1, <1>3 DEF rememberJob, forgetJob
  <2> QED BY <2>1, WorkerReaches
<1>4. CASE finishJob(w)
  <2>1. /\ worker[w].at # "claim" /\ UNCHANGED <<queue, ask>> /\ stranded \subseteq stranded'
        /\ Work(w, "forget", worker[w].job)
    BY <1>4 DEF finishJob
  <2>2. UNCHANGED job \/ \E state \in {"done", "failed", "cancelled"} : Close(worker[w].job, state)
    BY <1>4 DEF finishJob
  <2>3. \A j \in Job : job'[j].state = "queued" => job[j].state = "queued"
    BY <2>2, ClosedIsNotQueued
  <2> QED BY <1>1, <2>1, <2>3, WorkerReaches
<1> QED BY <1>2, <1>3, <1>4

\* A cancel only closes a row.
LEMMA CancelReaches ==
    ASSUME MigrationAssumption, MailInv, Reachable, NEW r \in Request,
           Stop(r) \/ CloseCancelled(r) \/ \E m \in Mailbox : Cancel(r, m)
    PROVE  Reachable'
<1>1. /\ UNCHANGED <<queue, worker, stranded>> /\ ~Pushing(r)
      /\ \E new : ask' = [ask EXCEPT ![r] = new]
  BY DEF Stop, CloseCancelled, Cancel, At, Rest, Resting, Pushing
<1>2. \A s \in Request : Pushing(s) => Pushing(s)' /\ ask'[s] = ask[s]
  BY <1>1 DEF Pushing, MailInv, MailTypes
<1>3. \A j \in Job : job'[j].state = "queued" => job[j].state = "queued"
  <2>1. UNCHANGED job \/ Close(ask[r].job, "cancelled") BY DEF Stop, CloseCancelled, Cancel
  <2> QED BY <2>1, ClosedIsNotQueued
<1>4. \A j \in Job : InHand(j) => InHand(j)' BY <1>1, <1>2 DEF InHand
<1> QED BY <1>1, <1>3, <1>4 DEF Reachable

\* A restart puts a row on the queue, closes it, or leaves it stranded.
LEMMA RestartReaches ==
    ASSUME MigrationAssumption, MailInv, Reachable, Restart PROVE Reachable'
<1>1. \A j \in Job : job[j].state = "queued" => j \in Unfinished BY DEF Unfinished, Active
<1>2. CASE /\ stranded' = Unfinished
           /\ \/ UNCHANGED job
              \/ job' = [j \in Job |-> IF j \in Unfinished THEN [job[j] EXCEPT !.state = "queued"]
                                                           ELSE job[j]]
  <2>1. \A j \in Job : job'[j].state = "queued" => j \in Unfinished
    BY <1>1, <1>2
  <2> QED BY <1>2, <2>1 DEF Reachable
<1>3. ASSUME NEW kept \in BoundedSeq(Unfinished, QueueSize), queue' = kept,
             job' = [j \in Job |->
                IF j \in ToSet(kept) THEN [job[j] EXCEPT !.state = "queued"]
                ELSE IF j \in Unfinished THEN [job[j] EXCEPT !.state = "failed"]
                ELSE job[j]]
      PROVE  Reachable'
  <2>1. \A j \in Job : job'[j].state = "queued" => j \in ToSet(kept)
    BY <1>1, <1>3 DEF MailInv, MailTypes
  <2>2. \A j \in ToSet(kept) : \E k \in DOMAIN queue' : queue'[k] = j BY <1>3 DEF ToSet
  <2> QED BY <2>1, <2>2 DEF Reachable, InHand
<1> QED BY <1>2, <1>3 DEF Restart

(***************************************************************************)
(* "Nothing claims to be queued while no worker will ever reach it"        *)
(* (resumeMigrationRow), unless a statement about the row failed.          *)
(***************************************************************************)
THEOREM QueuedRowsAreReached == ASSUME MigrationAssumption PROVE MailSpec => []QueuedIsReachable
<1>1. MailInit => MailInv /\ Reachable
  <2>1. MailInit => Reachable BY DEF MailInit, Reachable
  <2> QED BY <2>1, MailStarts
<1>2. MailInv /\ Reachable /\ [MailNext]_mailVars => MailInv' /\ Reachable'
  <2> SUFFICES ASSUME MailInv, Reachable, [MailNext]_mailVars PROVE Reachable' BY MailStep
  <2>1. CASE UNCHANGED mailVars
    <3>1. \A r \in Request : Pushing(r)' <=> Pushing(r) BY <2>1 DEF mailVars, Pushing
    <3> QED BY <2>1, <3>1 DEF mailVars, Reachable, InHand
  <2>2. ASSUME NEW w \in Worker, WorkerStep(w) PROVE Reachable'
    BY <2>2, TakeReaches, WorkReaches DEF WorkerStep
  <2>3. ASSUME NEW r \in Request, RequestStep(r) PROVE Reachable'
    BY <2>3, PushReaches, CancelReaches DEF RequestStep
  <2>4. ASSUME NEW r \in Request, NEW m \in Mailbox, Insert(r, m) \/ Cancel(r, m)
        PROVE  Reachable'
    BY <2>4, InsertReaches, CancelReaches
  <2> QED BY <2>1, <2>2, <2>3, <2>4, RestartReaches DEF MailNext
<1>3. Reachable => QueuedIsReachable
  BY DEF Reachable, InHand, QueuedIsReachable, Pushing, ToSet
<1> QED BY <1>1, <1>2, <1>3, PTL DEF MailSpec

-----------------------------------------------------------------------------
(***************************************************************************)
(* The types in full.  What the invariant does not say of them is a bound: *)
(* of the queue, of the job a worker or a request is about, of the sets of *)
(* jobs, and of the counters.                                              *)
(***************************************************************************)
MailBounds ==
    /\ Len(queue) <= QueueSize
    /\ \A w \in Worker : worker[w].job \in 0..MaxJobs
    /\ \A r \in Request : ask[r].job \in 0..MaxJobs
    /\ {cancels, told, raced, stranded} \subseteq SUBSET Job
    /\ dbFaults \in 0..MaxDbFaults /\ stops \in 0..MaxStops

\* A fault is counted up to its bound.
LEMMA FaultsStayBounded ==
    ASSUME MigrationAssumption, dbFaults \in 0..MaxDbFaults, Works \/ Fault
    PROVE  dbFaults' \in 0..MaxDbFaults
BY DEF MigrationAssumption, Works, Fault

\* A worker takes jobs from the queue, and notes those it copies or gives up.
LEMMA WorkerBounds ==
    ASSUME MigrationAssumption, MailInv, MailBounds, NEW w \in Worker, WorkerStep(w)
    PROVE  MailBounds'
<1> USE DEF MigrationAssumption, MailInv, MailTypes, MailBounds
<1>1. CASE Take(w)
  <2>1. /\ Head(queue) \in Job /\ Len(queue') <= Len(queue)
        /\ Len(queue') \in Nat /\ Len(queue) \in Nat
    BY <1>1 DEF Take
  <2>2. \A v \in Worker : worker'[v].job \in 0..MaxJobs
    BY <1>1, <2>1 DEF Take, Work, Job
  <2> QED BY <1>1, <2>1, <2>2 DEF Take
<1>2. CASE \/ Claim(w) \/ rememberJob(w) \/ finishJob(w) \/ forgetJob(w)
  <2>1. Busy(w) /\ worker[w].job \in Job
    BY <1>2 DEF Claim, rememberJob, finishJob, forgetJob, Busy, Known
  <2>2. /\ UNCHANGED <<queue, ask, raced, told, stops>>
        /\ Works \/ Fault \/ UNCHANGED dbFaults
        /\ stranded' \in {stranded, stranded \cup {worker[w].job}}
        /\ cancels' \in {cancels, cancels \cup {worker[w].job}, cancels \ {worker[w].job}}
    BY <1>2 DEF Claim, rememberJob, finishJob, forgetJob
  <2>3. \E a \in {"idle", "remember", "copy", "forget"}, j \in {0, worker[w].job} : Work(w, a, j)
    BY <1>2 DEF Claim, rememberJob, finishJob, forgetJob
  <2>4. \A v \in Worker : worker'[v].job \in 0..MaxJobs
    BY <2>1, <2>3 DEF Work, Job
  <2>5. dbFaults' \in 0..MaxDbFaults BY <2>2, FaultsStayBounded
  <2> QED BY <2>1, <2>2, <2>4, <2>5
<1> QED BY <1>1, <1>2 DEF WorkerStep

\* A request pushes, stops and closes the job it inserted or found.
LEMMA RequestBounds ==
    ASSUME MigrationAssumption, MailInv, MailBounds, NEW r \in Request,
           RequestStep(r) \/ \E m \in Mailbox : Insert(r, m) \/ Cancel(r, m)
    PROVE  MailBounds'
<1> USE DEF MigrationAssumption, MailInv, MailTypes, MailBounds
<1>1. UNCHANGED <<worker, cancels, stops>> /\ (Works \/ Fault \/ UNCHANGED dbFaults)
  BY DEF RequestStep, Push, Stop, CloseCancelled, Insert, Cancel
<1>2. dbFaults' \in 0..MaxDbFaults BY <1>1, FaultsStayBounded
<1>3. \A s \in Request : ask'[s].job \in 0..MaxJobs
  <2>1. PICK a \in {"idle", "push", "stop", "close"}, j \in 0..MaxJobs :
            ask' = [ask EXCEPT ![r] = [at |-> a, job |-> j]]
    <3>1. CASE RequestStep(r)
      BY <3>1 DEF RequestStep, Push, Stop, CloseCancelled, At, Rest, Resting
    <3>2. CASE \E m \in Mailbox : Insert(r, m) \/ Cancel(r, m)
      BY <3>2 DEF Insert, Cancel, At, Job
    <3> QED BY <3>1, <3>2
  <2> QED BY <2>1
<1>4. Len(queue') <= QueueSize /\ stranded' \subseteq Job
  <2>1. CASE Push(r)
    <3>1. Len(queue) \in Nat /\ ask[r].job \in Job BY <2>1 DEF Push, Known, Pushing
    <3>2. CASE queue' = Append(queue, ask[r].job) /\ Len(queue) < QueueSize /\ UNCHANGED stranded
      <4>1. Len(queue') = Len(queue) + 1 BY <3>1, <3>2
      <4> QED BY <3>1, <3>2, <4>1
    <3>3. CASE UNCHANGED queue /\ stranded' \in {stranded, stranded \cup {ask[r].job}}
      BY <3>1, <3>3
    <3> QED BY <2>1, <3>2, <3>3 DEF Push
  <2>2. CASE ~Push(r)
    BY <2>2 DEF RequestStep, Stop, CloseCancelled, Insert, Cancel
  <2> QED BY <2>1, <2>2
<1>5. told' \subseteq Job /\ raced' \subseteq Job
  <2>1. told' \in {told, told \cup (cancels \cap {ask[r].job})}
    BY DEF RequestStep, Push, Stop, CloseCancelled, Insert, Cancel
  <2>2. \/ UNCHANGED raced
        \/ \E w \in Worker : Copying(w) /\ raced' = raced \cup {worker[w].job}
    BY DEF RequestStep, Push, Stop, CloseCancelled, Insert, Cancel
  <2>3. \A w \in Worker : Copying(w) => worker[w].job \in Job BY DEF Known, Busy, Copying
  <2> QED BY <2>1, <2>2, <2>3
<1> QED BY <1>1, <1>2, <1>3, <1>4, <1>5

\* A restart queues as many rows as the queue holds.
LEMMA RestartBounds ==
    ASSUME MigrationAssumption, MailInv, MailBounds, Restart PROVE MailBounds'
<1> USE DEF MigrationAssumption, MailBounds
<1>1. /\ \A w \in Worker : worker'[w].job = 0
      /\ \A r \in Request : ask'[r].job = 0
      /\ cancels' = {} /\ told' = {} /\ UNCHANGED raced
      /\ stops' \in 0..MaxStops
      /\ stranded' \in {{}, Unfinished}
  BY DEF Restart, Stopped, Resting
<1>2. dbFaults' \in 0..MaxDbFaults BY FaultsStayBounded DEF Restart
<1>3. Len(queue') <= QueueSize
  <2>1. CASE queue' = <<>> BY <2>1
  <2>2. ASSUME NEW kept \in BoundedSeq(Unfinished, QueueSize), queue' = kept
        PROVE  Len(queue') <= QueueSize
    <3>1. PICK n \in 0..QueueSize : kept \in [1..n -> Unfinished] BY DEF BoundedSeq, SeqOf
    <3>2. kept \in Seq(Unfinished) /\ Len(kept) = n BY <3>1
    <3> QED BY <2>2, <3>2
  <2> QED BY <2>1, <2>2 DEF Restart
<1> QED BY <1>1, <1>2, <1>3 DEF Unfinished

(***************************************************************************)
(* The rows, the queue, the workers and the requests keep their types, and *)
(* the queue its bound (maxQueuedMigrations).                              *)
(***************************************************************************)
THEOREM MailTypeCorrect == ASSUME MigrationAssumption PROVE MailSpec => []MailTypeOK
<1>1. MailInit => MailInv /\ MailBounds
  <2> SUFFICES ASSUME MailInit PROVE MailBounds BY MailStarts
  <2> QED BY DEF MigrationAssumption, MailInit, MailBounds, Resting
<1>2. MailInv /\ MailBounds /\ [MailNext]_mailVars => MailInv' /\ MailBounds'
  <2> SUFFICES ASSUME MailInv, MailBounds, [MailNext]_mailVars PROVE MailBounds' BY MailStep
  <2>1. CASE UNCHANGED mailVars BY <2>1 DEF mailVars, MailBounds
  <2> QED BY <2>1, WorkerBounds, RequestBounds, RestartBounds DEF MailNext
<1>3. MailInv /\ MailBounds => MailTypeOK
  <2> SUFFICES ASSUME MailInv, MailBounds PROVE MailTypeOK OBVIOUS
  <2>1. queue \in BoundedSeq(Job, QueueSize)
    <3>1. queue \in [1..Len(queue) -> Job] /\ Len(queue) \in 0..QueueSize
      BY DEF MigrationAssumption, MailInv, MailTypes, MailBounds
    <3> QED BY <3>1 DEF BoundedSeq, SeqOf
  <2>2. /\ worker \in [Worker -> [at : {"idle", "claim", "remember", "copy", "forget"},
                                  job : 0..MaxJobs]]
        /\ ask \in [Request -> [at : {"idle", "push", "stop", "close"}, job : 0..MaxJobs]]
    BY DEF MailInv, MailTypes, MailBounds
  <2> QED BY <2>1, <2>2 DEF MailInv, MailTypes, MailBounds, MailTypeOK, State
<1> QED BY <1>1, <1>2, <1>3, PTL DEF MailSpec
=============================================================================
