------------------------ MODULE BackupScheduleProofs ------------------------
(***************************************************************************)
(* The schedule for any number of domains, frequencies, hours, outages,    *)
(* failing backups, scans and passes of the operator: the types, and the   *)
(* deadline by which a missed backup is caught up.                         *)
(***************************************************************************)
EXTENDS BackupSchedule, FiniteSetTheorems, TLAPS

\* The longest a backup takes, the backups of all domains, and a whole pass.
Longest == Max(Durations)
Round   == Longest * Cardinality(Domain)
Whole   == LongestScan + Round

\* From when on the next backup of a domain is owed; by when a pass that will see
\* this begins; by when, if a scan makes that one useless, one without a scan
\* does; and by when the backup is there.
Owed(d)   == Max({last[d] + Period(Frequency[d]), free[d]})
First(d)  == Owed(d) + OneHour + Whole
Second(d) == First(d) + LongestScan + OneHour
Late(d)   == Second(d) + Round

\* The longest that a pass of these parts still takes, and the ticker's does.
AheadOf(r, D, w, t) ==
    IF r # NotReading THEN r.until - t + Round
    ELSE IF D = Off THEN 0
    ELSE IF w = NoBackup THEN Longest * Cardinality(D)
    ELSE w.until - t + Longest * (Cardinality(D) - 1)
Ahead == AheadOf(reading["ticker"], due["ticker"], working["ticker"], now)

\* When the ticker's next pass begins, if none is under way.
NextPass == IF pending THEN now ELSE IF tickAt = NotYet THEN now + OneHour ELSE tickAt

(***************************************************************************)
(* The inductive invariant.  A backup is one of its pass and ends in time, *)
(* and so does what precedes the list; the next tick is an hour away at    *)
(* most; an owed backup is on its way.                                     *)
(***************************************************************************)
WorkInTime ==
    \A p \in Pass : working[p] # NoBackup =>
        /\ due[p] # Off /\ working[p].domain \in due[p]
        /\ now <= working[p].until /\ working[p].until <= now + Longest

\* A pass whose list waits for more than no time began a scan, which is the last.
ScanInTime ==
    \A p \in Pass : Reading(p) =>
        /\ due[p] = Off /\ reading[p].since \in Nat /\ reading[p].until \in Nat
        /\ reading[p].since <= now /\ now <= reading[p].until
        /\ reading[p].until <= reading[p].since + LongestScan
        /\ reading[p].until # reading[p].since =>
               scannedAt # NotYet /\ reading[p].since <= scannedAt

TickIsNear == tickAt # NotYet => now <= tickAt /\ tickAt <= now + OneHour

\* Before the first tick that finds it due, that tick waits for the pass that is
\* under way, or is the first after the panel's first pass; or the pass is about
\* to begin, for the first time or, without a scan, for the second; or it is
\* about to read its list, or has the domain in it; or the run is at work that
\* made the pass skip the domain.
Ticks(d)    == tickAt # NotYet /\ tickAt <= Owed(d) + OneHour
StartsUp(d) == tickAt = NotYet /\ now + Ahead <= Owed(d) + Whole
Waits(d)    == pending /\ now + Ahead <= First(d)
Begins(d)   == /\ AtRest("ticker")
               /\ \/ NextPass <= First(d)
                  \/ /\ NextPass <= Second(d)
                     /\ scannedAt # NotYet /\ NextPass - scannedAt < ScanPeriod
ToList(d)     == /\ Reading("ticker") /\ Owed(d) <= reading["ticker"].since
               /\ \/ reading["ticker"].since <= First(d)
                  \/ /\ reading["ticker"].since <= Second(d)
                     /\ reading["ticker"].until = reading["ticker"].since
OnList(d)   == due["ticker"] # Off /\ d \in due["ticker"] /\ now + Ahead <= Late(d)
RunAtWork(d)   == \E p \in Pass : working[p].domain = d /\ working[p].until <= Late(d)

Comes(d) == \/ Ticks(d) \/ StartsUp(d) \/ Waits(d) \/ Begins(d)
            \/ ToList(d) \/ OnList(d) \/ RunAtWork(d)

OwedComes == \A d \in Domain : last[d] # NotYet => Comes(d)

ScheduleInv == ScheduleTypeOK /\ WorkInTime /\ ScanInTime /\ TickIsNear /\ OwedComes

-----------------------------------------------------------------------------
\* The durations and the lists.

\* The maximum of two numbers.
LEMMA MaxOfTwo ==
    ASSUME NEW a \in Int, NEW b \in Int
    PROVE  Max({a, b}) = IF a >= b THEN a ELSE b
<1> DEFINE m == IF a >= b THEN a ELSE b
<1>1. m \in {a, b} /\ \A y \in {a, b} : m >= y OBVIOUS
<1>2. \A x \in {a, b} : (\A y \in {a, b} : x >= y) => x = m OBVIOUS
<1> QED BY <1>1, <1>2 DEF Max

\* A backup takes one quarter or two, and none takes longer than the longest.
LEMMA LongestIs ==
    ASSUME ScheduleAssumption
    PROVE  (Longest = 1 \/ Longest = 2) /\ \A q \in Durations : q \in {1, 2} /\ q <= Longest
<1>1. Durations \subseteq {1, 2} /\ Durations # {} BY DEF ScheduleAssumption
<1>2. \E x \in Durations : \A y \in Durations : x >= y
  <2>1. CASE 2 \in Durations BY <1>1, <2>1
  <2>2. CASE 2 \notin Durations
    <3>1. Durations = {1} BY <1>1, <2>2
    <3> QED BY <3>1
  <2> QED BY <2>1, <2>2
<1>3. Longest \in Durations /\ \A y \in Durations : Longest >= y BY <1>2 DEF Longest, Max
<1> QED BY <1>1, <1>3

\* The lists of a pass are finite, and no longer than the longest.
LEMMA ListsAreFinite ==
    ASSUME ScheduleAssumption, NEW D \in SUBSET Domain
    PROVE  /\ IsFiniteSet(D) /\ Cardinality(D) \in Nat
           /\ Cardinality(Domain) \in Nat /\ Cardinality(D) <= Cardinality(Domain)
           /\ \A d \in D : /\ Cardinality(D) >= 1
                           /\ Cardinality(D \ {d}) = Cardinality(D) - 1
<1>1. IsFiniteSet(Domain) BY DEF ScheduleAssumption
<1>2. IsFiniteSet(D) /\ Cardinality(D) <= Cardinality(Domain) BY <1>1, FS_Subset
<1>3. Cardinality(D) \in Nat /\ Cardinality(Domain) \in Nat BY <1>1, <1>2, FS_CardinalityType
<1>4. ASSUME NEW d \in D
      PROVE  Cardinality(D) >= 1 /\ Cardinality(D \ {d}) = Cardinality(D) - 1
  <2>1. IsFiniteSet(D \ {d}) /\ Cardinality(D \ {d}) = Cardinality(D) - 1
    BY <1>2, FS_RemoveElement
  <2>2. Cardinality(D \ {d}) \in Nat BY <2>1, FS_CardinalityType
  <2> QED BY <1>3, <2>1, <2>2
<1> QED BY <1>2, <1>3, <1>4

\* A domain's slot comes round every day, so that a domain that is owed a backup
\* is due.
LEMMA OwedIsDue ==
    ASSUME ScheduleAssumption, ScheduleTypeOK, NEW d \in Domain, last[d] # NotYet,
           NEW t \in Nat, t >= Owed(d)
    PROVE  backupDue(t, d)
<1>1. /\ last[d] \in Nat /\ free[d] \in Nat /\ Hour[d] \in 0..23
      /\ Frequency[d] \in {"daily", "weekly"}
  BY DEF ScheduleTypeOK, ScheduleAssumption, NotYet
<1>2. /\ minimumInterval(Frequency[d]) \in Nat /\ Period(Frequency[d]) \in Nat
      /\ minimumInterval(Frequency[d]) <= Period(Frequency[d]) /\ Period(Frequency[d]) >= Day
  BY <1>1 DEF minimumInterval, Period, Day, OneHour
<1>3. t >= last[d] + Period(Frequency[d])
  <2>1. Owed(d) = IF last[d] + Period(Frequency[d]) >= free[d]
                  THEN last[d] + Period(Frequency[d]) ELSE free[d]
    BY <1>1, <1>2, MaxOfTwo DEF Owed
  <2> QED BY <1>1, <1>2, <2>1
<1>4. lastHourSlot(t, Hour[d]) > t - Day
  <2>1. (t \div 96) * 96 \in Int /\ (t \div 96) * 96 > t - 96 BY <1>1
  <2>2. Day = 96 /\ OneHour = 4 BY DEF Day, OneHour
  <2> DEFINE k == (t \div 96) * 96
  <2>3. lastHourSlot(t, Hour[d]) = IF k + Hour[d] * 4 > t THEN k + Hour[d] * 4 - 96
                                     ELSE k + Hour[d] * 4
    BY <1>1 DEF lastHourSlot, Day, OneHour
  <2>4. k \in Int /\ k > t - 96 BY <2>1
  <2>5. Hour[d] \in Nat /\ t \in Nat BY <1>1
  <2> HIDE DEF k
  <2> QED BY <2>2, <2>3, <2>4, <2>5
<1>5. lastHourSlot(t, Hour[d]) \in Int
  <2>1. (t \div Day) \in Int BY <1>1 DEF Day, OneHour
  <2> QED BY <1>1, <2>1 DEF lastHourSlot, Day, OneHour
<1> QED BY <1>1, <1>2, <1>3, <1>4, <1>5 DEF backupDue, Day, OneHour

\* What a step does to the time from which a backup is owed.
LEMMA OwedIs ==
    ASSUME ScheduleAssumption, ScheduleTypeOK, ScheduleTypeOK', NEW d \in Domain
    PROVE  /\ Owed(d) \in Int /\ Owed(d)' \in Int
           /\ Owed(d)' >= free'[d]
           /\ last'[d] # NotYet => Owed(d)' >= last'[d] + Day
           /\ last'[d] = last[d] /\ free'[d] = free[d] => Owed(d)' = Owed(d)
<1>1. /\ last[d] \in Int /\ last'[d] \in Int /\ free[d] \in Int /\ free'[d] \in Int
      /\ Frequency[d] \in {"daily", "weekly"}
  BY DEF ScheduleTypeOK, ScheduleAssumption, NotYet
<1> DEFINE P == Period(Frequency[d])
<1>2. P \in Int /\ P >= Day /\ Day \in Int BY <1>1 DEF minimumInterval, Period, Day, OneHour
<1> HIDE DEF P
<1>3. Owed(d) = IF last[d] + P >= free[d] THEN last[d] + P ELSE free[d]
  <2>1. last[d] + P \in Int BY <1>1, <1>2
  <2> QED BY <1>1, <2>1, MaxOfTwo DEF Owed, P
<1>4. Owed(d)' = IF last'[d] + P >= free'[d] THEN last'[d] + P ELSE free'[d]
  <2>1. last'[d] + P \in Int BY <1>1, <1>2
  <2>2. Owed(d)' = Max({last'[d] + P, free'[d]}) BY DEF Owed, P
  <2> QED BY <1>1, <2>1, <2>2, MaxOfTwo
<1> QED BY <1>1, <1>2, <1>3, <1>4

\* What a step that leaves the domain alone does to its deadlines: nothing.
LEMMA Deadlines ==
    ASSUME ScheduleAssumption, ScheduleTypeOK, ScheduleTypeOK', NEW d \in Domain
    PROVE  /\ Round \in Nat /\ LongestScan \in 0..72 /\ Whole = LongestScan + Round
           /\ Owed(d) \in Int /\ First(d) = Owed(d) + 4 + Whole
           /\ Second(d) = First(d) + LongestScan + 4 /\ Late(d) = Second(d) + Round
           /\ Whole' = Whole
           /\ last'[d] = last[d] /\ free'[d] = free[d] =>
                  /\ Owed(d)' = Owed(d) /\ First(d)' = First(d)
                  /\ Second(d)' = Second(d) /\ Late(d)' = Late(d)
<1>1. Cardinality(Domain) \in Nat
  <2>1. {} \in SUBSET Domain OBVIOUS
  <2> QED BY <2>1, ListsAreFinite
<1>2. Round \in Nat /\ LongestScan \in 0..72 /\ Whole = LongestScan + Round
  BY <1>1, LongestIs DEF Round, Whole, ScheduleAssumption
<1>3. Round' = Round /\ Whole' = Whole BY DEF Round, Whole, Longest
<1>4. Owed(d) \in Int BY OwedIs
<1>5. ASSUME last'[d] = last[d], free'[d] = free[d]
      PROVE  /\ Owed(d)' = Owed(d) /\ First(d)' = First(d)
             /\ Second(d)' = Second(d) /\ Late(d)' = Late(d)
  <2>1. Owed(d)' = Owed(d) BY <1>5, OwedIs
  <2>2. First(d)' = First(d) BY <1>3, <2>1 DEF First
  <2>3. Second(d)' = Second(d) BY <2>2 DEF Second
  <2>4. Late(d)' = Late(d) BY <1>3, <2>3 DEF Late
  <2> QED BY <2>1, <2>2, <2>3, <2>4
<1> QED BY <1>2, <1>3, <1>4, <1>5 DEF First, Second, Late, OneHour

\* What is left of a pass is never more than a whole one.
LEMMA PartsAhead ==
    ASSUME ScheduleAssumption, NEW t \in Nat,
           NEW r, NEW D \in {Off} \cup ((SUBSET Domain) \ {{}}), NEW w,
           r # NotReading => /\ r.since \in Nat /\ r.until \in Nat /\ r.since <= t
                             /\ t <= r.until /\ r.until <= r.since + LongestScan,
           w # NoBackup => w.until \in Nat /\ t <= w.until /\ w.until <= t + Longest
    PROVE  /\ Round \in Nat /\ Whole = LongestScan + Round /\ LongestScan \in 0..72
           /\ AheadOf(r, D, w, t) \in Nat /\ AheadOf(r, D, w, t) <= Whole
           /\ D = Off /\ r = NotReading => AheadOf(r, D, w, t) = 0
           /\ r = NotReading => AheadOf(r, D, w, t) <= Round
<1> DEFINE A == AheadOf(r, D, w, t)
           n == Cardinality(Domain)
<1>1. Longest = 1 \/ Longest = 2 BY LongestIs
<1>2. n \in Nat
  <2>1. {} \in SUBSET Domain OBVIOUS
  <2> QED BY <2>1, ListsAreFinite
<1>3. Round = Longest * n /\ Round \in Nat BY <1>1, <1>2 DEF Round
<1>4. Whole = LongestScan + Round /\ LongestScan \in 0..72
  BY DEF Whole, ScheduleAssumption
<1>5. CASE r # NotReading
  <2> DEFINE u == r.until
             s == r.since
  <2>1. u \in Nat /\ s \in Nat /\ s <= t /\ t <= u /\ u <= s + LongestScan BY <1>5
  <2>2. A = u - t + Round BY <1>5 DEF AheadOf
  <2> HIDE DEF u, s, A
  <2>3. A \in Nat /\ A <= Whole BY <1>3, <1>4, <2>1, <2>2
  <2> QED BY <1>3, <1>4, <1>5, <2>3 DEF A
<1>6. CASE r = NotReading /\ D = Off
  <2>1. A = 0 BY <1>6 DEF AheadOf
  <2> QED BY <1>3, <1>4, <2>1
<1>7. CASE r = NotReading /\ D # Off
  <2> DEFINE k == Cardinality(D)
             u == w.until - t
  <2>1. D \in SUBSET Domain /\ D # {} BY <1>7
  <2>2. k \in Nat /\ k <= n /\ k >= 1 BY <2>1, ListsAreFinite
  <2>3. w # NoBackup => u \in Nat /\ u <= Longest BY <1>1
  <2>4. A = IF w = NoBackup THEN Longest * k ELSE u + Longest * (k - 1)
    BY <1>7 DEF AheadOf
  <2> HIDE DEF n, k, A, u
  <2>5. A \in Nat /\ A <= Longest * n BY <1>1, <1>2, <2>2, <2>3, <2>4
  <2>6. A \in Nat /\ A <= Round /\ A <= Whole BY <1>3, <1>4, <2>5
  <2> QED BY <1>3, <1>4, <1>7, <2>6 DEF A
<1> QED BY <1>5, <1>6, <1>7

\* So it is with the ticker's, before a step and after it.
LEMMA AheadIs ==
    ASSUME ScheduleAssumption, ScheduleTypeOK, WorkInTime, ScanInTime
    PROVE  /\ Round \in Nat /\ Whole = LongestScan + Round /\ LongestScan \in 0..72
           /\ Ahead \in Nat /\ Ahead <= Whole
           /\ AtRest("ticker") => Ahead = 0
           /\ ~Reading("ticker") => Ahead <= Round
<1> DEFINE p == "ticker"
<1>1. p \in Pass BY DEF ScheduleAssumption
<1>2. now \in Nat /\ due[p] \in {Off} \cup ((SUBSET Domain) \ {{}})
  BY <1>1 DEF ScheduleTypeOK
<1>3. reading[p] # NotReading =>
          /\ reading[p].since \in Nat /\ reading[p].until \in Nat /\ reading[p].since <= now
          /\ now <= reading[p].until /\ reading[p].until <= reading[p].since + LongestScan
  BY <1>1 DEF ScanInTime, Reading
<1>4. working[p] # NoBackup => /\ working[p].until \in Nat /\ now <= working[p].until
                               /\ working[p].until <= now + Longest
  BY <1>1 DEF WorkInTime, ScheduleTypeOK
<1> QED BY <1>2, <1>3, <1>4, PartsAhead DEF Ahead, AtRest, Reading

LEMMA AheadWillBe ==
    ASSUME ScheduleAssumption, ScheduleTypeOK', WorkInTime', ScanInTime'
    PROVE  Ahead' \in Nat /\ Ahead' <= Whole
<1> DEFINE p == "ticker"
<1>1. p \in Pass BY DEF ScheduleAssumption
<1>2. now' \in Nat /\ due'[p] \in {Off} \cup ((SUBSET Domain) \ {{}})
  BY <1>1 DEF ScheduleTypeOK
<1>3. reading'[p] # NotReading =>
          /\ reading'[p].since \in Nat /\ reading'[p].until \in Nat
          /\ reading'[p].since <= now' /\ now' <= reading'[p].until
          /\ reading'[p].until <= reading'[p].since + LongestScan
  BY <1>1 DEF ScanInTime, Reading
<1>4. working'[p] # NoBackup => /\ working'[p].until \in Nat /\ now' <= working'[p].until
                                /\ working'[p].until <= now' + Longest
  BY <1>1 DEF WorkInTime, ScheduleTypeOK, Longest
<1>5. Ahead' = AheadOf(reading'[p], due'[p], working'[p], now')
  BY DEF Ahead, AheadOf, Round, Longest
<1> QED BY <1>2, <1>3, <1>4, <1>5, PartsAhead

\* Deadlines that follow from one another.
LEMMA Later ==
    ASSUME NEW a \in Int, NEW b \in Int, NEW c \in Int, NEW e \in Int
    PROVE  /\ a <= b + e /\ b <= c => a <= c + e
           /\ a <= b /\ b <= c => a <= c
           /\ a <= b => c + a <= c + b
OBVIOUS

\* A domain owed nothing yet is answered by the next tick.
LEMMA NotYetOwed ==
    ASSUME ScheduleAssumption, ScheduleTypeOK, ScheduleTypeOK', WorkInTime', ScanInTime',
           TickIsNear', NEW d \in Domain, Owed(d)' >= now'
    PROVE  Comes(d)'
<1> DEFINE o == Owed(d)'
           t == now'
<1>1. o \in Int /\ t \in Int /\ t <= o
  <2>1. Owed(d)' \in Int /\ now' \in Int BY OwedIs DEF ScheduleTypeOK
  <2> QED BY <2>1
<1>2. CASE tickAt' # NotYet
  <2> DEFINE k == tickAt'
  <2>1. k \in Int /\ k <= t + OneHour BY <1>2 DEF TickIsNear, ScheduleTypeOK
  <2> HIDE DEF o, t, k
  <2>2. k <= o + OneHour BY <1>1, <2>1 DEF OneHour
  <2>3. Ticks(d)' BY <1>2, <2>2 DEF Ticks, o, k, OneHour
  <2> QED BY <2>3 DEF Comes
<1>3. CASE tickAt' = NotYet
  <2> DEFINE a == Ahead'
             w == Whole'
  <2>1. a \in Nat /\ w \in Nat /\ a <= w
    <3>1. Ahead' \in Nat /\ Ahead' <= Whole BY AheadWillBe
    <3>2. Whole' = Whole /\ Whole \in Nat BY Deadlines
    <3> QED BY <3>1, <3>2
  <2> HIDE DEF o, t, a, w
  <2>2. t + a <= o + w BY <1>1, <2>1
  <2>3. StartsUp(d)' BY <1>3, <2>2 DEF StartsUp, o, t, a, w
  <2> QED BY <2>3 DEF Comes
<1> QED BY <1>2, <1>3

\* The pass that is about to begin, or to read its list, still is.
LEMMA BeginsStays ==
    ASSUME ScheduleAssumption, ScheduleTypeOK, ScheduleTypeOK', NEW d \in Domain, Begins(d),
           last'[d] = last[d], free'[d] = free[d],
           AtRest("ticker")', NextPass' = NextPass, scannedAt' >= scannedAt
    PROVE  Begins(d)'
<1> DEFINE n == NextPass
<1>1. First(d)' = First(d) /\ Second(d)' = Second(d) BY Deadlines
<1>2. scannedAt \in Nat \cup {NotYet} /\ scannedAt' \in Nat \cup {NotYet} /\ n \in Int
  BY DEF ScheduleTypeOK, NextPass, OneHour, NotYet
<1>3. n' = n OBVIOUS
<1>4. CASE n <= First(d) BY <1>1, <1>3, <1>4 DEF Begins
<1>5. CASE n <= Second(d) /\ scannedAt # NotYet /\ n - scannedAt < ScanPeriod
  <2> DEFINE s == scannedAt
             z == scannedAt'
  <2>1. s \in Nat /\ z \in Int /\ z >= s /\ n \in Int /\ n - s < 80
    BY <1>2, <1>5 DEF NotYet, ScanPeriod, OneHour
  <2> HIDE DEF n, s, z
  <2>2. z >= 0 /\ n - z < 80 BY <2>1
  <2>3. scannedAt' # NotYet /\ n - scannedAt' < ScanPeriod
    BY <2>2 DEF NotYet, ScanPeriod, OneHour, z
  <2> QED BY <1>1, <1>3, <1>5, <2>3 DEF Begins, n
<1> QED BY <1>4, <1>5 DEF Begins

LEMMA ToListStays ==
    ASSUME ScheduleAssumption, ScheduleTypeOK, ScheduleTypeOK', NEW d \in Domain, ToList(d),
           last'[d] = last[d], free'[d] = free[d], reading'["ticker"] = reading["ticker"]
    PROVE  ToList(d)'
BY Deadlines DEF ToList, Reading

\* What keeps the passes and the run under way keeps what comes.
LEMMA StillComes ==
    ASSUME ScheduleAssumption, ScheduleTypeOK, ScheduleTypeOK', NEW d \in Domain, Comes(d),
           last'[d] = last[d], free'[d] = free[d], tickAt' = tickAt,
           Ahead \in Int, Ahead' \in Int, now' + Ahead' <= now + Ahead,
           pending => pending',
           Begins(d) => Comes(d)',
           ToList(d) => Comes(d)',
           due["ticker"] # Off /\ d \in due["ticker"] =>
               \/ due'["ticker"] # Off /\ d \in due'["ticker"]
               \/ \E p \in Pass : working'[p].domain = d /\ working'[p].until <= now + Ahead,
           \A p \in Pass : working[p].domain = d => working'[p] = working[p]
    PROVE  Comes(d)'
<1> DEFINE x == now + Ahead
           y == now' + Ahead'
<1>1. /\ Owed(d)' = Owed(d) /\ First(d)' = First(d) /\ Late(d)' = Late(d) /\ Whole' = Whole
      /\ Owed(d) + Whole \in Int /\ First(d) \in Int /\ Late(d) \in Int
  <2>1. Owed(d) + Whole \in Int /\ First(d) \in Int /\ Late(d) \in Int
    <3> DEFINE o == Owed(d)
               r == Round
               w == Whole
    <3>1. o \in Int /\ r \in Int /\ w \in Int BY Deadlines
    <3>2. First(d) = o + 4 + w BY Deadlines
    <3>3. Second(d) = First(d) + LongestScan + 4 BY Deadlines
    <3>4. Late(d) = Second(d) + r /\ LongestScan \in Int BY Deadlines
    <3> HIDE DEF o, r, w
    <3>5. First(d) \in Int /\ o + w \in Int BY <3>1, <3>2
    <3>6. Late(d) \in Int BY <3>1, <3>3, <3>4, <3>5 DEF r
    <3>7. Owed(d) + Whole \in Int BY <3>5 DEF o, w
    <3> QED BY <3>5, <3>6, <3>7
  <2> QED BY <2>1, Deadlines
<1>2. x \in Int /\ y \in Int /\ y <= x /\ \A p \in Pass : working'[p].until \in Int
  <2>1. now \in Int /\ now' \in Int BY DEF ScheduleTypeOK
  <2>2. \A p \in Pass : working'[p].until \in Int BY DEF ScheduleTypeOK
  <2>3. x \in Int /\ y \in Int BY <2>1
  <2> QED BY <2>2, <2>3
<1>3. CASE Ticks(d) BY <1>1, <1>3 DEF Comes, Ticks
<1>4. CASE StartsUp(d)
  <2>1. x <= Owed(d) + Whole BY <1>4 DEF StartsUp
  <2>2. y <= Owed(d)' + Whole'
    <3> HIDE DEF x, y
    <3> QED BY <1>1, <1>2, <2>1, Later
  <2> QED BY <1>4, <2>2 DEF Comes, StartsUp
<1>5. CASE Waits(d)
  <2>1. x <= First(d) BY <1>5 DEF Waits
  <2>2. y <= First(d)'
    <3> HIDE DEF x, y
    <3> QED BY <1>1, <1>2, <2>1, Later
  <2> QED BY <1>5, <2>2 DEF Comes, Waits
<1>6. CASE OnList(d)
  <2>1. x <= Late(d) BY <1>6 DEF OnList
  <2>2. y <= Late(d)'
    <3> HIDE DEF x, y
    <3> QED BY <1>1, <1>2, <2>1, Later
  <2>3. CASE due'["ticker"] # Off /\ d \in due'["ticker"] BY <2>2, <2>3 DEF Comes, OnList
  <2>4. ASSUME NEW p \in Pass, working'[p].domain = d, working'[p].until <= now + Ahead
        PROVE  Comes(d)'
    <3> DEFINE u == working'[p].until
    <3>1. u \in Int /\ u <= x BY <1>2, <2>4
    <3>2. u <= Late(d)'
      <4> HIDE DEF u, x
      <4> QED BY <1>1, <1>2, <2>1, <3>1, Later
    <3> QED BY <2>4, <3>2 DEF Comes, RunAtWork
  <2> QED BY <1>6, <2>3, <2>4 DEF OnList
<1>7. CASE RunAtWork(d)
  <2>1. PICK p \in Pass : working[p].domain = d /\ working[p].until <= Late(d)
    BY <1>7 DEF RunAtWork
  <2>2. working'[p] = working[p] BY <2>1
  <2>3. working'[p].domain = d /\ working'[p].until <= Late(d)' BY <1>1, <2>1, <2>2
  <2> QED BY <2>3 DEF Comes, RunAtWork
<1> QED BY <1>3, <1>4, <1>5, <1>6, <1>7 DEF Comes

\* A step of a pass that leaves the ticker's reading alone, and the domain.
LEMMA PassGoesOn ==
    ASSUME ScheduleAssumption, ScheduleTypeOK, ScheduleTypeOK', NEW d \in Domain, Comes(d),
           last'[d] = last[d], free'[d] = free[d],
           now' = now, tickAt' = tickAt, pending' = pending, scannedAt' >= scannedAt,
           reading'["ticker"] = reading["ticker"],
           AtRest("ticker") => due'["ticker"] = due["ticker"],
           Ahead \in Int, Ahead' \in Int, Ahead' <= Ahead,
           due["ticker"] # Off /\ d \in due["ticker"] =>
               \/ due'["ticker"] # Off /\ d \in due'["ticker"]
               \/ \E p \in Pass : working'[p].domain = d /\ working'[p].until <= now + Ahead,
           \A p \in Pass : working[p].domain = d => working'[p] = working[p]
    PROVE  Comes(d)'
<1>1. now' + Ahead' <= now + Ahead
  <2> DEFINE a == Ahead'
             b == Ahead
  <2>1. a \in Int /\ b \in Int /\ a <= b /\ now \in Int BY DEF ScheduleTypeOK
  <2> HIDE DEF a, b
  <2>2. now + a <= now + b BY <2>1, Later
  <2> QED BY <2>2 DEF a, b
<1>2. ASSUME Begins(d) PROVE Comes(d)'
  <2>1. AtRest("ticker")' BY <1>2 DEF Begins, AtRest, Reading
  <2>2. NextPass' = NextPass BY DEF NextPass
  <2>3. Begins(d)' BY <1>2, <2>1, <2>2, BeginsStays
  <2> QED BY <2>3 DEF Comes
<1>3. ASSUME ToList(d) PROVE Comes(d)'
  <2>1. ToList(d)' BY <1>3, ToListStays
  <2> QED BY <2>1 DEF Comes
<1> QED BY <1>1, <1>2, <1>3, StillComes

\* The scans that are under way stay in time.
LEMMA ScansGoOn ==
    ASSUME ScheduleAssumption, ScheduleTypeOK, ScheduleTypeOK', ScanInTime,
           now' = now, scannedAt' >= scannedAt,
           \A p \in Pass : Reading(p)' => reading'[p] = reading[p] /\ (due[p] = Off => due'[p] = Off)
    PROVE  ScanInTime'
<1> SUFFICES ASSUME NEW p \in Pass, Reading(p)'
             PROVE  /\ due'[p] = Off /\ reading'[p].since \in Nat /\ reading'[p].until \in Nat
                    /\ reading'[p].since <= now' /\ now' <= reading'[p].until
                    /\ reading'[p].until <= reading'[p].since + LongestScan
                    /\ reading'[p].until # reading'[p].since =>
                           scannedAt' # NotYet /\ reading'[p].since <= scannedAt'
  BY DEF ScanInTime
<1>1. reading'[p] = reading[p] /\ (due[p] = Off => due'[p] = Off) OBVIOUS
<1>2. Reading(p) BY <1>1 DEF Reading
<1>3. /\ due[p] = Off /\ reading[p].since \in Nat /\ reading[p].until \in Nat
      /\ reading[p].since <= now /\ now <= reading[p].until
      /\ reading[p].until <= reading[p].since + LongestScan
      /\ reading[p].until # reading[p].since =>
             scannedAt # NotYet /\ reading[p].since <= scannedAt
  BY <1>2 DEF ScanInTime
<1>4. scannedAt \in Nat \cup {NotYet} /\ scannedAt' \in Nat \cup {NotYet} BY DEF ScheduleTypeOK
<1> QED BY <1>1, <1>3, <1>4 DEF NotYet

-----------------------------------------------------------------------------
\* The scheduler starts with a pass, and no backup owed.
LEMMA ScheduleStarts == ScheduleAssumption /\ ScheduleInit => ScheduleInv
<1> SUFFICES ASSUME ScheduleAssumption, ScheduleInit PROVE ScheduleInv
  OBVIOUS
<1>1. ScheduleTypeOK
  BY DEF ScheduleAssumption, ScheduleInit, ScheduleTypeOK, NoBackup, NotReading, NotYet
<1>2. WorkInTime BY DEF ScheduleInit, WorkInTime
<1>3. ScanInTime BY DEF ScheduleInit, ScanInTime, Reading
<1>4. TickIsNear BY DEF ScheduleInit, TickIsNear
<1>5. OwedComes BY DEF ScheduleInit, OwedComes
<1> QED BY <1>1, <1>2, <1>3, <1>4, <1>5 DEF ScheduleInv

\* The ticker is created: what waited for the first pass waits for its tick.
LEMMA CreateTickerKeeps ==
    ASSUME ScheduleAssumption, ScheduleInv, CreateTicker PROVE ScheduleInv'
<1> USE DEF ScheduleInv
<1>1. /\ tickAt = NotYet /\ ~pending /\ AtRest("ticker") /\ tickAt' = now + OneHour
      /\ now' = now /\ pending' = pending /\ reading' = reading /\ due' = due
      /\ working' = working /\ scannedAt' = scannedAt /\ last' = last /\ free' = free
      /\ outages' = outages /\ failures' = failures
  BY DEF CreateTicker
<1>2. now \in Nat BY DEF ScheduleTypeOK
<1>3. ScheduleTypeOK'
  <2>1. tickAt' \in Nat BY <1>1, <1>2 DEF OneHour
  <2> QED BY <1>1, <2>1 DEF ScheduleTypeOK
<1>4. WorkInTime' BY <1>1 DEF WorkInTime, Longest
<1>5. ScanInTime' BY <1>1 DEF ScanInTime, Reading
<1>6. TickIsNear' BY <1>1, <1>2 DEF TickIsNear, OneHour
<1>7. ASSUME NEW d \in Domain, last'[d] # NotYet PROVE Comes(d)'
  <2>1. Comes(d) BY <1>1, <1>7 DEF OwedComes
  <2>2. /\ Owed(d)' = Owed(d) /\ First(d)' = First(d) /\ Second(d)' = Second(d)
        /\ Late(d)' = Late(d) /\ Whole \in Int /\ Owed(d) \in Int /\ First(d) = Owed(d) + 4 + Whole
    BY <1>1, <1>3, Deadlines
  <2>3. NextPass = now + OneHour /\ NextPass' = now + OneHour
    BY <1>1, <1>2 DEF NextPass, NotYet, OneHour
  <2>4. CASE StartsUp(d)
    <3> DEFINE o == Owed(d)
               w == Whole
               f == First(d)
    <3>1. Ahead = 0 BY <1>1, AheadIs
    <3>2. now <= o + w
      <4>1. now + Ahead = now BY <1>2, <3>1
      <4> QED BY <2>4, <4>1 DEF StartsUp
    <3>3. now + OneHour <= f
      <4>1. o \in Int /\ w \in Int /\ f = o + 4 + w BY <2>2
      <4> HIDE DEF o, w, f
      <4> QED BY <1>2, <3>2, <4>1 DEF OneHour
    <3>4. Begins(d)' BY <1>1, <2>2, <2>3, <3>3 DEF Begins, AtRest, Reading
    <3> QED BY <3>4 DEF Comes
  <2>5. CASE Begins(d)
    <3>1. Begins(d)' BY <1>1, <2>2, <2>3, <2>5 DEF Begins, AtRest, Reading
    <3> QED BY <3>1 DEF Comes
  <2>6. CASE RunAtWork(d)
    <3>1. RunAtWork(d)' BY <1>1, <2>2, <2>6 DEF RunAtWork
    <3> QED BY <3>1 DEF Comes
  <2>7. ~Ticks(d) /\ ~Waits(d) /\ ~ToList(d) /\ ~OnList(d)
    BY <1>1 DEF Ticks, Waits, ToList, OnList, AtRest
  <2> QED BY <2>1, <2>4, <2>5, <2>6, <2>7 DEF Comes
<1> QED BY <1>3, <1>4, <1>5, <1>6, <1>7 DEF OwedComes

\* A tick: what waited for it now waits for the pass under way.
LEMMA TickFiresKeeps ==
    ASSUME ScheduleAssumption, ScheduleInv, TickFires PROVE ScheduleInv'
<1> USE DEF ScheduleInv
<1>1. /\ now = tickAt /\ tickAt' = now + OneHour /\ pending' = TRUE
      /\ now' = now /\ reading' = reading /\ due' = due /\ working' = working
      /\ scannedAt' = scannedAt /\ last' = last /\ free' = free
      /\ outages' = outages /\ failures' = failures
  BY DEF TickFires
<1>2. now \in Nat /\ tickAt # NotYet BY <1>1 DEF ScheduleTypeOK, NotYet
<1>3. ScheduleTypeOK'
  <2>1. tickAt' \in Nat BY <1>1, <1>2 DEF OneHour
  <2> QED BY <1>1, <2>1 DEF ScheduleTypeOK
<1>4. WorkInTime' BY <1>1 DEF WorkInTime, Longest
<1>5. ScanInTime' BY <1>1 DEF ScanInTime, Reading
<1>6. TickIsNear' BY <1>1, <1>2 DEF TickIsNear, OneHour
<1>7. ASSUME NEW d \in Domain, last'[d] # NotYet PROVE Comes(d)'
  <2>1. Comes(d) BY <1>1, <1>7 DEF OwedComes
  <2>2. /\ Owed(d)' = Owed(d) /\ First(d)' = First(d) /\ Second(d)' = Second(d)
        /\ Late(d)' = Late(d) /\ Whole \in Int /\ Owed(d) \in Int /\ First(d) = Owed(d) + 4 + Whole
    BY <1>1, <1>3, Deadlines
  <2>3. Ahead \in Nat /\ Ahead <= Whole BY AheadIs
  <2>4. Ahead' = Ahead BY <1>1 DEF Ahead, AheadOf, Round, Longest
  <2>5. CASE Ticks(d)
    <3> DEFINE o == Owed(d)
               w == Whole
               f == First(d)
               a == Ahead
    <3>1. now <= o + OneHour BY <1>1, <2>5 DEF Ticks
    <3>2. now + a <= f
      <4>1. /\ o \in Int /\ w \in Int /\ a \in Int /\ a <= w /\ f = o + 4 + w BY <2>2, <2>3
      <4> HIDE DEF o, w, f, a
      <4> QED BY <1>2, <3>1, <4>1 DEF OneHour
    <3>3. Waits(d)' BY <1>1, <2>2, <2>4, <3>2 DEF Waits
    <3> QED BY <3>3 DEF Comes
  <2>6. CASE Waits(d)
    <3>1. Waits(d)' BY <1>1, <2>2, <2>4, <2>6 DEF Waits
    <3> QED BY <3>1 DEF Comes
  <2>7. CASE Begins(d)
    <3>1. NextPass = now /\ NextPass' = now BY <1>1, <1>2 DEF NextPass
    <3>2. Begins(d)' BY <1>1, <2>2, <2>7, <3>1 DEF Begins, AtRest, Reading
    <3> QED BY <3>2 DEF Comes
  <2>8. CASE ToList(d)
    <3>1. ToList(d)' BY <1>1, <2>2, <2>8 DEF ToList, Reading
    <3> QED BY <3>1 DEF Comes
  <2>9. CASE OnList(d)
    <3>1. OnList(d)' BY <1>1, <2>2, <2>4, <2>9 DEF OnList
    <3> QED BY <3>1 DEF Comes
  <2>10. CASE RunAtWork(d)
    <3>1. RunAtWork(d)' BY <1>1, <2>2, <2>10 DEF RunAtWork
    <3> QED BY <3>1 DEF Comes
  <2>11. ~StartsUp(d) BY <1>2 DEF StartsUp
  <2> QED BY <2>1, <2>5, <2>6, <2>7, <2>8, <2>9, <2>10, <2>11 DEF Comes
<1> QED BY <1>3, <1>4, <1>5, <1>6, <1>7 DEF OwedComes

\* A pass that starts has a scan before it if one is due, and what the others
\* read is not disturbed.
LEMMA StartOfAPass ==
    ASSUME ScheduleAssumption, ScheduleInv, NEW p \in Pass, StartPass(p),
           now' = now, tickAt' = tickAt, due' = due, working' = working, last' = last,
           free' = free, outages' = outages, failures' = failures, pending' \in BOOLEAN
    PROVE  /\ ScheduleTypeOK' /\ WorkInTime' /\ ScanInTime' /\ TickIsNear'
           /\ AtRest(p) /\ scannedAt' >= scannedAt
           /\ \A q \in Pass : q # p => reading'[q] = reading[q]
           /\ reading'[p] # NotReading /\ reading'[p].since = now
           /\ reading'[p].until \in now..(now + LongestScan)
           /\ ~integrityScanDue => reading'[p].until = now
<1> USE DEF ScheduleInv
<1>1. PICK q \in 0..LongestScan :
          /\ integrityScanDue \/ q = 0
          /\ reading' = [reading EXCEPT ![p] = [since |-> now, until |-> now + q]]
  BY DEF StartPass
<1>2. /\ AtRest(p) /\ scannedAt' = IF integrityScanDue THEN now ELSE scannedAt
      /\ due[p] = Off
  BY DEF StartPass, AtRest
<1>3. /\ now \in Nat /\ LongestScan \in 0..72 /\ q \in Nat /\ q <= LongestScan
      /\ scannedAt \in Nat \cup {NotYet}
      /\ reading \in [Pass -> [since : Nat \cup {NotYet}, until : Nat \cup {NotYet}]]
  BY DEF ScheduleTypeOK, ScheduleAssumption
<1>4. scannedAt' >= scannedAt /\ scannedAt' \in Nat \cup {NotYet}
  BY <1>2, <1>3 DEF integrityScanDue, NotYet, ScanPeriod, OneHour
<1>5. /\ reading'[p] = [since |-> now, until |-> now + q]
      /\ \A r \in Pass : r # p => reading'[r] = reading[r]
  BY <1>1, <1>3
<1>6. now + q \in Nat /\ now <= now + q /\ now + q <= now + LongestScan BY <1>3
<1>7. reading'[p].since = now /\ reading'[p].until = now + q BY <1>5
<1>8. reading'[p] # NotReading BY <1>3, <1>7 DEF NotReading, NotYet
<1>9. ScheduleTypeOK'
  <2>1. reading' \in [Pass -> [since : Nat \cup {NotYet}, until : Nat \cup {NotYet}]]
    BY <1>1, <1>3, <1>6
  <2> QED BY <1>4, <2>1 DEF ScheduleTypeOK
<1>10. WorkInTime' BY DEF WorkInTime, Longest
<1>11. TickIsNear' BY DEF TickIsNear
<1>12. ScanInTime'
  <2> SUFFICES ASSUME NEW r \in Pass, Reading(r)'
               PROVE  /\ due'[r] = Off /\ reading'[r].since \in Nat /\ reading'[r].until \in Nat
                      /\ reading'[r].since <= now' /\ now' <= reading'[r].until
                      /\ reading'[r].until <= reading'[r].since + LongestScan
                      /\ reading'[r].until # reading'[r].since =>
                             scannedAt' # NotYet /\ reading'[r].since <= scannedAt'
    BY DEF ScanInTime
  <2>1. CASE r = p
    <3>1. now + q # now => integrityScanDue BY <1>1, <1>3
    <3>2. now + q # now => scannedAt' = now BY <1>2, <3>1
    <3>3. now # NotYet BY <1>3 DEF NotYet
    <3> QED BY <1>2, <1>3, <1>6, <1>7, <2>1, <3>2, <3>3
  <2>2. CASE r # p
    <3>1. reading'[r] = reading[r] BY <1>5, <2>2
    <3>2. Reading(r) BY <3>1 DEF Reading
    <3>3. /\ due[r] = Off /\ reading[r].since \in Nat /\ reading[r].until \in Nat
          /\ reading[r].since <= now /\ now <= reading[r].until
          /\ reading[r].until <= reading[r].since + LongestScan
          /\ reading[r].until # reading[r].since =>
                 scannedAt # NotYet /\ reading[r].since <= scannedAt
      BY <3>2 DEF ScanInTime
    <3> QED BY <1>3, <1>4, <3>1, <3>3 DEF NotYet
  <2> QED BY <2>1, <2>2
<1>13. ~integrityScanDue => reading'[p].until = now BY <1>1, <1>3, <1>7
<1> QED BY <1>2, <1>4, <1>5, <1>6, <1>7, <1>8, <1>9, <1>10, <1>11, <1>12, <1>13

\* The ticker's pass begins in time for every domain that is owed a backup; the
\* others wait for the next tick.
LEMMA StartTickerPassKeeps ==
    ASSUME ScheduleAssumption, ScheduleInv, StartTickerPass PROVE ScheduleInv'
<1> USE DEF ScheduleInv
<1> DEFINE p == "ticker"
<1>1. /\ pending /\ pending' = FALSE /\ StartPass(p) /\ p \in Pass
      /\ now' = now /\ tickAt' = tickAt /\ due' = due /\ working' = working
      /\ last' = last /\ free' = free /\ outages' = outages /\ failures' = failures
  BY DEF StartTickerPass, ScheduleAssumption
<1>2. /\ ScheduleTypeOK' /\ WorkInTime' /\ ScanInTime' /\ TickIsNear'
      /\ AtRest(p) /\ reading'[p] # NotReading /\ reading'[p].since = now
      /\ ~integrityScanDue => reading'[p].until = now
  BY <1>1, StartOfAPass
<1>3. now \in Int BY DEF ScheduleTypeOK
<1>4. ASSUME NEW d \in Domain, last'[d] # NotYet PROVE Comes(d)'
  <2>1. Comes(d) BY <1>1, <1>4 DEF OwedComes
  <2>2. /\ Owed(d)' = Owed(d) /\ First(d)' = First(d) /\ Second(d)' = Second(d)
        /\ Late(d)' = Late(d) /\ Whole \in Int /\ Owed(d) \in Int /\ First(d) = Owed(d) + 4 + Whole
    BY <1>1, <1>2, Deadlines
  <2>3. CASE Owed(d) >= now
    <3>1. Owed(d)' >= now' BY <1>1, <2>2, <2>3
    <3> QED BY <1>2, <3>1, NotYetOwed
  <2>4. CASE Owed(d) <= now
    <3>1. CASE Ticks(d)
      <4>1. Ticks(d)' BY <1>1, <2>2, <3>1 DEF Ticks
      <4> QED BY <4>1 DEF Comes
    <3>2. now <= First(d) => Comes(d)'
      <4>1. ASSUME now <= First(d) PROVE ToList(d)' BY <1>2, <2>2, <2>4, <4>1 DEF ToList, Reading
      <4> QED BY <4>1 DEF Comes
    <3>3. Ahead = 0 /\ now + Ahead = now BY <1>2, <1>3, AheadIs
    <3>4. CASE StartsUp(d)
      <4> DEFINE o == Owed(d)
                 w == Whole
                 f == First(d)
      <4>1. now <= o + w BY <3>3, <3>4 DEF StartsUp
      <4>2. now <= f
        <5>1. o \in Int /\ w \in Int /\ f = o + 4 + w BY <2>2
        <5> HIDE DEF o, w, f
        <5> QED BY <1>3, <4>1, <5>1
      <4> QED BY <3>2, <4>2
    <3>5. CASE Waits(d) BY <3>2, <3>3, <3>5 DEF Waits
    <3>6. CASE Begins(d)
      <4>1. NextPass = now BY <1>1 DEF NextPass
      <4>2. CASE now <= First(d) BY <3>2, <4>2
      <4>3. CASE now <= Second(d) /\ scannedAt # NotYet /\ now - scannedAt < ScanPeriod
        <5>1. ~integrityScanDue
          BY <1>3, <4>3 DEF integrityScanDue, ScheduleTypeOK, ScanPeriod, OneHour
        <5>2. ToList(d)' BY <1>2, <2>2, <2>4, <4>3, <5>1 DEF ToList, Reading
        <5> QED BY <5>2 DEF Comes
      <4> QED BY <3>6, <4>1, <4>2, <4>3 DEF Begins
    <3>7. CASE RunAtWork(d)
      <4>1. RunAtWork(d)' BY <1>1, <2>2, <3>7 DEF RunAtWork
      <4> QED BY <4>1 DEF Comes
    <3>8. ~ToList(d) /\ ~OnList(d) BY <1>2 DEF ToList, OnList, AtRest
    <3> QED BY <2>1, <3>1, <3>4, <3>5, <3>6, <3>7, <3>8 DEF Comes
  <2> QED BY <1>3, <2>2, <2>3, <2>4
<1> QED BY <1>2, <1>4 DEF OwedComes

\* An operator's pass leaves the ticker's alone.
LEMMA TickNowKeeps ==
    ASSUME ScheduleAssumption, ScheduleInv, NEW p \in Pass, TickNow(p) PROVE ScheduleInv'
<1> USE DEF ScheduleInv
<1>1. /\ p # "ticker" /\ "ticker" \in Pass /\ StartPass(p) /\ pending' = pending
      /\ now' = now /\ tickAt' = tickAt /\ due' = due /\ working' = working
      /\ last' = last /\ free' = free /\ outages' = outages /\ failures' = failures
      /\ pending' \in BOOLEAN
  BY DEF TickNow, ScheduleAssumption, ScheduleTypeOK
<1>2. /\ ScheduleTypeOK' /\ WorkInTime' /\ ScanInTime' /\ TickIsNear' /\ scannedAt' >= scannedAt
      /\ reading'["ticker"] = reading["ticker"]
  BY <1>1, StartOfAPass
<1>3. Ahead' = Ahead BY <1>1, <1>2 DEF Ahead, AheadOf, Round, Longest
<1>4. Ahead \in Int /\ Ahead' \in Int /\ Ahead' <= Ahead BY <1>3, AheadIs
<1>5. ASSUME NEW d \in Domain, last'[d] # NotYet PROVE Comes(d)'
  <2>1. Comes(d) BY <1>1, <1>5 DEF OwedComes
  <2> QED BY <1>1, <1>2, <1>4, <2>1, PassGoesOn
<1> QED BY <1>2, <1>5 DEF OwedComes

\* A domain of which something keeps the backup is owed none before now; nothing
\* changes for the others.
LEMMA NotBackedUpFrees ==
    ASSUME ScheduleAssumption, ScheduleTypeOK, NEW D, NotBackedUp(D)
    PROVE  /\ failures' \in 0..MaxFailures /\ free' \in [Domain -> Nat]
           /\ \A d \in Domain : IF d \in D THEN free'[d] = now ELSE free'[d] = free[d]
<1>1. /\ failures < MaxFailures /\ failures' = failures + 1
      /\ free' = [d \in Domain |-> IF d \in D THEN now ELSE free[d]]
  BY DEF NotBackedUp
<1>2. now \in Nat /\ free \in [Domain -> Nat] /\ failures \in 0..MaxFailures /\ MaxFailures \in Nat
  BY DEF ScheduleTypeOK, ScheduleAssumption
<1> QED BY <1>1, <1>2

\* The list of a pass, or part of it, is no more than a pass over all domains.
LEMMA ListIsARound ==
    ASSUME ScheduleAssumption, NEW D \in SUBSET Domain
    PROVE  Longest * Cardinality(D) \in Nat /\ Longest * Cardinality(D) <= Round
<1> DEFINE k == Cardinality(D)
           n == Cardinality(Domain)
<1>1. k \in Nat /\ n \in Nat /\ k <= n BY ListsAreFinite
<1>2. Round = Longest * n BY DEF Round
<1> HIDE DEF k, n
<1>3. Longest * k \in Nat /\ Longest * k <= Longest * n BY <1>1, LongestIs
<1> QED BY <1>2, <1>3 DEF k

\* What a pass that has read its list, or has given up, leaves to the invariant.
LEMMA TakesLeaves ==
    ASSUME ScheduleAssumption, ScheduleInv, NEW p \in Pass, NEW D \in SUBSET Domain,
           Reading(p), now >= reading[p].until, Takes(p, D),
           now' = now, tickAt' = tickAt, pending' = pending, working' = working,
           scannedAt' = scannedAt, last' = last, outages' = outages,
           free' \in [Domain -> Nat], failures' \in 0..MaxFailures
    PROVE  /\ ScheduleTypeOK' /\ WorkInTime' /\ ScanInTime' /\ TickIsNear'
           /\ due[p] = Off /\ reading'[p] = NotReading
           /\ due'[p] = IF D = {} THEN Off ELSE D
           /\ \A d \in D : due'[p] # Off /\ d \in due'[p]
           /\ \A q \in Pass : q # p => due'[q] = due[q] /\ reading'[q] = reading[q]
           /\ reading[p].until = now /\ reading[p].since \in Nat /\ reading[p].since <= now
           /\ now <= reading[p].since + LongestScan
           /\ now # reading[p].since => scannedAt # NotYet /\ reading[p].since <= scannedAt
<1> USE DEF ScheduleInv
<1> DEFINE L == IF D = {} THEN Off ELSE D
<1>1. due' = [due EXCEPT ![p] = L] /\ reading' = [reading EXCEPT ![p] = NotReading]
  BY DEF Takes
<1>2. /\ due \in [Pass -> {Off} \cup ((SUBSET Domain) \ {{}})] /\ now \in Nat
      /\ reading \in [Pass -> [since : Nat \cup {NotYet}, until : Nat \cup {NotYet}]]
      /\ scannedAt \in Nat \cup {NotYet}
  BY DEF ScheduleTypeOK
<1>3. /\ due[p] = Off /\ reading[p].since \in Nat /\ reading[p].until \in Nat
      /\ reading[p].since <= now /\ now <= reading[p].until
      /\ reading[p].until <= reading[p].since + LongestScan
      /\ reading[p].until # reading[p].since =>
             scannedAt # NotYet /\ reading[p].since <= scannedAt
  BY DEF ScanInTime
<1>4. reading[p].until = now
  <2> DEFINE u == reading[p].until
  <2>1. u \in Int /\ now \in Int /\ now <= u /\ now >= u BY <1>2, <1>3
  <2> HIDE DEF u
  <2>2. u = now BY <2>1
  <2> QED BY <2>2 DEF u
<1>5. L \in {Off} \cup ((SUBSET Domain) \ {{}}) OBVIOUS
<1>6. \A d \in D : L # Off /\ d \in L BY DEF Off, ScheduleAssumption
<1> HIDE DEF L
<1>7. /\ due'[p] = L /\ reading'[p] = NotReading
      /\ \A q \in Pass : q # p => due'[q] = due[q] /\ reading'[q] = reading[q]
  BY <1>1, <1>2
<1>8. ScheduleTypeOK'
  <2>1. due' \in [Pass -> {Off} \cup ((SUBSET Domain) \ {{}})] BY <1>1, <1>2, <1>5
  <2>2. reading' \in [Pass -> [since : Nat \cup {NotYet}, until : Nat \cup {NotYet}]]
    <3>1. NotReading \in [since : Nat \cup {NotYet}, until : Nat \cup {NotYet}]
      BY DEF NotReading
    <3> QED BY <1>1, <1>2, <3>1
  <2> QED BY <2>1, <2>2 DEF ScheduleTypeOK
<1>9. WorkInTime'
  <2>1. working[p] = NoBackup BY <1>3 DEF WorkInTime
  <2>2. Longest' = Longest BY DEF Longest
  <2> QED BY <1>7, <2>1, <2>2 DEF WorkInTime
<1>10. ScanInTime'
  <2>1. \A q \in Pass : Reading(q)' => reading'[q] = reading[q] /\ (due[q] = Off => due'[q] = Off)
    BY <1>7 DEF Reading
  <2>2. scannedAt' >= scannedAt BY <1>2 DEF NotYet
  <2> QED BY <1>8, <2>1, <2>2, ScansGoOn
<1>11. TickIsNear' BY DEF TickIsNear
<1> QED BY <1>3, <1>4, <1>6, <1>7, <1>8, <1>9, <1>10, <1>11 DEF L

\* The list is read: what is owed is on it, or something keeps it from its backup.
LEMMA dueDomainsKeeps ==
    ASSUME ScheduleAssumption, ScheduleInv, NEW p \in Pass, dueDomains(p) PROVE ScheduleInv'
<1> USE DEF ScheduleInv
<1> DEFINE listed == {d \in Domain : backupDue(reading[p].since, d)}
<1>1. /\ Reading(p) /\ now >= reading[p].until
      /\ now' = now /\ tickAt' = tickAt /\ pending' = pending /\ working' = working
      /\ scannedAt' = scannedAt /\ last' = last /\ outages' = outages
      /\ \/ Takes(p, listed) /\ UNCHANGED <<free, failures>>
         \/ \E D \in SUBSET listed : Takes(p, D) /\ NotBackedUp(listed \ D)
  BY DEF dueDomains
<1> HIDE DEF listed
<1>2. PICK D \in SUBSET Domain :
          /\ Takes(p, D) /\ free' \in [Domain -> Nat] /\ failures' \in 0..MaxFailures
          /\ \A d \in Domain : \/ free'[d] = now
                               \/ free'[d] = free[d] /\ (d \in listed => d \in D)
  <2>1. CASE Takes(p, listed) /\ UNCHANGED <<free, failures>>
    <3>1. listed \in SUBSET Domain BY DEF listed
    <3> QED BY <2>1, <3>1 DEF ScheduleTypeOK
  <2>2. ASSUME NEW D \in SUBSET listed, Takes(p, D), NotBackedUp(listed \ D)
        PROVE  /\ D \in SUBSET Domain
               /\ Takes(p, D) /\ free' \in [Domain -> Nat] /\ failures' \in 0..MaxFailures
               /\ \A d \in Domain : \/ free'[d] = now
                                    \/ free'[d] = free[d] /\ (d \in listed => d \in D)
    <3>1. D \in SUBSET Domain BY DEF listed
    <3>2. /\ free' \in [Domain -> Nat] /\ failures' \in 0..MaxFailures
          /\ \A d \in Domain : IF d \in listed \ D THEN free'[d] = now ELSE free'[d] = free[d]
      BY <2>2, NotBackedUpFrees
    <3> QED BY <2>2, <3>1, <3>2
  <2> QED BY <1>1, <2>1, <2>2
<1>3. /\ ScheduleTypeOK' /\ WorkInTime' /\ ScanInTime' /\ TickIsNear'
      /\ due[p] = Off /\ reading'[p] = NotReading
      /\ due'[p] = IF D = {} THEN Off ELSE D
      /\ \A d \in D : due'[p] # Off /\ d \in due'[p]
      /\ \A q \in Pass : q # p => due'[q] = due[q] /\ reading'[q] = reading[q]
      /\ reading[p].until = now /\ reading[p].since \in Nat /\ reading[p].since <= now
      /\ now <= reading[p].since + LongestScan
  BY <1>1, <1>2, TakesLeaves
<1>4. now \in Nat /\ "ticker" \in Pass /\ scannedAt' >= scannedAt
  BY <1>1 DEF ScheduleTypeOK, ScheduleAssumption, NotYet
<1>5. Ahead \in Int /\ Round \in Nat BY AheadIs
<1>6. p = "ticker" => Ahead = Round /\ Ahead' \in Nat /\ Ahead' <= Round
  <2> SUFFICES ASSUME p = "ticker" PROVE Ahead = Round /\ Ahead' \in Nat /\ Ahead' <= Round
    OBVIOUS
  <2>1. Ahead = Round
    <3>1. Ahead = now - now + Round BY <1>1, <1>3 DEF Ahead, AheadOf, Reading
    <3> QED BY <1>4, <1>5, <3>1
  <2>2. working[p] = NoBackup BY <1>3 DEF WorkInTime
  <2>3. Ahead' = IF due'[p] = Off THEN 0 ELSE Longest * Cardinality(due'[p])
    BY <1>1, <1>3, <2>2 DEF Ahead, AheadOf, Round, Longest
  <2>4. CASE due'[p] = Off BY <1>5, <2>1, <2>3, <2>4
  <2>5. CASE due'[p] # Off
    <3>1. Ahead' = Longest * Cardinality(D) BY <1>3, <2>3, <2>5
    <3> QED BY <2>1, <3>1, ListIsARound
  <2> QED BY <2>4, <2>5
<1>7. p # "ticker" => Ahead' = Ahead BY <1>1, <1>3, <1>4 DEF Ahead, AheadOf, Round, Longest
<1>8. Ahead' \in Int /\ Ahead' <= Ahead BY <1>5, <1>6, <1>7
<1>9. ASSUME NEW d \in Domain, last'[d] # NotYet PROVE Comes(d)'
  <2>1. Comes(d) /\ last[d] # NotYet BY <1>1, <1>9 DEF OwedComes
  <2>2. CASE free'[d] = now
    <3>1. Owed(d)' \in Int /\ Owed(d)' >= free'[d] BY <1>3, OwedIs
    <3>2. Owed(d)' >= now' BY <1>1, <2>2, <3>1
    <3> QED BY <1>3, <3>2, NotYetOwed
  <2>3. CASE free'[d] = free[d] /\ (d \in listed => d \in D)
    <3>1. CASE p # "ticker"
      <4>1. reading'["ticker"] = reading["ticker"] /\ due'["ticker"] = due["ticker"]
        BY <1>3, <1>4, <3>1
      <4> QED BY <1>1, <1>3, <1>4, <1>5, <1>8, <2>1, <2>3, <4>1, PassGoesOn
    <3>2. CASE p = "ticker"
      <4>1. ~Begins(d) BY <1>1, <3>2 DEF Begins, AtRest
      <4>2. ASSUME ToList(d) PROVE Comes(d)'
        <5> DEFINE s == reading[p].since
                   f == First(d)
                   g == Second(d)
        <5>0. Owed(d) <= s /\ (s <= f \/ (s <= g /\ reading[p].until = s))
          <6>1. reading["ticker"] = reading[p] BY <3>2
          <6> QED BY <4>2, <6>1 DEF ToList
        <5>1. /\ Owed(d) <= s /\ s \in Nat /\ (s <= f \/ (s <= g /\ now = s))
              /\ now <= s + LongestScan
          BY <1>3, <5>0
        <5>2. d \in listed
          <6>1. s >= Owed(d) BY <5>1, <1>3, OwedIs
          <6>2. backupDue(s, d) BY <2>1, <5>1, <6>1, OwedIsDue
          <6> QED BY <6>2 DEF listed
        <5>3. due'["ticker"] # Off /\ d \in due'["ticker"] BY <1>3, <2>3, <3>2, <5>2
        <5> DEFINE a == Ahead'
                   l == Late(d)
        <5>4. now + a <= l
          <6>1. a \in Int /\ a <= Round BY <1>6, <3>2
          <6>2. /\ f = Owed(d) + 4 + Whole /\ g = f + LongestScan + 4 /\ l = g + Round
                /\ Owed(d) \in Int /\ Whole = LongestScan + Round /\ LongestScan \in Nat
            BY <1>3, Deadlines
          <6>3. f \in Int BY <1>5, <6>2
          <6> HIDE DEF s, a, f, g, l
          <6> QED BY <1>4, <1>5, <5>1, <6>1, <6>2, <6>3
        <5>5. Late(d)' = Late(d) BY <1>1, <1>3, <2>3, Deadlines
        <5>6. OnList(d)' BY <1>1, <5>3, <5>4, <5>5 DEF OnList
        <5> QED BY <5>6 DEF Comes
      <4>3. now' + Ahead' <= now + Ahead
        <5> DEFINE a == Ahead'
                   b == Ahead
        <5>1. a \in Int /\ b \in Int /\ a <= b /\ now \in Int BY <1>4, <1>5, <1>8
        <5> HIDE DEF a, b
        <5>2. now + a <= now + b BY <5>1, Later
        <5> QED BY <1>1, <5>2 DEF a, b
      <4>4. due["ticker"] = Off BY <1>3, <3>2
      <4> QED BY <1>1, <1>3, <1>5, <1>8, <2>1, <2>3, <4>1, <4>2, <4>3, <4>4, StillComes
    <3> QED BY <3>1, <3>2
  <2> QED BY <1>2, <2>2, <2>3
<1> QED BY <1>3, <1>9 DEF OwedComes

\* A scan that outlasts the context of its pass leaves the domains to the next
\* pass, which comes too soon for another.
LEMMA LosePassKeeps ==
    ASSUME ScheduleAssumption, ScheduleInv, NEW p \in Pass, LosePass(p) PROVE ScheduleInv'
<1> USE DEF ScheduleInv
<1>1. /\ Reading(p) /\ now >= reading[p].until /\ now - reading[p].since >= PassBudget
      /\ Takes(p, {})
      /\ now' = now /\ tickAt' = tickAt /\ pending' = pending /\ working' = working
      /\ scannedAt' = scannedAt /\ last' = last /\ outages' = outages
      /\ free' = free /\ failures' = failures
      /\ free' \in [Domain -> Nat] /\ failures' \in 0..MaxFailures
  BY DEF LosePass, ScheduleTypeOK
<1>2. /\ ScheduleTypeOK' /\ WorkInTime' /\ ScanInTime' /\ TickIsNear'
      /\ due[p] = Off /\ reading'[p] = NotReading /\ due'[p] = Off
      /\ \A q \in Pass : q # p => due'[q] = due[q] /\ reading'[q] = reading[q]
      /\ reading[p].until = now /\ reading[p].since \in Nat /\ reading[p].since <= now
      /\ now <= reading[p].since + LongestScan
      /\ now # reading[p].since => scannedAt # NotYet /\ reading[p].since <= scannedAt
  <2>1. {} \in SUBSET Domain OBVIOUS
  <2> QED BY <1>1, <2>1, TakesLeaves
<1>3. now \in Nat /\ "ticker" \in Pass /\ scannedAt' >= scannedAt /\ scannedAt \in Nat \cup {NotYet}
  BY <1>1 DEF ScheduleTypeOK, ScheduleAssumption, NotYet
<1>4. Ahead \in Nat /\ Round \in Nat BY AheadIs
<1>5. p = "ticker" => Ahead' = 0 BY <1>2 DEF Ahead, AheadOf
<1>6. p # "ticker" => Ahead' = Ahead BY <1>1, <1>2, <1>3 DEF Ahead, AheadOf, Round, Longest
<1>7. Ahead' \in Int /\ Ahead' <= Ahead BY <1>4, <1>5, <1>6
<1>8. ASSUME NEW d \in Domain, last'[d] # NotYet PROVE Comes(d)'
  <2>1. Comes(d) BY <1>1, <1>8 DEF OwedComes
  <2>2. CASE p # "ticker"
    <3>1. reading'["ticker"] = reading["ticker"] /\ due'["ticker"] = due["ticker"]
      BY <1>2, <1>3, <2>2
    <3> QED BY <1>1, <1>2, <1>3, <1>4, <1>7, <2>1, <3>1, PassGoesOn
  <2>3. CASE p = "ticker"
    <3>1. ~Begins(d) BY <1>1, <2>3 DEF Begins, AtRest
    <3>2. ASSUME ToList(d) PROVE Comes(d)'
      <4> DEFINE s == reading[p].since
                 f == First(d)
                 g == Second(d)
                 n == NextPass'
      <4>1. s \in Nat /\ now - s >= 2 /\ now <= s + LongestScan BY <1>1, <1>2 DEF PassBudget
      <4>2. now # s BY <1>3, <4>1
      <4>3. s <= f BY <1>2, <2>3, <3>2, <4>2 DEF ToList
      <4>4. scannedAt # NotYet /\ scannedAt \in Nat /\ s <= scannedAt BY <1>2, <1>3, <4>2
      <4>5. n \in Int /\ n <= now + OneHour
        <5>1. tickAt # NotYet => tickAt \in Nat /\ tickAt <= now + OneHour
          BY DEF TickIsNear, ScheduleTypeOK
        <5>2. n = now \/ n = now + OneHour \/ (tickAt # NotYet /\ n = tickAt)
          <6>1. now' = now /\ tickAt' = tickAt BY <1>1
          <6> QED BY <6>1 DEF NextPass
        <5> HIDE DEF n
        <5> QED BY <1>3, <5>1, <5>2 DEF OneHour
      <4>6. n <= g /\ n - scannedAt < 80
        <5>1. /\ f = Owed(d) + 4 + Whole /\ g = f + LongestScan + 4
              /\ Owed(d) \in Int /\ Whole = LongestScan + Round /\ LongestScan \in 0..72
          BY <1>2, Deadlines
        <5>2. f \in Int BY <1>4, <5>1
        <5> HIDE DEF s, f, g, n
        <5> QED BY <1>3, <4>1, <4>3, <4>4, <4>5, <5>1, <5>2 DEF OneHour
      <4>7. Second(d)' = Second(d) BY <1>1, <1>2, Deadlines
      <4>8. AtRest("ticker")' BY <1>2, <2>3 DEF AtRest, Reading
      <4>9. NextPass' <= Second(d)' /\ NextPass' - scannedAt' < ScanPeriod /\ scannedAt' # NotYet
        BY <1>1, <4>4, <4>6, <4>7 DEF ScanPeriod, OneHour
      <4>10. Begins(d)' BY <4>8, <4>9 DEF Begins
      <4> QED BY <4>10 DEF Comes
    <3>3. now' + Ahead' <= now + Ahead
      <4>1. Ahead' = 0 BY <1>5, <2>3
      <4> QED BY <1>1, <1>3, <1>4, <4>1
    <3>4. due["ticker"] = Off BY <1>2, <2>3
    <3> QED BY <1>1, <1>2, <1>4, <1>7, <2>1, <3>1, <3>2, <3>3, <3>4, StillComes
  <2> QED BY <2>2, <2>3
<1> QED BY <1>2, <1>8 DEF OwedComes

\* A domain that leaves the list of a pass.
LEMMA MoveOnDrops ==
    ASSUME ScheduleAssumption, ScheduleInv, NEW p \in Pass, NEW e \in Domain,
           due[p] # Off, e \in due[p], MoveOn(p, e)
    PROVE  /\ due' \in [Pass -> {Off} \cup ((SUBSET Domain) \ {{}})]
           /\ \A q \in Pass : q # p => due'[q] = due[q]
           /\ due'[p] # Off => due'[p] = due[p] \ {e}
           /\ \A d \in Domain \ {e} : d \in due[p] => due'[p] # Off /\ d \in due'[p]
           /\ due[p] \in SUBSET Domain
<1> DEFINE L == IF due[p] = {e} THEN Off ELSE due[p] \ {e}
<1>1. due' = [due EXCEPT ![p] = L] BY DEF MoveOn
<1>2. due \in [Pass -> {Off} \cup ((SUBSET Domain) \ {{}})] BY DEF ScheduleInv, ScheduleTypeOK
<1>3. due[p] \in SUBSET Domain BY <1>2
<1>4. L \in {Off} \cup ((SUBSET Domain) \ {{}}) BY <1>3
<1>5. L # Off => L = due[p] \ {e} OBVIOUS
<1>6. \A d \in Domain \ {e} : d \in due[p] => L # Off /\ d \in L
  BY <1>3 DEF Off, ScheduleAssumption
<1> HIDE DEF L
<1>7. due'[p] = L /\ \A q \in Pass : q # p => due'[q] = due[q] BY <1>1, <1>2
<1>8. due' \in [Pass -> {Off} \cup ((SUBSET Domain) \ {{}})] BY <1>1, <1>2, <1>4
<1> QED BY <1>3, <1>5, <1>6, <1>7, <1>8

\* A list without one of its domains.
LEMMA ShorterList ==
    ASSUME ScheduleAssumption, NEW D \in SUBSET Domain, NEW e \in D
    PROVE  /\ Longest * Cardinality(D) \in Nat /\ Longest * Cardinality(D) >= Longest
           /\ Longest * Cardinality(D \ {e}) = Longest * (Cardinality(D) - 1)
           /\ Longest * (Cardinality(D) - 1) \in Nat
           /\ Longest * (Cardinality(D) - 1) = Longest * Cardinality(D) - Longest
<1> DEFINE k == Cardinality(D)
<1>1. k \in Nat /\ k >= 1 /\ Cardinality(D \ {e}) = k - 1 BY ListsAreFinite
<1> HIDE DEF k
<1> QED BY <1>1, LongestIs DEF k

\* A pass that has its list reads no more.
LEMMA ListedIsRead ==
    ASSUME ScheduleAssumption, ScheduleInv, NEW p \in Pass, due[p] # Off
    PROVE  reading[p] = NotReading
BY DEF ScheduleInv, ScanInTime, Reading

\* A pass that goes on to its next domain.
LEMMA MoveOnLeaves ==
    ASSUME ScheduleAssumption, ScheduleInv, NEW p \in Pass, NEW e \in Domain,
           due[p] # Off, e \in due[p], MoveOn(p, e),
           now' = now, tickAt' = tickAt, pending' = pending, reading' = reading,
           scannedAt' = scannedAt, outages' = outages,
           \/ working' = working /\ working[p] = NoBackup
           \/ /\ working' = [working EXCEPT ![p] = NoBackup]
              /\ working[p] # NoBackup /\ now = working[p].until,
           last' \in [Domain -> Nat \cup {NotYet}], free' \in [Domain -> Nat],
           failures' \in 0..MaxFailures
    PROVE  /\ ScheduleTypeOK' /\ WorkInTime' /\ ScanInTime' /\ TickIsNear'
           /\ Ahead \in Nat /\ Ahead' \in Nat /\ Ahead' <= Ahead
           /\ \A q \in Pass : q # p => working'[q] = working[q]
           /\ AtRest("ticker") => due'["ticker"] = due["ticker"]
           /\ \A d \in Domain \ {e} :
                  due["ticker"] # Off /\ d \in due["ticker"] =>
                      due'["ticker"] # Off /\ d \in due'["ticker"]
<1> USE DEF ScheduleInv
<1>1. /\ due' \in [Pass -> {Off} \cup ((SUBSET Domain) \ {{}})]
      /\ \A q \in Pass : q # p => due'[q] = due[q]
      /\ due'[p] # Off => due'[p] = due[p] \ {e}
      /\ \A d \in Domain \ {e} : d \in due[p] => due'[p] # Off /\ d \in due'[p]
      /\ due[p] \in SUBSET Domain
  BY MoveOnDrops
<1>2. /\ working \in [Pass -> [domain : Domain \cup {Nobody}, until : Nat]]
      /\ now \in Nat /\ "ticker" \in Pass /\ reading[p] = NotReading
  BY ListedIsRead DEF ScheduleTypeOK, ScheduleAssumption
<1>3. /\ working' \in [Pass -> [domain : Domain \cup {Nobody}, until : Nat]]
      /\ working'[p] = NoBackup /\ \A q \in Pass : q # p => working'[q] = working[q]
  BY <1>2 DEF NoBackup
<1>4. ScheduleTypeOK' BY <1>1, <1>3 DEF ScheduleTypeOK
<1>5. WorkInTime'
  <2>1. Longest' = Longest BY DEF Longest
  <2> QED BY <1>1, <1>3, <2>1 DEF WorkInTime
<1>6. ScanInTime'
  <2>1. \A q \in Pass : Reading(q)' => reading'[q] = reading[q] /\ (due[q] = Off => due'[q] = Off)
    BY <1>1, <1>2 DEF Reading
  <2>2. scannedAt' >= scannedAt BY DEF ScheduleTypeOK, NotYet
  <2> QED BY <1>4, <2>1, <2>2, ScansGoOn
<1>7. TickIsNear' BY DEF TickIsNear
<1>8. Ahead \in Nat BY AheadIs
<1>9. Ahead' \in Nat /\ Ahead' <= Ahead
  <2>1. CASE p # "ticker"
    <3>1. Ahead' = Ahead BY <1>1, <1>2, <1>3, <2>1 DEF Ahead, AheadOf, Round, Longest
    <3> QED BY <1>8, <3>1
  <2>2. CASE p = "ticker"
    <3> DEFINE r == Longest * (Cardinality(due[p]) - 1)
    <3>1. Ahead' = IF due'[p] = Off THEN 0 ELSE Longest * Cardinality(due'[p])
      BY <1>2, <1>3, <2>2 DEF Ahead, AheadOf, Round, Longest
    <3>2. /\ r \in Nat /\ Longest * Cardinality(due[p] \ {e}) = r
          /\ r <= Longest * Cardinality(due[p])
      <4>1. /\ Longest * Cardinality(due[p]) \in Nat
            /\ Longest * Cardinality(due[p] \ {e}) = r /\ r \in Nat
            /\ r = Longest * Cardinality(due[p]) - Longest
        BY <1>1, ShorterList
      <4> QED BY <4>1, LongestIs
    <3>3. Ahead' = 0 \/ Ahead' = r BY <1>1, <3>1, <3>2
    <3>4. r <= Ahead
      <4>1. CASE working[p] = NoBackup
        <5>1. Ahead = Longest * Cardinality(due[p]) BY <1>2, <2>2, <4>1 DEF Ahead, AheadOf
        <5> QED BY <3>2, <5>1
      <4>2. CASE working[p] # NoBackup
        <5>1. Ahead = working[p].until - now + r BY <1>2, <2>2, <4>2 DEF Ahead, AheadOf
        <5>2. working[p].until = now BY <4>2
        <5> HIDE DEF r
        <5>3. Ahead = r BY <1>2, <3>2, <5>1, <5>2
        <5> QED BY <3>2, <5>3
      <4> QED BY <4>1, <4>2
    <3> HIDE DEF r
    <3> QED BY <1>8, <3>2, <3>3, <3>4
  <2> QED BY <2>1, <2>2
<1>10. AtRest("ticker") => due'["ticker"] = due["ticker"]
  <2>1. CASE p = "ticker" BY <2>1 DEF AtRest
  <2>2. CASE p # "ticker" BY <1>1, <1>2, <2>2
  <2> QED BY <2>1, <2>2
<1>11. ASSUME NEW d \in Domain \ {e}, due["ticker"] # Off, d \in due["ticker"]
       PROVE  due'["ticker"] # Off /\ d \in due'["ticker"]
  <2>1. CASE p = "ticker" BY <1>1, <1>11, <2>1
  <2>2. CASE p # "ticker" BY <1>1, <1>2, <1>11, <2>2
  <2> QED BY <2>1, <2>2
<1> QED BY <1>3, <1>4, <1>5, <1>6, <1>7, <1>8, <1>9, <1>10, <1>11

\* A domain skipped because another run is at work on it will be done in time.
LEMMA SkipKeeps ==
    ASSUME ScheduleAssumption, ScheduleInv, NEW p \in Pass, NEW e \in Domain, BeginBackup(p, e),
           Locked(e), MoveOn(p, e), UNCHANGED <<working, free, failures>>
    PROVE  ScheduleInv'
<1> USE DEF ScheduleInv
<1>1. /\ due[p] # Off /\ e \in due[p] /\ working[p] = NoBackup
      /\ pending' = pending /\ now' = now /\ tickAt' = tickAt /\ reading' = reading
      /\ scannedAt' = scannedAt /\ last' = last /\ outages' = outages
      /\ working' = working /\ free' = free /\ failures' = failures
      /\ last' \in [Domain -> Nat \cup {NotYet}] /\ free' \in [Domain -> Nat]
      /\ failures' \in 0..MaxFailures
  BY DEF BeginBackup, ScheduleTypeOK
<1>2. /\ ScheduleTypeOK' /\ WorkInTime' /\ ScanInTime' /\ TickIsNear'
      /\ Ahead \in Nat /\ Ahead' \in Nat /\ Ahead' <= Ahead
      /\ AtRest("ticker") => due'["ticker"] = due["ticker"]
      /\ \A d \in Domain \ {e} :
             due["ticker"] # Off /\ d \in due["ticker"] =>
                 due'["ticker"] # Off /\ d \in due'["ticker"]
  BY <1>1, MoveOnLeaves
<1>3. /\ now \in Nat /\ due[p] \in SUBSET Domain /\ "ticker" \in Pass
      /\ scannedAt' >= scannedAt /\ \A q \in Pass : working[q].until \in Nat
  BY <1>1 DEF ScheduleTypeOK, ScheduleAssumption, NotYet
<1>4. p = "ticker" => Ahead >= Longest
  <2>1. Longest * Cardinality(due[p]) >= Longest BY <1>1, <1>3, ShorterList
  <2>2. p = "ticker" => Ahead = Longest * Cardinality(due[p])
    BY <1>1, ListedIsRead DEF Ahead, AheadOf
  <2> QED BY <2>1, <2>2
<1>5. ASSUME NEW d \in Domain, last'[d] # NotYet PROVE Comes(d)'
  <2>1. Comes(d) BY <1>1, <1>5 DEF OwedComes
  <2>2. ASSUME due["ticker"] # Off, d \in due["ticker"]
        PROVE  \/ due'["ticker"] # Off /\ d \in due'["ticker"]
               \/ \E q \in Pass : working'[q].domain = d /\ working'[q].until <= now + Ahead
    <3>1. CASE p # "ticker"
      <4>1. due'["ticker"] = due["ticker"]
        <5>1. \A q \in Pass : q # p => due'[q] = due[q] BY <1>1, MoveOnDrops
        <5> QED BY <1>3, <3>1, <5>1
      <4> QED BY <2>2, <4>1
    <3>2. CASE p = "ticker" /\ d # e BY <1>2, <2>2, <3>2
    <3>3. CASE p = "ticker" /\ d = e
      <4>1. PICK q \in Pass : working[q].domain = d BY <3>3 DEF Locked
      <4>2. working[q] # NoBackup BY <4>1 DEF NoBackup, ScheduleAssumption
      <4> DEFINE u == working[q].until
      <4>3. u \in Nat /\ u <= now + Longest BY <1>3, <4>2 DEF WorkInTime
      <4>4. u <= now + Ahead
        <5> HIDE DEF u
        <5> QED BY <1>2, <1>3, <1>4, <3>3, <4>3, LongestIs
      <4> QED BY <1>1, <4>1, <4>4
    <3> QED BY <3>1, <3>2, <3>3
  <2> QED BY <1>1, <1>2, <1>3, <2>1, <2>2, PassGoesOn
<1> QED BY <1>2, <1>5 DEF OwedComes

\* A run that is refused leaves the pass to the next domain; its own is owed
\* none.
LEMMA RefusedKeeps ==
    ASSUME ScheduleAssumption, ScheduleInv, NEW p \in Pass, NEW e \in Domain, BeginBackup(p, e),
           NotBackedUp({e}), MoveOn(p, e), UNCHANGED working
    PROVE  ScheduleInv'
<1> USE DEF ScheduleInv
<1>1. /\ due[p] # Off /\ e \in due[p] /\ working[p] = NoBackup
      /\ pending' = pending /\ now' = now /\ tickAt' = tickAt /\ reading' = reading
      /\ scannedAt' = scannedAt /\ last' = last /\ outages' = outages /\ working' = working
      /\ last' \in [Domain -> Nat \cup {NotYet}]
  BY DEF BeginBackup, ScheduleTypeOK
<1>2. /\ failures' \in 0..MaxFailures /\ free' \in [Domain -> Nat]
      /\ \A d \in Domain : IF d \in {e} THEN free'[d] = now ELSE free'[d] = free[d]
  BY NotBackedUpFrees
<1>3. /\ ScheduleTypeOK' /\ WorkInTime' /\ ScanInTime' /\ TickIsNear'
      /\ Ahead \in Nat /\ Ahead' \in Nat /\ Ahead' <= Ahead
      /\ AtRest("ticker") => due'["ticker"] = due["ticker"]
      /\ \A d \in Domain \ {e} :
             due["ticker"] # Off /\ d \in due["ticker"] =>
                 due'["ticker"] # Off /\ d \in due'["ticker"]
  BY <1>1, <1>2, MoveOnLeaves
<1>4. scannedAt' >= scannedAt BY <1>1 DEF ScheduleTypeOK, NotYet
<1>5. ASSUME NEW d \in Domain, last'[d] # NotYet PROVE Comes(d)'
  <2>1. Comes(d) BY <1>1, <1>5 DEF OwedComes
  <2>2. CASE d = e
    <3>1. Owed(d)' \in Int /\ Owed(d)' >= free'[d] /\ free'[d] = now BY <1>2, <1>3, <2>2, OwedIs
    <3>2. Owed(d)' >= now' BY <1>1, <3>1
    <3> QED BY <1>3, <3>2, NotYetOwed
  <2>3. CASE d # e
    <3>1. free'[d] = free[d] BY <1>2, <2>3
    <3> QED BY <1>1, <1>3, <1>4, <2>1, <2>3, <3>1, PassGoesOn
  <2> QED BY <2>2, <2>3
<1> QED BY <1>3, <1>5 DEF OwedComes

\* A backup that begins ends within what was left of its pass.
LEMMA BeginsToBackUpKeeps ==
    ASSUME ScheduleAssumption, ScheduleInv, NEW p \in Pass, NEW e \in Domain, BeginBackup(p, e),
           ~Locked(e), UNCHANGED <<due, free, failures>>,
           NEW k \in Durations, working' = [working EXCEPT ![p] = [domain |-> e, until |-> now + k]]
    PROVE  ScheduleInv'
<1> USE DEF ScheduleInv
<1>1. /\ due[p] # Off /\ e \in due[p] /\ working[p] = NoBackup
      /\ pending' = pending /\ now' = now /\ tickAt' = tickAt /\ reading' = reading
      /\ scannedAt' = scannedAt /\ last' = last /\ outages' = outages
      /\ due' = due /\ free' = free /\ failures' = failures
  BY DEF BeginBackup
<1>2. /\ now \in Nat /\ due[p] \in SUBSET Domain /\ "ticker" \in Pass
      /\ working \in [Pass -> [domain : Domain \cup {Nobody}, until : Nat]]
      /\ scannedAt' >= scannedAt
  BY <1>1 DEF ScheduleTypeOK, ScheduleAssumption, NotYet
<1>3. k \in {1, 2} /\ k <= Longest /\ Longest \in Nat BY LongestIs
<1>4. /\ working' \in [Pass -> [domain : Domain \cup {Nobody}, until : Nat]]
      /\ working'[p] = [domain |-> e, until |-> now + k]
      /\ \A q \in Pass : q # p => working'[q] = working[q]
  BY <1>2, <1>3
<1>5. working'[p].domain = e /\ working'[p].until = now + k BY <1>4
<1>6. ScheduleTypeOK' BY <1>1, <1>4 DEF ScheduleTypeOK
<1>7. WorkInTime'
  <2> SUFFICES ASSUME NEW q \in Pass, working'[q] # NoBackup
               PROVE  /\ due'[q] # Off /\ working'[q].domain \in due'[q]
                      /\ now' <= working'[q].until /\ working'[q].until <= now' + Longest'
    BY DEF WorkInTime
  <2>1. Longest' = Longest BY DEF Longest
  <2>2. CASE q = p BY <1>1, <1>2, <1>3, <1>5, <2>1, <2>2
  <2>3. CASE q # p BY <1>1, <1>4, <2>1, <2>3 DEF WorkInTime
  <2> QED BY <2>2, <2>3
<1>8. ScanInTime' BY <1>1 DEF ScanInTime, Reading
<1>9. TickIsNear' BY <1>1 DEF TickIsNear
<1>10. Ahead \in Nat BY AheadIs
<1>11. Ahead' \in Nat /\ Ahead' <= Ahead
  <2>1. CASE p # "ticker"
    <3>1. Ahead' = Ahead BY <1>1, <1>2, <1>4, <2>1 DEF Ahead, AheadOf, Round, Longest
    <3> QED BY <1>10, <3>1
  <2>2. CASE p = "ticker"
    <3> DEFINE r == Longest * (Cardinality(due[p]) - 1)
    <3>1. Ahead = Longest * Cardinality(due[p])
      BY <1>1, <2>2, ListedIsRead DEF Ahead, AheadOf
    <3>2. r \in Nat /\ Ahead = r + Longest
      <4>1. /\ Longest * Cardinality(due[p]) \in Nat /\ r \in Nat
            /\ r = Longest * Cardinality(due[p]) - Longest
        BY <1>1, <1>2, ShorterList
      <4> QED BY <1>3, <3>1, <4>1
    <3>3. working'[p] # NoBackup BY <1>5 DEF NoBackup, ScheduleAssumption
    <3>4. Ahead' = (now + k) - now + r
      BY <1>1, <1>5, <2>2, <3>3, ListedIsRead DEF Ahead, AheadOf, Round, Longest
    <3> HIDE DEF r
    <3> QED BY <1>2, <1>3, <3>2, <3>4
  <2> QED BY <2>1, <2>2
<1>12. ASSUME NEW d \in Domain, last'[d] # NotYet PROVE Comes(d)'
  <2>1. Comes(d) BY <1>1, <1>12 DEF OwedComes
  <2>2. \A q \in Pass : working[q].domain = d => working'[q] = working[q]
    <3>1. NoBackup.domain # d BY DEF NoBackup, ScheduleAssumption
    <3> QED BY <1>1, <1>4, <3>1
  <2> QED BY <1>1, <1>2, <1>6, <1>10, <1>11, <2>1, <2>2, PassGoesOn
<1> QED BY <1>6, <1>7, <1>8, <1>9, <1>12 DEF OwedComes

LEMMA BeginBackupKeeps ==
    ASSUME ScheduleAssumption, ScheduleInv, NEW p \in Pass, NEW e \in Domain, BeginBackup(p, e)
    PROVE  ScheduleInv'
<1>1. \/ Locked(e) /\ MoveOn(p, e) /\ UNCHANGED <<working, free, failures>>
      \/ ~Locked(e) /\ UNCHANGED <<due, free, failures>>
         /\ \E k \in Durations : working' = [working EXCEPT ![p] = [domain |-> e, until |-> now + k]]
      \/ NotBackedUp({e}) /\ MoveOn(p, e) /\ UNCHANGED working
  BY DEF BeginBackup
<1> QED BY <1>1, SkipKeeps, BeginsToBackUpKeeps, RefusedKeeps

\* A backup that ends leaves its pass to the next domain; the domain itself is owed
\* no backup for a while.
LEMMA FinishBackupKeeps ==
    ASSUME ScheduleAssumption, ScheduleInv, NEW p \in Pass, FinishBackup(p) PROVE ScheduleInv'
<1> USE DEF ScheduleInv
<1> DEFINE e == working[p].domain
<1>1. /\ e # Nobody /\ now = working[p].until
      /\ working' = [working EXCEPT ![p] = NoBackup] /\ MoveOn(p, e)
      /\ pending' = pending /\ now' = now /\ tickAt' = tickAt /\ reading' = reading
      /\ scannedAt' = scannedAt /\ outages' = outages
      /\ \/ last' = [last EXCEPT ![e] = now] /\ free' = free /\ failures' = failures
         \/ NotBackedUp({e}) /\ last' = last
  BY DEF FinishBackup
<1>2. /\ now \in Nat /\ scannedAt' >= scannedAt
      /\ working \in [Pass -> [domain : Domain \cup {Nobody}, until : Nat]]
      /\ last \in [Domain -> Nat \cup {NotYet}] /\ free \in [Domain -> Nat]
      /\ failures \in 0..MaxFailures /\ due \in [Pass -> {Off} \cup ((SUBSET Domain) \ {{}})]
  BY <1>1 DEF ScheduleTypeOK, NotYet
<1>3. e \in Domain /\ working[p] # NoBackup /\ due[p] # Off /\ e \in due[p]
  <2>1. working[p] # NoBackup BY <1>1 DEF NoBackup
  <2> QED BY <1>1, <1>2, <2>1 DEF WorkInTime
<1> HIDE DEF e
<1>4. /\ last' \in [Domain -> Nat \cup {NotYet}] /\ free' \in [Domain -> Nat]
      /\ failures' \in 0..MaxFailures
      /\ \A d \in Domain \ {e} : last'[d] = last[d] /\ free'[d] = free[d]
      /\ last'[e] = now \/ free'[e] = now
  <2>1. CASE last' = [last EXCEPT ![e] = now] /\ free' = free /\ failures' = failures
    BY <1>2, <1>3, <2>1
  <2>2. CASE NotBackedUp({e}) /\ last' = last
    <3>1. /\ failures' \in 0..MaxFailures /\ free' \in [Domain -> Nat]
          /\ \A d \in Domain : IF d \in {e} THEN free'[d] = now ELSE free'[d] = free[d]
      BY <2>2, NotBackedUpFrees
    <3> QED BY <1>2, <1>3, <2>2, <3>1
  <2> QED BY <1>1, <2>1, <2>2
<1>5. /\ ScheduleTypeOK' /\ WorkInTime' /\ ScanInTime' /\ TickIsNear'
      /\ Ahead \in Nat /\ Ahead' \in Nat /\ Ahead' <= Ahead
      /\ \A q \in Pass : q # p => working'[q] = working[q]
      /\ AtRest("ticker") => due'["ticker"] = due["ticker"]
      /\ \A d \in Domain \ {e} :
             due["ticker"] # Off /\ d \in due["ticker"] =>
                 due'["ticker"] # Off /\ d \in due'["ticker"]
  BY <1>1, <1>3, <1>4, MoveOnLeaves
<1>6. ASSUME NEW d \in Domain, last'[d] # NotYet PROVE Comes(d)'
  <2>1. CASE d = e
    <3>1. Owed(d)' >= now'
      <4>1. /\ Owed(d)' \in Int /\ Owed(d)' >= free'[d]
            /\ last'[d] # NotYet => Owed(d)' >= last'[d] + Day
        BY <1>5, OwedIs
      <4>2. CASE free'[d] = now BY <1>1, <4>1, <4>2
      <4>3. CASE last'[d] = now
        <5>1. Owed(d)' >= now + Day BY <1>6, <4>1, <4>3
        <5> QED BY <1>1, <1>2, <4>1, <5>1 DEF Day, OneHour
      <4> QED BY <1>4, <2>1, <4>2, <4>3
    <3> QED BY <1>5, <3>1, NotYetOwed
  <2>2. CASE d # e
    <3>1. last'[d] = last[d] /\ free'[d] = free[d] BY <1>4, <2>2
    <3>2. Comes(d) BY <1>6, <3>1 DEF OwedComes
    <3>3. \A q \in Pass : working[q].domain = d => working'[q] = working[q]
      BY <1>5, <2>2 DEF e
    <3> QED BY <1>1, <1>2, <1>5, <2>2, <3>1, <3>2, <3>3, PassGoesOn
  <2> QED BY <2>1, <2>2
<1> QED BY <1>5, <1>6 DEF OwedComes

\* A pass that is stopped owes none of its domains anything before now.
LEMMA StopPassKeeps ==
    ASSUME ScheduleAssumption, ScheduleInv, NEW p \in Pass, StopPass(p) PROVE ScheduleInv'
<1> USE DEF ScheduleInv
<1>1. /\ due[p] # Off /\ due' = [due EXCEPT ![p] = Off]
      /\ working' = [working EXCEPT ![p] = NoBackup] /\ NotBackedUp(due[p])
      /\ pending' = pending /\ now' = now /\ tickAt' = tickAt /\ reading' = reading
      /\ scannedAt' = scannedAt /\ last' = last /\ outages' = outages
  BY DEF StopPass
<1>2. /\ now \in Nat /\ scannedAt' >= scannedAt /\ "ticker" \in Pass /\ reading[p] = NotReading
      /\ working \in [Pass -> [domain : Domain \cup {Nobody}, until : Nat]]
      /\ due \in [Pass -> {Off} \cup ((SUBSET Domain) \ {{}})]
  BY <1>1, ListedIsRead DEF ScheduleTypeOK, ScheduleAssumption, NotYet
<1>3. /\ due' \in [Pass -> {Off} \cup ((SUBSET Domain) \ {{}})]
      /\ working' \in [Pass -> [domain : Domain \cup {Nobody}, until : Nat]]
      /\ due'[p] = Off /\ working'[p] = NoBackup
      /\ \A q \in Pass : q # p => due'[q] = due[q] /\ working'[q] = working[q]
  <2>1. NoBackup \in [domain : Domain \cup {Nobody}, until : Nat] BY DEF NoBackup
  <2> QED BY <1>1, <1>2, <2>1
<1>4. /\ failures' \in 0..MaxFailures /\ free' \in [Domain -> Nat]
      /\ \A d \in Domain : IF d \in due[p] THEN free'[d] = now ELSE free'[d] = free[d]
  BY <1>1, NotBackedUpFrees
<1>5. ScheduleTypeOK' BY <1>1, <1>3, <1>4 DEF ScheduleTypeOK
<1>6. WorkInTime'
  <2>1. Longest' = Longest BY DEF Longest
  <2> QED BY <1>1, <1>3, <2>1 DEF WorkInTime
<1>7. ScanInTime'
  <2>1. \A q \in Pass : Reading(q)' => reading'[q] = reading[q] /\ (due[q] = Off => due'[q] = Off)
    BY <1>1, <1>3
  <2> QED BY <1>1, <1>2, <1>5, <2>1, ScansGoOn
<1>8. TickIsNear' BY <1>1 DEF TickIsNear
<1>9. Ahead \in Nat BY AheadIs
<1>10. Ahead' \in Nat /\ Ahead' <= Ahead
  <2>1. CASE p # "ticker"
    <3>1. Ahead' = Ahead BY <1>1, <1>2, <1>3, <2>1 DEF Ahead, AheadOf, Round, Longest
    <3> QED BY <1>9, <3>1
  <2>2. CASE p = "ticker"
    <3>1. Ahead' = 0 BY <1>1, <1>2, <1>3, <2>2 DEF Ahead, AheadOf
    <3> QED BY <1>9, <3>1
  <2> QED BY <2>1, <2>2
<1>11. ASSUME NEW d \in Domain, last'[d] # NotYet PROVE Comes(d)'
  <2>1. Comes(d) BY <1>1, <1>11 DEF OwedComes
  <2>2. CASE d \in due[p]
    <3>1. Owed(d)' \in Int /\ Owed(d)' >= free'[d] /\ free'[d] = now BY <1>4, <1>5, <2>2, OwedIs
    <3>2. Owed(d)' >= now' BY <1>1, <3>1
    <3> QED BY <1>5, <1>6, <1>7, <1>8, <3>2, NotYetOwed
  <2>3. CASE d \notin due[p]
    <3>1. free'[d] = free[d] BY <1>4, <2>3
    <3>2. \A q \in Pass : working[q].domain = d => working'[q] = working[q]
      <4>1. working[p].domain # d
        <5>1. CASE working[p] = NoBackup BY <5>1 DEF NoBackup, ScheduleAssumption
        <5>2. CASE working[p] # NoBackup BY <2>3, <5>2 DEF WorkInTime
        <5> QED BY <5>1, <5>2
      <4> QED BY <1>3, <4>1
    <3>3. AtRest("ticker") => due'["ticker"] = due["ticker"] BY <1>1, <1>2, <1>3 DEF AtRest
    <3>4. due["ticker"] # Off /\ d \in due["ticker"] => due'["ticker"] # Off /\ d \in due'["ticker"]
      BY <1>2, <1>3, <2>3
    <3> QED BY <1>1, <1>2, <1>5, <1>9, <1>10, <2>1, <3>1, <3>2, <3>3, <3>4, PassGoesOn
  <2> QED BY <2>2, <2>3
<1> QED BY <1>5, <1>6, <1>7, <1>8, <1>11 DEF OwedComes

\* After an outage no backup is owed before the panel is up again.
LEMMA OutageKeeps ==
    ASSUME ScheduleAssumption, ScheduleInv, Outage PROVE ScheduleInv'
<1> USE DEF ScheduleInv
<1>1. PICK q \in Outages : now' = now + q /\ free' = [d \in Domain |-> now + q]
  BY DEF Outage
<1>2. /\ due' = [r \in Pass |-> Off] /\ working' = [r \in Pass |-> NoBackup] /\ pending' = TRUE
      /\ reading' = [r \in Pass |-> NotReading] /\ tickAt' = NotYet /\ scannedAt' = NotYet
      /\ last' = last /\ failures' = failures /\ outages < MaxOutages /\ outages' = outages + 1
  BY DEF Outage
<1>3. now \in Nat /\ q \in Nat /\ MaxOutages \in Nat BY DEF ScheduleTypeOK, ScheduleAssumption
<1>4. ScheduleTypeOK'
  <2>1. now' \in Nat /\ free' \in [Domain -> Nat] BY <1>1, <1>3
  <2>2. due' \in [Pass -> {Off} \cup ((SUBSET Domain) \ {{}})] BY <1>2
  <2>3. working' \in [Pass -> [domain : Domain \cup {Nobody}, until : Nat]]
    BY <1>2 DEF NoBackup
  <2>4. reading' \in [Pass -> [since : Nat \cup {NotYet}, until : Nat \cup {NotYet}]]
    BY <1>2 DEF NotReading
  <2> QED BY <1>2, <1>3, <2>1, <2>2, <2>3, <2>4 DEF ScheduleTypeOK
<1>5. WorkInTime' BY <1>2 DEF WorkInTime
<1>6. ScanInTime' BY <1>2 DEF ScanInTime, Reading
<1>7. TickIsNear' BY <1>2 DEF TickIsNear
<1>8. ASSUME NEW d \in Domain PROVE Comes(d)'
  <2>1. Owed(d)' >= now' BY <1>1, <1>4, OwedIs
  <2> QED BY <1>4, <1>5, <1>6, <1>7, <2>1, NotYetOwed
<1> QED BY <1>4, <1>5, <1>6, <1>7, <1>8 DEF OwedComes

\* While time passes, so does a scan or a backup of every pass that is under way.
LEMMA QuarterPassesKeeps ==
    ASSUME ScheduleAssumption, ScheduleInv, QuarterPasses PROVE ScheduleInv'
<1> USE DEF ScheduleInv
<1>1. /\ Settled /\ now' = now + 1 /\ tickAt' = tickAt /\ pending' = pending
      /\ reading' = reading /\ due' = due /\ working' = working /\ scannedAt' = scannedAt
      /\ last' = last /\ free' = free /\ outages' = outages /\ failures' = failures
  BY DEF QuarterPasses
<1>2. /\ now \in Nat /\ "ticker" \in Pass /\ Longest \in Nat /\ scannedAt' >= scannedAt
      /\ \A p \in Pass : working[p].until \in Nat
  BY <1>1, LongestIs DEF ScheduleTypeOK, ScheduleAssumption, NotYet
<1>3. ScheduleTypeOK' BY <1>1, <1>2 DEF ScheduleTypeOK
<1>4. WorkInTime'
  <2>1. Longest' = Longest BY DEF Longest
  <2>2. ASSUME NEW p \in Pass, working'[p] # NoBackup
        PROVE  /\ due'[p] # Off /\ working'[p].domain \in due'[p]
               /\ now' <= working'[p].until /\ working'[p].until <= now' + Longest'
    <3>1. /\ due[p] # Off /\ working[p].domain \in due[p] /\ working[p].until <= now + Longest
      BY <1>1, <2>2 DEF WorkInTime
    <3>2. now < working[p].until BY <1>1, <3>1 DEF Settled
    <3> DEFINE u == working[p].until
    <3>3. u \in Nat /\ now < u /\ u <= now + Longest BY <1>2, <3>1, <3>2
    <3> HIDE DEF u
    <3>4. now + 1 <= u /\ u <= now + 1 + Longest BY <1>2, <3>3
    <3> QED BY <1>1, <2>1, <3>1, <3>4 DEF u
  <2> QED BY <2>2 DEF WorkInTime
<1>5. ScanInTime'
  <2>1. ASSUME NEW p \in Pass, Reading(p)'
        PROVE  /\ due'[p] = Off /\ reading'[p].since \in Nat /\ reading'[p].until \in Nat
               /\ reading'[p].since <= now' /\ now' <= reading'[p].until
               /\ reading'[p].until <= reading'[p].since + LongestScan
               /\ reading'[p].until # reading'[p].since =>
                      scannedAt' # NotYet /\ reading'[p].since <= scannedAt'
    <3>1. Reading(p) BY <1>1, <2>1 DEF Reading
    <3> DEFINE u == reading[p].until
               s == reading[p].since
    <3>2. /\ due[p] = Off /\ s \in Nat /\ u \in Nat /\ s <= now /\ now < u
          /\ u <= s + LongestScan /\ (u # s => scannedAt # NotYet /\ s <= scannedAt)
      BY <1>1, <3>1 DEF ScanInTime, Settled
    <3> HIDE DEF s, u
    <3>3. s <= now + 1 /\ now + 1 <= u BY <1>2, <3>2
    <3> QED BY <1>1, <3>2, <3>3 DEF s, u
  <2> QED BY <2>1 DEF ScanInTime
<1>6. TickIsNear'
  <2>1. tickAt # NotYet => tickAt \in Nat /\ now < tickAt /\ tickAt <= now + OneHour
    BY <1>1 DEF Settled, TickIsNear, ScheduleTypeOK
  <2> QED BY <1>1, <1>2, <2>1 DEF TickIsNear, OneHour
<1>7. Ahead \in Nat BY AheadIs
<1>8. ~AtRest("ticker") => Ahead' = Ahead - 1
  <2>1. CASE Reading("ticker")
    <3> DEFINE u == reading["ticker"].until
               r == Round
    <3>1. Ahead = u - now + r BY <2>1 DEF Ahead, AheadOf, Reading
    <3>2. Ahead' = u - (now + 1) + r
      BY <1>1, <2>1 DEF Ahead, AheadOf, Reading, Round, Longest
    <3>3. u \in Int /\ r \in Int BY <1>2, <2>1, AheadIs DEF ScanInTime
    <3> HIDE DEF u, r
    <3> QED BY <1>2, <3>1, <3>2, <3>3
  <2>2. CASE ~Reading("ticker") /\ due["ticker"] # Off
    <3> DEFINE r == Longest * (Cardinality(due["ticker"]) - 1)
               u == working["ticker"].until
    <3>1. working["ticker"] # NoBackup BY <1>1, <1>2, <2>2 DEF Settled
    <3>2. Ahead = u - now + r BY <2>2, <3>1 DEF Ahead, AheadOf, Reading
    <3>3. Ahead' = u - (now + 1) + r
      BY <1>1, <2>2, <3>1 DEF Ahead, AheadOf, Reading, Longest, Round
    <3>4. u \in Nat BY <1>2
    <3>5. r \in Int
      <4>1. due["ticker"] \in (SUBSET Domain) \ {{}} BY <1>2, <2>2 DEF ScheduleTypeOK
      <4>2. PICK e \in due["ticker"] : TRUE BY <4>1
      <4>3. due["ticker"] \in SUBSET Domain BY <4>1
      <4>4. Longest * (Cardinality(due["ticker"]) - 1) \in Nat BY <4>2, <4>3, ShorterList
      <4> QED BY <4>4
    <3> HIDE DEF r, u
    <3> QED BY <1>2, <3>2, <3>3, <3>4, <3>5
  <2> QED BY <2>1, <2>2 DEF AtRest
<1>9. AtRest("ticker") => Ahead = 0 /\ Ahead' = 0 /\ ~pending /\ tickAt # NotYet
  <2> SUFFICES ASSUME AtRest("ticker")
               PROVE  Ahead = 0 /\ Ahead' = 0 /\ ~pending /\ tickAt # NotYet
    OBVIOUS
  <2>1. Ahead = 0 BY AheadIs
  <2>2. Ahead' = 0 BY <1>1 DEF Ahead, AheadOf, AtRest, Reading
  <2> QED BY <1>1, <2>1, <2>2 DEF Settled
<1>10. ASSUME NEW d \in Domain, last'[d] # NotYet PROVE Comes(d)'
  <2>1. Comes(d) BY <1>1, <1>10 DEF OwedComes
  <2>2. CASE ~AtRest("ticker")
    <3>1. now' + Ahead' <= now + Ahead /\ Ahead' \in Int /\ Ahead \in Int
      BY <1>1, <1>2, <1>7, <1>8, <2>2
    <3>2. ~Begins(d) BY <2>2 DEF Begins
    <3>3. ASSUME ToList(d) PROVE Comes(d)'
      <4>1. ToList(d)' BY <1>1, <1>3, <3>3, ToListStays
      <4> QED BY <4>1 DEF Comes
    <3> QED BY <1>1, <1>3, <2>1, <3>1, <3>2, <3>3, StillComes
  <2>3. CASE AtRest("ticker")
    <3>1. ~StartsUp(d) /\ ~Waits(d) /\ ~ToList(d) /\ ~OnList(d)
      BY <1>9, <2>3 DEF StartsUp, Waits, ToList, OnList, AtRest
    <3>2. /\ Owed(d)' = Owed(d) /\ First(d)' = First(d) /\ Second(d)' = Second(d)
          /\ Late(d)' = Late(d)
      BY <1>1, <1>3, Deadlines
    <3>3. CASE Ticks(d)
      <4>1. Ticks(d)' BY <1>1, <3>2, <3>3 DEF Ticks
      <4> QED BY <4>1 DEF Comes
    <3>4. CASE Begins(d)
      <4>1. NextPass = tickAt /\ NextPass' = tickAt BY <1>1, <1>9, <2>3 DEF NextPass
      <4>2. AtRest("ticker")' BY <1>1, <2>3 DEF AtRest, Reading
      <4>3. Begins(d)' BY <1>1, <1>2, <1>3, <3>4, <4>1, <4>2, BeginsStays
      <4> QED BY <4>3 DEF Comes
    <3>5. CASE RunAtWork(d)
      <4>1. RunAtWork(d)' BY <1>1, <3>2, <3>5 DEF RunAtWork
      <4> QED BY <4>1 DEF Comes
    <3> QED BY <2>1, <3>1, <3>3, <3>4, <3>5 DEF Comes
  <2> QED BY <2>2, <2>3
<1> QED BY <1>3, <1>4, <1>5, <1>6, <1>10 DEF OwedComes

-----------------------------------------------------------------------------
\* Every step keeps the invariant.
LEMMA ScheduleKeeps == ScheduleAssumption /\ ScheduleInv /\ [ScheduleNext]_scheduleVars => ScheduleInv'
<1> SUFFICES ASSUME ScheduleAssumption, ScheduleInv, [ScheduleNext]_scheduleVars PROVE ScheduleInv'
  OBVIOUS
<1>1. CASE CreateTicker BY <1>1, CreateTickerKeeps
<1>2. CASE TickFires BY <1>2, TickFiresKeeps
<1>3. CASE StartTickerPass BY <1>3, StartTickerPassKeeps
<1>4. ASSUME NEW p \in Pass, TickNow(p) \/ dueDomains(p) \/ LosePass(p) PROVE ScheduleInv'
  BY <1>4, TickNowKeeps, dueDomainsKeeps, LosePassKeeps
<1>5. ASSUME NEW p \in Pass, NEW d \in Domain, BeginBackup(p, d) PROVE ScheduleInv'
  BY <1>5, BeginBackupKeeps
<1>6. ASSUME NEW p \in Pass, FinishBackup(p) \/ StopPass(p) PROVE ScheduleInv'
  BY <1>6, FinishBackupKeeps, StopPassKeeps
<1>7. CASE Outage BY <1>7, OutageKeeps
<1>8. CASE QuarterPasses BY <1>8, QuarterPassesKeeps
<1>9. CASE UNCHANGED scheduleVars
  <2> USE DEF ScheduleInv, scheduleVars
  <2>1. ScheduleTypeOK' BY <1>9 DEF ScheduleTypeOK
  <2>2. WorkInTime' BY <1>9 DEF WorkInTime, Longest
  <2>3. ScanInTime' BY <1>9 DEF ScanInTime, Reading
  <2>4. TickIsNear' BY <1>9 DEF TickIsNear
  <2>5. Ahead' = Ahead /\ NextPass' = NextPass
    BY <1>9 DEF Ahead, AheadOf, Round, Longest, NextPass
  <2>6. ASSUME NEW d \in Domain, last'[d] # NotYet PROVE Comes(d)'
    <3>1. Comes(d) BY <1>9, <2>6 DEF OwedComes
    <3>2. /\ Owed(d)' = Owed(d) /\ First(d)' = First(d) /\ Second(d)' = Second(d)
          /\ Late(d)' = Late(d) /\ Whole' = Whole
      BY <1>9, <2>1, Deadlines
    <3>3. /\ Ticks(d)' = Ticks(d) /\ StartsUp(d)' = StartsUp(d) /\ Waits(d)' = Waits(d)
          /\ Begins(d)' = Begins(d) /\ ToList(d)' = ToList(d)
          /\ OnList(d)' = OnList(d) /\ RunAtWork(d)' = RunAtWork(d)
      BY <1>9, <2>5, <3>2
      DEF Ticks, StartsUp, Waits, Begins, ToList, OnList, RunAtWork, AtRest, Reading
    <3> QED BY <3>1, <3>3 DEF Comes
  <2> QED BY <2>1, <2>2, <2>3, <2>4, <2>6 DEF OwedComes
<1> QED BY <1>1, <1>2, <1>3, <1>4, <1>5, <1>6, <1>7, <1>8, <1>9 DEF ScheduleNext

\* A backup that comes is not late.
LEMMA WhatComesIsInTime == ScheduleAssumption /\ ScheduleInv => MissedIsCaughtUp
<1> SUFFICES ASSUME ScheduleAssumption, ScheduleInv, NEW d \in Domain, last[d] # NotYet
             PROVE  now <= Owed(d) + Slack
  BY DEF MissedIsCaughtUp, Owed
<1> USE DEF ScheduleInv
<1> DEFINE o == Owed(d)
           w == Whole
           f == First(d)
           g == Second(d)
           l == Late(d)
           a == Ahead
           n == NextPass
<1>1. Comes(d) BY DEF OwedComes
<1>2. Round \in Nat /\ w = LongestScan + Round /\ LongestScan \in Nat /\ a \in Nat BY AheadIs
<1>3. now \in Nat /\ \A p \in Pass : working[p].until \in Nat BY DEF ScheduleTypeOK
<1>4. o \in Int
  <2>1. /\ last[d] \in Int /\ free[d] \in Int /\ Frequency[d] \in {"daily", "weekly"}
    BY DEF ScheduleTypeOK, ScheduleAssumption, NotYet
  <2>2. last[d] + Period(Frequency[d]) \in Int
    BY <2>1 DEF Period, minimumInterval, Day, OneHour
  <2> QED BY <2>1, <2>2, MaxOfTwo DEF Owed
<1>5. f = o + 4 + w /\ g = f + LongestScan + 4 /\ l = g + Round
  BY DEF First, Second, Late, OneHour
<1>6. l = o + Slack
  <2>1. Cardinality(Domain) \in Nat
    <3>1. {} \in SUBSET Domain OBVIOUS
    <3> QED BY <3>1, ListsAreFinite
  <2>2. Slack = 8 + 2 * LongestScan + 2 * Longest * Cardinality(Domain)
    BY DEF Slack, Longest, OneHour
  <2>3. Slack = 8 + 2 * LongestScan + 2 * Round BY <1>2, <2>1, <2>2, LongestIs DEF Round
  <2> HIDE DEF o, w, f, g, l
  <2> QED BY <1>2, <1>4, <1>5, <2>3
<1>7. now <= l
  <2>1. o <= f /\ f <= g /\ g <= l /\ o + 4 <= l /\ o + w <= l
    <3> HIDE DEF o, w, f, g, l
    <3> QED BY <1>2, <1>4, <1>5
  <2>2. f \in Int /\ g \in Int /\ l \in Int /\ o + w \in Int
    <3> HIDE DEF o, w, f, g, l
    <3> QED BY <1>2, <1>4, <1>5
  <2>3. \A x \in Int : now + a <= x /\ x <= l => now <= l
    <3> HIDE DEF a, l
    <3> QED BY <1>2, <1>3, <2>2
  <2>4. CASE Ticks(d)
    <3>1. tickAt \in Nat /\ now <= tickAt /\ tickAt <= o + 4
      BY <2>4 DEF Ticks, TickIsNear, ScheduleTypeOK, OneHour
    <3> HIDE DEF o, l
    <3> QED BY <1>3, <1>4, <2>1, <2>2, <3>1
  <2>5. CASE StartsUp(d) BY <2>1, <2>2, <2>3, <2>5 DEF StartsUp
  <2>6. CASE Waits(d)
    <3>1. now + a <= f /\ f <= l
      <4>1. now + a <= f BY <2>6 DEF Waits
      <4> HIDE DEF f, g, l
      <4> QED BY <2>1, <2>2, <4>1
    <3> QED BY <2>2, <2>3, <3>1
  <2>7. CASE Begins(d)
    <3>1. n <= f \/ n <= g BY <2>7 DEF Begins
    <3>2. n \in Int /\ now <= n
      <4>1. tickAt # NotYet => tickAt \in Nat /\ now <= tickAt BY DEF TickIsNear, ScheduleTypeOK
      <4>2. n = now \/ n = now + OneHour \/ (tickAt # NotYet /\ n = tickAt) BY DEF NextPass
      <4> HIDE DEF n
      <4> QED BY <1>3, <4>1, <4>2 DEF OneHour
    <3> HIDE DEF n, f, g, l
    <3> QED BY <1>3, <2>1, <2>2, <3>1, <3>2
  <2>8. CASE ToList(d)
    <3> DEFINE s == reading["ticker"].since
               u == reading["ticker"].until
    <3>1. s <= f \/ (s <= g /\ u = s) BY <2>8 DEF ToList
    <3>2. s \in Nat /\ u \in Nat /\ now <= u /\ u <= s + LongestScan
      BY <2>8 DEF ToList, ScanInTime, ScheduleAssumption
    <3> HIDE DEF o, w, f, g, l, s, u
    <3> QED BY <1>2, <1>3, <1>5, <2>1, <2>2, <3>1, <3>2
  <2>9. CASE OnList(d)
    <3>1. now + a <= l BY <2>9 DEF OnList
    <3> HIDE DEF a, l
    <3> QED BY <1>2, <1>3, <2>2, <3>1
  <2>10. CASE RunAtWork(d)
    <3>1. PICK p \in Pass : working[p].domain = d /\ working[p].until <= l
      BY <2>10 DEF RunAtWork
    <3>2. working[p] # NoBackup BY <3>1 DEF NoBackup, ScheduleAssumption
    <3> DEFINE u == working[p].until
    <3>3. u \in Nat /\ now <= u /\ u <= l BY <1>3, <3>1, <3>2 DEF WorkInTime
    <3> HIDE DEF u, l
    <3> QED BY <1>3, <2>2, <3>3
  <2> QED BY <1>1, <2>4, <2>5, <2>6, <2>7, <2>8, <2>9, <2>10 DEF Comes
<1> QED BY <1>6, <1>7

(***************************************************************************)
(* The ticker, the scans, the passes and what they are at keep their       *)
(* types, and no pass has an empty list (tickOnce).                        *)
(***************************************************************************)
THEOREM TypeCorrect == ASSUME ScheduleAssumption PROVE ScheduleSpec => []ScheduleTypeOK
<1>1. ScheduleInv => ScheduleTypeOK BY DEF ScheduleInv
<1> QED BY <1>1, ScheduleStarts, ScheduleKeeps, PTL DEF ScheduleSpec

(***************************************************************************)
(* A missed backup is caught up within two ticks, two scans and two        *)
(* passes, once its period is over, while the panel is up and nothing      *)
(* fails that it needs (backupDue, tickOnce), for any number of domains    *)
(* with any hours and either frequency, with scans of any length up to     *)
(* eighteen hours that lose their pass or not, and with any number of the  *)
(* operator's passes at any time.                                          *)
(***************************************************************************)
THEOREM MissedBackupsAreCaughtUp == ASSUME ScheduleAssumption PROVE ScheduleSpec => []MissedIsCaughtUp
<1> QED BY ScheduleStarts, ScheduleKeeps, WhatComesIsInTime, PTL DEF ScheduleSpec

=============================================================================
