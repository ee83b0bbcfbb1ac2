---------------------------- MODULE ServerProofs ----------------------------
(***************************************************************************)
(* The server's own parts: the plan's ceilings for any number of customers *)
(* and creations in flight, whatever is moved between them, the schema migrations for any number of        *)
(* statements and edits, and the port change for any number of changes;    *)
(* all of them for any number of failures.                                 *)
(***************************************************************************)
EXTENDS QuotaGate, SchemaMigrations, PanelPort, FiniteSetTheorems,
        WellFoundedInduction, TLAPS

(***************************************************************************)
(* The quotas' inductive invariant.  A creation past its check of the plan *)
(* still has the room it found: who has the customer's lock keeps the      *)
(* others out, and whoever got in without it has been noted.               *)
(***************************************************************************)
QuotaTypes ==
    /\ domains \in [Customer -> Nat] /\ databases \in [Customer -> Nat]
    /\ givenDomains \in [Customer -> 0..MaxGiven] /\ givenDatabases \in [Customer -> 0..MaxGiven]
    /\ unasked \in 0..MaxGiven
    /\ customerMu \in [Customer -> Creation \cup {Free}]
    /\ creation \in [Creation -> [at : {"idle", "plan", "reseller", "insert"},
                                  kind : {"none", "addon", "top", "free", "database"},
                                  customer : Customer \cup {Free}, locked : BOOLEAN]]
    /\ unguarded \in BOOLEAN

\* A request in flight is for a customer; the lock it noted is still its own.
InFlight ==
    \A q \in Creation :
        IF creation[q].at = "idle" THEN creation[q] = Unasked
        ELSE /\ creation[q].customer \in Customer
             /\ creation[q].locked => customerMu[creation[q].customer] = q

PastPlan(q) ==
    \/ creation[q].at = "insert"
    \/ creation[q].at = "reseller" /\ creation[q].kind = "addon"

Room(q) ==
    LET k == creation[q].customer IN
    IF creation[q].kind = "database" THEN databases[k] < MaxDb + givenDatabases[k]
                                     ELSE domains[k] < MaxDomain + givenDomains[k]

RoomFound == unguarded \/ \A q \in Creation : PastPlan(q) => Room(q)

QuotaInv == QuotaTypes /\ InFlight /\ RoomFound /\ PlanIsKept

-----------------------------------------------------------------------------
\* Nobody has anything at the start.
LEMMA QuotaStarts == ASSUME QuotaAssumption, QuotaInit PROVE QuotaInv
<1> USE DEF QuotaAssumption, QuotaInit, Unasked
<1>1. QuotaTypes
  <2>1. /\ givenDomains \in [Customer -> 0..MaxGiven] /\ givenDatabases \in [Customer -> 0..MaxGiven]
        /\ unasked \in 0..MaxGiven
    BY SMT
  <2>2. /\ domains \in [Customer -> Nat] /\ databases \in [Customer -> Nat]
        /\ customerMu \in [Customer -> Creation \cup {Free}] /\ unguarded \in BOOLEAN
    OBVIOUS
  <2>3. creation \in [Creation -> [at : {"idle", "plan", "reseller", "insert"},
                                   kind : {"none", "addon", "top", "free", "database"},
                                   customer : Customer \cup {Free}, locked : BOOLEAN]]
    OBVIOUS
  <2> QED BY <2>1, <2>2, <2>3 DEF QuotaTypes
<1>2. InFlight BY DEF InFlight
<1>3. RoomFound BY DEF RoomFound, PastPlan
<1>4. PlanIsKept BY DEF PlanIsKept
<1> QED BY <1>1, <1>2, <1>3, <1>4 DEF QuotaInv

\* A request that has not come to its check yet claims no room.
LEMMA CreateKeeps ==
    ASSUME QuotaAssumption, QuotaInv, NEW q \in Creation, NEW k \in Customer,
           \/ \E caller \in {"reseller", "administrator"} : CreateTopLevel(q, k, caller)
           \/ \E kind \in {"addon", "database"} : CreateLocked(q, k, kind)
    PROVE  QuotaInv'
<1> USE DEF QuotaAssumption
<1>1. PICK a \in {"plan", "reseller"}, kind \in {"addon", "database", "top", "free"}, l \in BOOLEAN :
        /\ creation' = [creation EXCEPT ![q] = [at |-> a, kind |-> kind, customer |-> k,
                                                locked |-> l]]
        /\ a = "reseller" => kind = "top"
        /\ l => customerMu'[k] = q
  BY DEF CreateTopLevel, CreateLocked
<1>2. /\ UNCHANGED <<domains, databases, givenDomains, givenDatabases, unasked, unguarded>>
      /\ creation[q] = Unasked
      /\ customerMu' \in [Customer -> Creation \cup {Free}]
      /\ \A j \in Customer : customerMu[j] # Free => customerMu'[j] = customerMu[j]
  BY DEF CreateTopLevel, CreateLocked, LockCustomerForDomain, QuotaInv, QuotaTypes, given
<1>3. QuotaTypes' BY <1>1, <1>2 DEF QuotaInv, QuotaTypes
<1>4. InFlight'
  <2> SUFFICES ASSUME NEW r \in Creation, r # q
               PROVE  IF creation[r].at = "idle" THEN creation[r] = Unasked
                      ELSE /\ creation[r].customer \in Customer
                           /\ creation[r].locked => customerMu'[creation[r].customer] = r
    BY <1>1 DEF QuotaInv, QuotaTypes, InFlight
  <2> QED BY <1>2 DEF QuotaInv, InFlight
<1>5. RoomFound' BY <1>1, <1>2 DEF QuotaInv, QuotaTypes, RoomFound, PastPlan, Room
<1>6. PlanIsKept' BY <1>2 DEF QuotaInv, PlanIsKept
<1> QED BY <1>3, <1>4, <1>5, <1>6 DEF QuotaInv

\* What the end of a request does to the requests and the locks.
LEMMA EndKeepsFlights ==
    ASSUME QuotaAssumption, QuotaTypes, InFlight, NEW q \in Creation, Ends(q)
    PROVE  /\ customerMu' \in [Customer -> Creation \cup {Free}]
           /\ creation' \in [Creation -> [at : {"idle", "plan", "reseller", "insert"},
                                          kind : {"none", "addon", "top", "free", "database"},
                                          customer : Customer \cup {Free}, locked : BOOLEAN]]
           /\ InFlight' /\ creation'[q] = Unasked
           /\ \A r \in Creation \ {q} : creation'[r] = creation[r]
<1>1. /\ customerMu' \in [Customer -> Creation \cup {Free}]
      /\ creation' \in [Creation -> [at : {"idle", "plan", "reseller", "insert"},
                                     kind : {"none", "addon", "top", "free", "database"},
                                     customer : Customer \cup {Free}, locked : BOOLEAN]]
      /\ creation'[q] = Unasked
      /\ \A r \in Creation \ {q} : creation'[r] = creation[r]
  BY DEF QuotaTypes, Ends, Unasked
<1>2. InFlight'
  <2> SUFFICES ASSUME NEW r \in Creation, r # q
               PROVE  IF creation[r].at = "idle" THEN creation[r] = Unasked
                      ELSE /\ creation[r].customer \in Customer
                           /\ creation[r].locked => customerMu'[creation[r].customer] = r
    BY <1>1 DEF InFlight, Unasked
  <2> QED BY DEF InFlight, Ends
<1> QED BY <1>1, <1>2

\* A check that refuses, or that goes on; only the plan's check finds room.
LEMMA CheckKeeps ==
    ASSUME QuotaAssumption, QuotaInv, NEW q \in Creation, CheckPlan(q) \/ CheckReseller(q)
    PROVE  QuotaInv'
<1> USE DEF QuotaAssumption
<1>1. UNCHANGED <<domains, databases, givenDomains, givenDatabases, unasked, unguarded>>
  BY DEF CheckPlan, CheckReseller, given
<1>2. PlanIsKept' BY <1>1 DEF QuotaInv, PlanIsKept
<1>3. CASE Ends(q)
  <2>1. /\ InFlight' /\ creation'[q] = Unasked
        /\ \A r \in Creation \ {q} : creation'[r] = creation[r]
    BY <1>3, EndKeepsFlights DEF QuotaInv
  <2>2. QuotaTypes' BY <1>1, <1>3, EndKeepsFlights DEF QuotaInv, QuotaTypes
  <2>3. RoomFound'
    BY <1>1, <2>1 DEF QuotaInv, RoomFound, PastPlan, Room, Unasked
  <2> QED BY <1>2, <2>1, <2>2, <2>3 DEF QuotaInv
<1>4. ASSUME NEW a \in {"plan", "reseller", "insert"}, GoesOn(q, a), creation[q].at # "idle",
             PastPlan(q)' => PastPlan(q) \/ Room(q)
      PROVE  QuotaInv'
  <2>1. /\ UNCHANGED customerMu /\ creation'[q] = [creation[q] EXCEPT !.at = a]
        /\ \A r \in Creation \ {q} : creation'[r] = creation[r]
    BY <1>4 DEF GoesOn, QuotaInv, QuotaTypes
  <2>2. QuotaTypes' BY <1>1, <1>4 DEF QuotaInv, QuotaTypes, GoesOn
  <2>3. InFlight' BY <1>4, <2>1 DEF QuotaInv, QuotaTypes, InFlight
  <2>4. Room(q)' <=> Room(q) BY <1>1, <2>1 DEF QuotaInv, QuotaTypes, Room
  <2>5. \A r \in Creation \ {q} : (PastPlan(r)' <=> PastPlan(r)) /\ (Room(r)' <=> Room(r))
    BY <1>1, <2>1 DEF PastPlan, Room
  <2>6. RoomFound' BY <1>1, <1>4, <2>4, <2>5 DEF QuotaInv, RoomFound
  <2> QED BY <1>2, <2>2, <2>3, <2>6 DEF QuotaInv
<1>5. CASE CheckPlan(q)
  <2>1. creation[q].at = "plan" /\ creation[q].customer \in Customer
    BY <1>5 DEF CheckPlan, QuotaInv, InFlight
  <2>2. Ends(q) \/ (Room(q) /\ GoesOn(q, IF creation[q].kind = "addon" THEN "reseller" ELSE "insert"))
    BY <1>5, <2>1 DEF CheckPlan, Room, QuotaInv, QuotaTypes
  <2>3. PICK a \in {"plan", "reseller", "insert"} : Ends(q) \/ (Room(q) /\ GoesOn(q, a))
    BY <2>2
  <2> QED BY <1>3, <1>4, <2>1, <2>3
<1>6. CASE CheckReseller(q)
  <2>1. creation[q].at = "reseller" BY <1>6 DEF CheckReseller
  <2>2. \/ Ends(q)
        \/ creation[q].kind = "addon" /\ GoesOn(q, "insert")
        \/ creation[q].kind # "addon" /\ GoesOn(q, "plan")
    BY <1>6 DEF CheckReseller
  <2>3. ASSUME creation[q].kind = "addon" PROVE PastPlan(q) BY <2>1, <2>3 DEF PastPlan
  <2>4. ASSUME GoesOn(q, "plan") PROVE ~PastPlan(q)'
    BY <2>4 DEF GoesOn, PastPlan, QuotaInv, QuotaTypes
  <2> QED BY <1>3, <1>4, <2>1, <2>2, <2>3, <2>4
<1> QED BY <1>5, <1>6

\* What a row and the default database that comes with it add up to.
LEMMA RowsInserted ==
    ASSUME QuotaAssumption, QuotaTypes, NEW q \in Creation, InsertRow(q),
           creation[q].customer \in Customer
    PROVE  LET k == creation[q].customer IN
           /\ domains' \in {domains, [domains EXCEPT ![k] = @ + 1]}
           /\ domains' # domains => creation[q].kind # "database"
           /\ givenDomains' = givenDomains /\ unasked' \in 0..MaxGiven
           /\ \/ databases' = databases /\ givenDatabases' = givenDatabases
              \/ /\ databases' = [databases EXCEPT ![k] = @ + 1]
                 /\ \/ creation[q].kind = "database" /\ givenDatabases' = givenDatabases
                    \/ /\ givenDatabases[k] < MaxGiven
                       /\ givenDatabases' = [givenDatabases EXCEPT ![k] = @ + 1]
<1> USE DEF QuotaAssumption, QuotaTypes
<1>1. CASE creation[q].kind = "database"
  BY <1>1 DEF InsertRow, given
<1>2. CASE creation[q].kind # "database"
  BY <1>2 DEF InsertRow, given, provisionDatabase
<1> QED BY <1>1, <1>2

\* The row takes the room its creation found, and nobody else's.
LEMMA InsertRowKeeps ==
    ASSUME QuotaAssumption, QuotaInv, NEW q \in Creation, InsertRow(q) PROVE QuotaInv'
<1> USE DEF QuotaAssumption
<1> DEFINE k == creation[q].customer
<1>1. creation[q].at = "insert" /\ k \in Customer /\ Ends(q)
  BY DEF InsertRow, QuotaInv, InFlight
<1>2. /\ InFlight' /\ creation'[q] = Unasked
      /\ \A r \in Creation \ {q} : creation'[r] = creation[r]
  BY <1>1, EndKeepsFlights DEF QuotaInv
<1>3. /\ domains' \in {domains, [domains EXCEPT ![k] = @ + 1]}
      /\ domains' # domains => creation[q].kind # "database"
      /\ givenDomains' = givenDomains /\ unasked' \in 0..MaxGiven
      /\ \/ databases' = databases /\ givenDatabases' = givenDatabases
         \/ /\ databases' = [databases EXCEPT ![k] = @ + 1]
            /\ \/ creation[q].kind = "database" /\ givenDatabases' = givenDatabases
               \/ /\ givenDatabases[k] < MaxGiven
                  /\ givenDatabases' = [givenDatabases EXCEPT ![k] = @ + 1]
  BY <1>1, RowsInserted DEF QuotaInv
<1>4. QuotaTypes'
  <2>1. domains' \in [Customer -> Nat] /\ databases' \in [Customer -> Nat]
    BY <1>1, <1>3 DEF QuotaInv, QuotaTypes
  <2>2. givenDatabases' \in [Customer -> 0..MaxGiven] BY <1>1, <1>3 DEF QuotaInv, QuotaTypes
  <2>3. givenDomains' \in [Customer -> 0..MaxGiven] /\ unguarded' \in BOOLEAN
    BY <1>3 DEF InsertRow, QuotaInv, QuotaTypes
  <2> QED BY <1>1, <1>3, <2>1, <2>2, <2>3, EndKeepsFlights DEF QuotaInv, QuotaTypes
<1>5. CASE unguarded' BY <1>2, <1>4, <1>5 DEF QuotaInv, RoomFound, PlanIsKept
<1>6. CASE ~unguarded'
  <2>1. /\ ~unguarded
        /\ \A r \in Creation \ {q} :
              creation[r] # Unasked => creation[q].locked /\ creation[r].locked
    BY <1>6 DEF InsertRow
  <2>2. \A r \in Creation \ {q} : creation[r].at # "idle" => creation[r].customer # k
    BY <1>1, <2>1 DEF QuotaInv, InFlight, Unasked
  <2>3. \A j \in Customer \ {k} :
            /\ domains'[j] = domains[j] /\ databases'[j] = databases[j]
            /\ givenDomains'[j] = givenDomains[j] /\ givenDatabases'[j] = givenDatabases[j]
    BY <1>3 DEF QuotaInv, QuotaTypes
  <2>4. RoomFound'
    <3> SUFFICES ASSUME NEW r \in Creation, PastPlan(r)' PROVE Room(r)'
      BY DEF RoomFound
    <3>1. r # q BY <1>2 DEF PastPlan, Unasked
    <3>2. creation'[r] = creation[r] /\ PastPlan(r) BY <1>2, <3>1 DEF PastPlan
    <3>3. creation[r].customer \in Customer \ {k}
      BY <2>2, <3>1, <3>2 DEF QuotaInv, InFlight, PastPlan
    <3>4. Room(r) BY <2>1, <3>2 DEF QuotaInv, RoomFound
    <3> QED BY <2>3, <3>2, <3>3, <3>4 DEF Room
  <2>5. /\ domains'[k] <= MaxDomain + givenDomains'[k]
        /\ databases'[k] <= MaxDb + givenDatabases'[k]
    <3>1. Room(q) BY <1>1, <2>1 DEF QuotaInv, RoomFound, PastPlan
    <3>2. domains[k] <= MaxDomain + givenDomains[k] /\ databases[k] <= MaxDb + givenDatabases[k]
      BY <1>1, <2>1 DEF QuotaInv, PlanIsKept
    <3>3. /\ domains[k] \in Nat /\ databases[k] \in Nat /\ MaxDomain \in Nat /\ MaxDb \in Nat
          /\ givenDomains[k] \in Nat /\ givenDatabases[k] \in Nat
      BY <1>1 DEF QuotaInv, QuotaTypes
    <3>4. domains'[k] <= MaxDomain + givenDomains'[k]
      <4>1. CASE domains' = domains BY <1>3, <3>2, <4>1
      <4>2. CASE domains' # domains
        <5>1. domains[k] < MaxDomain + givenDomains[k] /\ domains'[k] = domains[k] + 1
          BY <1>1, <1>3, <3>1, <4>2 DEF Room, QuotaInv, QuotaTypes
        <5> QED BY <1>3, <3>3, <5>1
      <4> QED BY <4>1, <4>2
    <3>5. databases'[k] <= MaxDb + givenDatabases'[k]
      <4>1. CASE databases' = databases /\ givenDatabases' = givenDatabases BY <3>2, <4>1
      <4>2. CASE /\ databases' = [databases EXCEPT ![k] = @ + 1]
                 /\ creation[q].kind = "database" /\ givenDatabases' = givenDatabases
        <5>1. databases[k] < MaxDb + givenDatabases[k] /\ databases'[k] = databases[k] + 1
          BY <1>1, <3>1, <4>2 DEF Room, QuotaInv, QuotaTypes
        <5> QED BY <3>3, <4>2, <5>1
      <4>3. CASE /\ databases' = [databases EXCEPT ![k] = @ + 1]
                 /\ givenDatabases' = [givenDatabases EXCEPT ![k] = @ + 1]
        <5>1. databases'[k] = databases[k] + 1 /\ givenDatabases'[k] = givenDatabases[k] + 1
          BY <1>1, <4>3 DEF QuotaInv, QuotaTypes
        <5> QED BY <3>2, <3>3, <5>1
      <4> QED BY <1>3, <4>1, <4>2, <4>3
    <3> QED BY <3>4, <3>5
  <2>6. PlanIsKept' BY <2>1, <2>3, <2>5 DEF QuotaInv, PlanIsKept
  <2> QED BY <1>2, <1>4, <2>4, <2>6 DEF QuotaInv
<1> QED BY <1>5, <1>6

\* A deletion makes room.
LEMMA RemoveKeeps ==
    ASSUME QuotaAssumption, QuotaInv, NEW k \in Customer, Delete(k) PROVE QuotaInv'
<1> USE DEF QuotaAssumption
<1>1. /\ UNCHANGED <<customerMu, creation, unguarded, givenDomains, givenDatabases, unasked>>
      /\ domains' \in [Customer -> Nat] /\ databases' \in [Customer -> Nat]
      /\ \A j \in Customer : domains'[j] <= domains[j] /\ databases'[j] <= databases[j]
  BY DEF Delete, QuotaInv, QuotaTypes, given
<1>2. QuotaTypes' BY <1>1 DEF QuotaInv, QuotaTypes
<1>3. InFlight' BY <1>1 DEF QuotaInv, InFlight
<1>4. RoomFound'
  <2> SUFFICES ASSUME ~unguarded, NEW q \in Creation, PastPlan(q) PROVE Room(q)'
    BY <1>1 DEF RoomFound, PastPlan
  <2>1. Room(q) /\ creation[q].customer \in Customer
    BY DEF QuotaInv, RoomFound, InFlight, PastPlan
  <2> QED BY <1>1, <2>1 DEF Room, QuotaInv, QuotaTypes
<1>5. PlanIsKept' BY <1>1 DEF QuotaInv, QuotaTypes, PlanIsKept
<1> QED BY <1>2, <1>3, <1>4, <1>5 DEF QuotaInv

\* Rows that come without a check are counted for who gets them, and a creation
\* whose domain is moved from under it has been noted.
LEMMA GivenKeeps ==
    ASSUME QuotaAssumption, QuotaInv, QuotaTypes', InFlight', unguarded => unguarded',
           ~unguarded' => UNCHANGED creation,
           \A k \in Customer : /\ domains'[k] + givenDomains[k] <= domains[k] + givenDomains'[k]
                               /\ databases'[k] + givenDatabases[k]
                                      <= databases[k] + givenDatabases'[k]
    PROVE  QuotaInv'
<1>1. /\ MaxDomain \in Nat /\ MaxDb \in Nat
      /\ \A k \in Customer :
            /\ domains[k] \in Nat /\ databases[k] \in Nat
            /\ givenDomains[k] \in Nat /\ givenDatabases[k] \in Nat
            /\ domains'[k] \in Nat /\ databases'[k] \in Nat
            /\ givenDomains'[k] \in Nat /\ givenDatabases'[k] \in Nat
  BY DEF QuotaAssumption, QuotaInv, QuotaTypes
<1>2. CASE unguarded' BY <1>2 DEF QuotaInv, RoomFound, PlanIsKept
<1>3. CASE ~unguarded'
  <2>1. ~unguarded /\ creation' = creation BY <1>3
  <2>2. RoomFound'
    <3> SUFFICES ASSUME NEW q \in Creation, PastPlan(q) PROVE Room(q)'
      BY <2>1 DEF RoomFound, PastPlan
    <3>1. Room(q) /\ creation[q].customer \in Customer
      BY <2>1 DEF QuotaInv, RoomFound, InFlight, PastPlan
    <3> QED BY <1>1, <2>1, <3>1 DEF Room
  <2>3. PlanIsKept'
    <3> SUFFICES ASSUME NEW k \in Customer
                 PROVE  /\ domains'[k] <= MaxDomain + givenDomains'[k]
                        /\ databases'[k] <= MaxDb + givenDatabases'[k]
      BY DEF PlanIsKept
    <3>1. domains[k] <= MaxDomain + givenDomains[k] /\ databases[k] <= MaxDb + givenDatabases[k]
      BY <2>1 DEF QuotaInv, PlanIsKept
    <3> QED BY <1>1, <3>1
  <2> QED BY <2>2, <2>3 DEF QuotaInv
<1> QED BY <1>2, <1>3

LEMMA RestoreKeeps ==
    ASSUME QuotaAssumption, QuotaInv, NEW k \in Customer, reRegisterRestoredDB(k) PROVE QuotaInv'
<1>1. /\ UNCHANGED <<domains, givenDomains, unasked, customerMu, creation, unguarded>>
      /\ databases' = [databases EXCEPT ![k] = @ + 1] /\ givenDatabases[k] < MaxGiven
      /\ givenDatabases' = [givenDatabases EXCEPT ![k] = @ + 1]
  BY DEF reRegisterRestoredDB
<1>2. QuotaTypes' BY <1>1 DEF QuotaAssumption, QuotaInv, QuotaTypes
<1>3. InFlight' BY <1>1 DEF QuotaInv, InFlight
<1>4. \A j \in Customer : databases'[j] + givenDatabases[j] <= databases[j] + givenDatabases'[j]
  BY <1>1 DEF QuotaAssumption, QuotaInv, QuotaTypes
<1>5. \A j \in Customer : domains'[j] + givenDomains[j] <= domains[j] + givenDomains'[j]
  BY <1>1 DEF QuotaInv, QuotaTypes
<1> QED BY <1>1, <1>2, <1>3, <1>4, <1>5, GivenKeeps

\* What a move takes from one customer it gives to the other.
LEMMA RowsMoved ==
    ASSUME NEW rows \in [Customer -> Nat], NEW n \in Nat, NEW from, NEW to, from # to,
           from \in Customer => n <= rows[from]
    PROVE  /\ Moved(rows, n, from, to) \in [Customer -> Nat]
           /\ \A k \in Customer \ {from, to} : Moved(rows, n, from, to)[k] = rows[k]
           /\ from \in Customer => Moved(rows, n, from, to)[from] + n = rows[from]
           /\ to \in Customer => Moved(rows, n, from, to)[to] = rows[to] + n
<1> DEFINE moved == Moved(rows, n, from, to)
<1>1. \A k \in Customer :
         moved[k] = rows[k] + (IF k = to THEN n ELSE 0) - (IF k = from THEN n ELSE 0)
  BY DEF Moved
<1>2. \A k \in Customer : rows[k] \in Nat OBVIOUS
<1>3. \A k \in Customer \ {from, to} : moved[k] = rows[k] BY <1>1, <1>2
<1>4. from \in Customer => moved[from] = rows[from] - n BY <1>1, <1>2
<1>5. to \in Customer => moved[to] = rows[to] + n BY <1>1, <1>2
<1>6. \A k \in Customer : moved[k] \in Nat
  <2> TAKE k \in Customer
  <2>1. CASE k \notin {from, to} BY <1>2, <1>3, <2>1
  <2>2. CASE k = from BY <1>2, <1>4, <2>2
  <2>3. CASE k = to BY <1>2, <1>5, <2>3
  <2> QED BY <2>1, <2>2, <2>3
<1>7. moved \in [Customer -> Nat]
  <2>1. moved = [k \in Customer |-> moved[k]] BY DEF Moved
  <2> HIDE DEF moved
  <2> QED BY <1>6, <2>1
<1> HIDE DEF moved
<1>8. from \in Customer => moved[from] + n = rows[from] BY <1>2, <1>4
<1> QED BY <1>3, <1>5, <1>7, <1>8 DEF moved

LEMMA MoveKeeps ==
    ASSUME QuotaAssumption, QuotaInv, NEW from \in Customer \cup {Free},
           NEW to \in Customer \cup {Free}, NEW n \in 1..MaxGiven, NEW m \in 0..MaxGiven,
           NEW under \in SUBSET Creation, BulkOwner(from, to, n, m, under)
    PROVE  QuotaInv'
<1> USE DEF QuotaAssumption
<1>1. /\ from # to /\ n \in Nat /\ m \in Nat
      /\ from \in Customer => n <= domains[from] /\ m <= databases[from]
      /\ domains' = Moved(domains, n, from, to) /\ databases' = Moved(databases, m, from, to)
      /\ UNCHANGED customerMu
  <2>1. from # to /\ (from # Free => n <= domains[from] /\ m <= databases[from])
    BY DEF BulkOwner
  <2>2. domains' = Moved(domains, n, from, to) /\ databases' = Moved(databases, m, from, to)
    BY DEF BulkOwner
  <2>3. from \in Customer => from # Free OBVIOUS
  <2>4. n \in Nat /\ m \in Nat OBVIOUS
  <2>5. UNCHANGED customerMu BY DEF BulkOwner
  <2> QED BY <2>1, <2>2, <2>3, <2>4, <2>5
<1>2. domains \in [Customer -> Nat] /\ databases \in [Customer -> Nat]
  BY DEF QuotaInv, QuotaTypes
<1>3. /\ domains' \in [Customer -> Nat] /\ databases' \in [Customer -> Nat]
      /\ \A k \in Customer \ {from, to} : domains'[k] = domains[k] /\ databases'[k] = databases[k]
      /\ from \in Customer => domains'[from] + n = domains[from] /\ databases'[from] + m = databases[from]
      /\ to \in Customer => domains'[to] = domains[to] + n /\ databases'[to] = databases[to] + m
  BY <1>1, <1>2, RowsMoved
<1>4. /\ givenDomains' = [k \in Customer |-> givenDomains[k] + IF k = to THEN n ELSE 0]
      /\ givenDatabases' = [k \in Customer |-> givenDatabases[k] + IF k = to THEN m ELSE 0]
      /\ unasked' = unasked + (IF from = Free THEN n ELSE 0) /\ unasked' <= MaxGiven
      /\ \A k \in Customer : givenDomains'[k] <= MaxGiven /\ givenDatabases'[k] <= MaxGiven
  BY DEF BulkOwner
<1>5. /\ givenDomains \in [Customer -> 0..MaxGiven] /\ givenDatabases \in [Customer -> 0..MaxGiven]
      /\ unasked \in 0..MaxGiven
  BY DEF QuotaInv, QuotaTypes
<1>6. /\ givenDomains' \in [Customer -> 0..MaxGiven] /\ givenDatabases' \in [Customer -> 0..MaxGiven]
      /\ unasked' \in 0..MaxGiven
  <2>1. \A k \in Customer : givenDomains'[k] \in 0..MaxGiven /\ givenDatabases'[k] \in 0..MaxGiven
    BY <1>1, <1>4, <1>5
  <2>2. unasked' \in 0..MaxGiven BY <1>1, <1>4, <1>5
  <2> QED BY <1>4, <2>1, <2>2
<1>7. /\ under \subseteq {q \in Creation : creation[q].kind = "database" /\ creation[q].customer = from}
      /\ (to = Free => under = {})
      /\ creation' = [q \in Creation |->
                          IF q \in under THEN [creation[q] EXCEPT !.customer = to, !.locked = FALSE]
                                         ELSE creation[q]]
      /\ unguarded' = (unguarded \/ under # {})
  BY DEF BulkOwner
<1>8. \A q \in Creation \ under : creation'[q] = creation[q] BY <1>7
<1>9. \A q \in under :
         /\ creation'[q] \in [at : {"idle", "plan", "reseller", "insert"},
                              kind : {"none", "addon", "top", "free", "database"},
                              customer : Customer \cup {Free}, locked : BOOLEAN]
         /\ creation'[q].at = creation[q].at /\ creation'[q].customer = to
         /\ ~creation'[q].locked /\ to \in Customer
         /\ creation[q].at # "idle"
  <2> SUFFICES ASSUME NEW q \in under
               PROVE  /\ creation'[q] \in [at : {"idle", "plan", "reseller", "insert"},
                              kind : {"none", "addon", "top", "free", "database"},
                              customer : Customer \cup {Free}, locked : BOOLEAN]
                      /\ creation'[q].at = creation[q].at /\ creation'[q].customer = to
                      /\ ~creation'[q].locked /\ to \in Customer
                      /\ creation[q].at # "idle"
    OBVIOUS
  <2>1. /\ creation[q] \in [at : {"idle", "plan", "reseller", "insert"},
                             kind : {"none", "addon", "top", "free", "database"},
                             customer : Customer \cup {Free}, locked : BOOLEAN]
        /\ creation[q].kind = "database" /\ to \in Customer
    BY <1>7 DEF QuotaInv, QuotaTypes
  <2>2. creation'[q] = [creation[q] EXCEPT !.customer = to, !.locked = FALSE] BY <1>7
  <2>3. creation[q].at # "idle" BY <2>1 DEF QuotaInv, InFlight, Unasked
  <2> QED BY <2>1, <2>2, <2>3
<1>10. QuotaTypes'
  <2>1. creation' \in [Creation -> [at : {"idle", "plan", "reseller", "insert"},
                                    kind : {"none", "addon", "top", "free", "database"},
                                    customer : Customer \cup {Free}, locked : BOOLEAN]]
    BY <1>7, <1>8, <1>9 DEF QuotaInv, QuotaTypes
  <2> QED BY <1>1, <1>3, <1>6, <1>7, <2>1 DEF QuotaInv, QuotaTypes
<1>11. InFlight'
  <2> SUFFICES ASSUME NEW q \in Creation
               PROVE  IF creation'[q].at = "idle" THEN creation'[q] = Unasked
                      ELSE /\ creation'[q].customer \in Customer
                           /\ creation'[q].locked => customerMu[creation'[q].customer] = q
    BY <1>1 DEF InFlight, Unasked
  <2>1. CASE q \in under BY <1>9, <2>1
  <2>2. CASE q \notin under BY <1>8, <2>2 DEF QuotaInv, InFlight
  <2> QED BY <2>1, <2>2
<1>12. ~unguarded' => UNCHANGED creation
  <2> SUFFICES ASSUME under = {} PROVE creation' = creation BY <1>7
  <2> QED BY <1>7 DEF QuotaInv, QuotaTypes
<1>13. \A k \in Customer : /\ domains'[k] + givenDomains[k] <= domains[k] + givenDomains'[k]
                           /\ databases'[k] + givenDatabases[k]
                                  <= databases[k] + givenDatabases'[k]
  <2> TAKE k \in Customer
  <2>1. /\ domains[k] \in Nat /\ databases[k] \in Nat /\ domains'[k] \in Nat /\ databases'[k] \in Nat
        /\ givenDomains[k] \in Nat /\ givenDatabases[k] \in Nat
    BY <1>2, <1>3, <1>5
  <2>2. CASE k = to
    <3>1. givenDomains'[k] = givenDomains[k] + n /\ givenDatabases'[k] = givenDatabases[k] + m
      BY <1>4, <2>2
    <3> QED BY <1>1, <1>3, <2>1, <2>2, <3>1
  <2>3. CASE k # to
    <3>1. givenDomains'[k] = givenDomains[k] /\ givenDatabases'[k] = givenDatabases[k]
      BY <1>4, <2>1, <2>3
    <3>2. domains'[k] <= domains[k] /\ databases'[k] <= databases[k]
      BY <1>1, <1>3, <2>1, <2>3
    <3> QED BY <2>1, <3>1, <3>2
  <2> QED BY <2>2, <2>3
<1> QED BY <1>7, <1>10, <1>11, <1>12, <1>13, GivenKeeps

\* Every step of the gate keeps the invariant.
LEMMA QuotaStep == ASSUME QuotaAssumption, QuotaInv, [QuotaNext]_quotaVars PROVE QuotaInv'
<1>1. CASE UNCHANGED quotaVars
  BY <1>1 DEF quotaVars, given, QuotaInv, QuotaTypes, InFlight, RoomFound, PastPlan, Room,
              PlanIsKept
<1>2. CASE QuotaNext
  BY <1>2, CreateKeeps, CheckKeeps, InsertRowKeeps, RemoveKeeps, RestoreKeeps, MoveKeeps
     DEF QuotaNext
<1> QED BY <1>1, <1>2

(***************************************************************************)
(* No customer ever has more than its plan allows and what came to it      *)
(* without a check, but for a creation that ran without the lock beside    *)
(* another one or lost its domain to a move (customerMu: "Callers hold the *)
(* lock across both the CheckDatabaseAllowed call and the account          *)
(* creation").                                                             *)
(***************************************************************************)
THEOREM PlanCeiling == ASSUME QuotaAssumption PROVE QuotaSpec => []PlanIsKept
<1>1. QuotaInit => QuotaInv BY QuotaStarts
<1>2. QuotaInv /\ [QuotaNext]_quotaVars => QuotaInv' BY QuotaStep
<1>3. QuotaInv => PlanIsKept BY DEF QuotaInv
<1> QED BY <1>1, <1>2, <1>3, PTL DEF QuotaSpec

(***************************************************************************)
(* The lock implements exclusive use of a customer by the creations that   *)
(* got it: one enters with the lock, which InFlight says nobody else has   *)
(* noted, and leaves with its row or with any refusal.                     *)
(***************************************************************************)
servedBy == [q \in Creation |-> IF creation[q].locked THEN creation[q].customer ELSE Free]

\* Where nobody gets a lock, a step is a step of ExclusiveUse: some have left.
LEMMA NobodyGetsTheLock ==
    ASSUME \A q \in Creation : creation'[q].locked =>
               creation[q].locked /\ creation'[q].customer = creation[q].customer
    PROVE  CustomerUse!Next
<1>1. PICK gone \in SUBSET Creation : gone = {q \in Creation : ~creation'[q].locked} OBVIOUS
<1>2. CustomerUse!Leave(gone) BY <1>1 DEF CustomerUse!Leave
<1> QED BY <1>2 DEF CustomerUse!Next

\* Every step of a creation is a step of ExclusiveUse, or leaves it alone.
LEMMA LockStep ==
    ASSUME QuotaAssumption, QuotaInv, [QuotaNext]_quotaVars
    PROVE  CustomerUse!Next \/ UNCHANGED servedBy
<1> USE DEF QuotaAssumption
<1>1. ASSUME NEW q \in Creation, NEW k \in Customer, NEW kind \in {"addon", "database"},
             CreateLocked(q, k, kind), customerMu[k] \in {Free, q}
      PROVE  CustomerUse!Next \/ UNCHANGED servedBy
  <2>1. creation[q] = Unasked /\ ~creation[q].locked BY <1>1 DEF CreateLocked, Unasked
  <2>2. ASSUME NEW p \in Creation, servedBy[p] = k PROVE FALSE
    <3>1. creation[p].locked /\ creation[p].customer = k BY <2>2 DEF servedBy
    <3>2. creation[p].at # "idle" BY <3>1 DEF QuotaInv, InFlight, Unasked
    <3>3. customerMu[k] = p BY <3>1, <3>2 DEF QuotaInv, InFlight
    <3> QED BY <1>1, <2>1, <3>1, <3>3
  <2>3. CASE creation'[q].locked
    <3>1. servedBy' = [servedBy EXCEPT ![q] = k]
      BY <1>1, <2>3 DEF CreateLocked, servedBy, QuotaInv, QuotaTypes
    <3>2. CustomerUse!Enter(q, k)
      BY <2>1, <2>2, <3>1 DEF servedBy, CustomerUse!Enter
    <3> QED BY <3>2 DEF CustomerUse!Next
  <2>4. CASE ~creation'[q].locked
    BY <1>1, <2>1, <2>4, NobodyGetsTheLock DEF CreateLocked, QuotaInv, QuotaTypes
  <2> QED BY <2>3, <2>4
<1>2. ASSUME NEW q \in Creation, NEW k \in Customer, NEW kind \in {"addon", "database"},
             CreateLocked(q, k, kind), customerMu[k] \notin {Free, q}
      PROVE  CustomerUse!Next
  <2>1. creation[q] = Unasked /\ UNCHANGED customerMu
    BY <1>2 DEF CreateLocked, LockCustomerForDomain
  <2>2. ~creation'[q].locked
    BY <1>2, <2>1 DEF CreateLocked, QuotaInv, QuotaTypes
  <2> QED
    BY <1>2, <2>1, <2>2, NobodyGetsTheLock DEF CreateLocked, QuotaInv, QuotaTypes, Unasked
<1>3. ASSUME NEW q \in Creation, NEW k \in Customer, NEW caller \in {"reseller", "administrator"},
             CreateTopLevel(q, k, caller)
      PROVE  CustomerUse!Next
  BY <1>3, NobodyGetsTheLock DEF CreateTopLevel, QuotaInv, QuotaTypes
<1>4. ASSUME NEW q \in Creation, CheckPlan(q) \/ CheckReseller(q) \/ InsertRow(q)
      PROVE  CustomerUse!Next
  <2>1. Ends(q) \/ \E at \in {"plan", "reseller", "insert"} : GoesOn(q, at)
    BY <1>4 DEF CheckPlan, CheckReseller, InsertRow
  <2> QED BY <2>1, NobodyGetsTheLock DEF Ends, GoesOn, Unasked, QuotaInv, QuotaTypes
<1>5. CASE (\E k \in Customer : Delete(k) \/ reRegisterRestoredDB(k)) \/ UNCHANGED quotaVars
  BY <1>5 DEF Delete, reRegisterRestoredDB, quotaVars, servedBy
<1>6. ASSUME NEW from, NEW to, NEW n, NEW m, NEW under, BulkOwner(from, to, n, m, under)
      PROVE  CustomerUse!Next
  <2>1. creation' = [q \in Creation |->
                        IF q \in under THEN [creation[q] EXCEPT !.customer = to, !.locked = FALSE]
                                       ELSE creation[q]]
    BY <1>6 DEF BulkOwner
  <2>2. \A q \in Creation : creation'[q].locked => creation'[q] = creation[q]
    <3>1. \A q \in Creation :
             creation[q] \in [at : {"idle", "plan", "reseller", "insert"},
                             kind : {"none", "addon", "top", "free", "database"},
                             customer : Customer \cup {Free}, locked : BOOLEAN]
      BY DEF QuotaInv, QuotaTypes
    <3> QED BY <2>1, <3>1
  <2> QED BY <2>2, NobodyGetsTheLock
<1> QED BY <1>1, <1>2, <1>3, <1>4, <1>5, <1>6 DEF QuotaNext

\* The customer's lock implements exclusive use of the customer (refinement).
THEOREM LockRefinesExclusiveUse == ASSUME QuotaAssumption PROVE QuotaSpec => CustomerUseSpec
<1>1. QuotaInit => QuotaInv /\ CustomerUse!Init
  <2>1. QuotaInit => CustomerUse!Init BY DEF QuotaInit, Unasked, CustomerUse!Init
  <2> QED BY <2>1, QuotaStarts
<1>2. QuotaInv /\ [QuotaNext]_quotaVars => QuotaInv' BY QuotaStep
<1>3. QuotaInv /\ [QuotaNext]_quotaVars => [CustomerUse!Next]_servedBy BY LockStep
<1> QED BY <1>1, <1>2, <1>3, PTL DEF QuotaSpec, CustomerUseSpec, CustomerUse!Spec, servedBy

(***************************************************************************)
(* The rows, the locks and the creations in flight keep their types.       *)
(***************************************************************************)
THEOREM QuotaTypeCorrect == ASSUME QuotaAssumption PROVE QuotaSpec => []QuotaTypeOK
<1> DEFINE Counted == lookupFaults \in 0..MaxLookupFaults
<1>1. QuotaInit => QuotaInv /\ Counted
  <2> SUFFICES ASSUME QuotaInit PROVE Counted BY QuotaStarts
  <2> QED BY DEF QuotaAssumption, QuotaInit
<1>2. QuotaInv /\ Counted /\ [QuotaNext]_quotaVars => QuotaInv' /\ Counted'
  <2> SUFFICES ASSUME QuotaInv, Counted, [QuotaNext]_quotaVars PROVE Counted' BY QuotaStep
  <2>1. \/ UNCHANGED lookupFaults
        \/ lookupFaults < MaxLookupFaults /\ lookupFaults' = lookupFaults + 1
    <3>1. CASE \E q \in Creation, k \in Customer, kind \in {"addon", "database"} :
                  CreateLocked(q, k, kind)
      BY <3>1 DEF CreateLocked, LockCustomerForDomain
    <3>2. CASE \E q \in Creation :
                  \/ \E k \in Customer, caller \in {"reseller", "administrator"} :
                        CreateTopLevel(q, k, caller)
                  \/ CheckPlan(q) \/ CheckReseller(q) \/ InsertRow(q)
      BY <3>2 DEF CreateTopLevel, CheckPlan, CheckReseller, InsertRow
    <3>3. CASE \E k \in Customer : Delete(k) \/ reRegisterRestoredDB(k)
      BY <3>3 DEF Delete, reRegisterRestoredDB
    <3>4. CASE \E from, to, n, m, under : BulkOwner(from, to, n, m, under)
      <4>1. ASSUME NEW from, NEW to, NEW n, NEW m, NEW under, BulkOwner(from, to, n, m, under)
            PROVE  UNCHANGED <<customerMu, lookupFaults>>
        BY <4>1, Zenon DEF BulkOwner
      <4>2. UNCHANGED <<customerMu, lookupFaults>> BY <3>4, <4>1, Zenon
      <4> QED BY <4>2
    <3>5. CASE UNCHANGED quotaVars BY <3>5 DEF quotaVars
    <3>6. CASE QuotaNext
      <4>1. CASE \E q \in Creation, k \in Customer :
                    \/ \E caller \in {"reseller", "administrator"} : CreateTopLevel(q, k, caller)
                    \/ \E kind \in {"addon", "database"} : CreateLocked(q, k, kind)
        BY <3>1, <3>2, <4>1
      <4>2. CASE \E q \in Creation : CheckPlan(q) \/ CheckReseller(q) \/ InsertRow(q)
        BY <3>2, <4>2
      <4>3. CASE \E from, to \in Customer \cup {Free}, n \in 1..MaxGiven, m \in 0..MaxGiven,
                    under \in SUBSET Creation : BulkOwner(from, to, n, m, under)
        BY <3>4, <4>3
      <4> QED BY <3>3, <3>6, <4>1, <4>2, <4>3 DEF QuotaNext
    <3> QED BY <3>5, <3>6
  <2> QED BY <2>1 DEF QuotaAssumption
<1>3. QuotaInv /\ Counted => QuotaTypeOK BY DEF QuotaInv, QuotaTypes, QuotaTypeOK
<1> QED BY <1>1, <1>2, <1>3, PTL DEF QuotaSpec

-----------------------------------------------------------------------------
(***************************************************************************)
(* The sum over the customers is a fold, a recursion over their subsets.   *)
(* That it has a solution, and what the sum of a changed function is,      *)
(* follows from there being no least counterexample.                       *)
(***************************************************************************)
\* A set of numbers without a least one is empty.
LEMMA Descent ==
    ASSUME NEW B \in SUBSET Nat, 0 \notin B, \A n \in Nat : n + 1 \in B => n \in B
    PROVE  B = {}
<1> SUFFICES ASSUME B # {} PROVE FALSE
  OBVIOUS
<1>1. PICK x \in B : \A y \in B : ~(<<y, x>> \in OpToRel(<, Nat))
  BY WFMin, NatLessThanWellFounded
<1>2. \A y \in B : ~(y < x) BY <1>1 DEF OpToRel
<1>3. x \in Nat /\ x # 0 OBVIOUS
<1>4. x - 1 \in Nat /\ (x - 1) + 1 = x BY <1>3
<1>5. x - 1 \in B BY <1>4
<1> QED BY <1>2, <1>3, <1>5

\* The sum takes the members of a set in the order in which Pick chooses them.
Pick(s) == CHOOSE x \in s : TRUE

IsSum(g, f, D) ==
    g = [s \in D |-> IF s = {} THEN 0 ELSE f[Pick(s)] + g[s \ {Pick(s)}]]

Sum(f, S) == CHOOSE g : IsSum(g, f, SUBSET S)

\* One member less.
LEMMA Picked ==
    ASSUME NEW S, IsFiniteSet(S), NEW s \in SUBSET S
    PROVE  /\ Cardinality(s) \in Nat /\ (Cardinality(s) = 0 <=> s = {})
           /\ s # {} => /\ Pick(s) \in s /\ s \ {Pick(s)} \in SUBSET S
                        /\ Cardinality(s \ {Pick(s)}) = Cardinality(s) - 1
<1>1. IsFiniteSet(s) BY FS_Subset
<1>2. Cardinality(s) \in Nat /\ (Cardinality(s) = 0 <=> s = {})
  BY <1>1, FS_CardinalityType, FS_EmptySet
<1>3. ASSUME s # {} PROVE Pick(s) \in s BY <1>3 DEF Pick
<1>4. ASSUME s # {} PROVE Cardinality(s \ {Pick(s)}) = Cardinality(s) - 1
  BY <1>1, <1>3, <1>4, FS_RemoveElement
<1> QED BY <1>2, <1>3, <1>4

\* Of the subsets none is left that is left by every one it was picked from.
LEMMA SetDescent ==
    ASSUME NEW S, IsFiniteSet(S), NEW B \in SUBSET SUBSET S, {} \notin B,
           \A s \in B : s \ {Pick(s)} \in B
    PROVE  B = {}
<1> DEFINE C == {n \in Nat : \E s \in B : Cardinality(s) = n}
<1>0. \A s \in SUBSET S : Cardinality(s) \in Nat /\ (Cardinality(s) = 0 <=> s = {})
  BY Picked
<1>1. 0 \notin C BY <1>0
<1>2. ASSUME NEW n \in Nat, n + 1 \in C PROVE n \in C
  <2>1. PICK s \in B : Cardinality(s) = n + 1 BY <1>2
  <2>2. s # {} /\ s \in SUBSET S OBVIOUS
  <2>3. Cardinality(s \ {Pick(s)}) = n BY <2>1, <2>2, Picked
  <2> QED BY <2>1, <2>3
<1>3. C \in SUBSET Nat OBVIOUS
<1>4. \A s \in B : Cardinality(s) \in C BY <1>0
<1> HIDE DEF C
<1>5. C = {} BY <1>1, <1>2, <1>3, Descent
<1> QED BY <1>4, <1>5

\* The recursion has a solution.
LEMMA SumExists ==
    ASSUME NEW S, IsFiniteSet(S), NEW f PROVE IsSum(Sum(f, S), f, SUBSET S)
<1> DEFINE D(n) == {s \in SUBSET S : Cardinality(s) <= n}
           B == {n \in Nat : ~\E g : IsSum(g, f, D(n))}
<1>0. \A s \in SUBSET S : Cardinality(s) \in Nat /\ (Cardinality(s) = 0 <=> s = {})
  BY Picked
<1>1. 0 \notin B
  <2> DEFINE g == [s \in D(0) |-> 0]
  <2>1. \A s \in D(0) : s = {} BY <1>0
  <2>2. IsSum(g, f, D(0)) BY <2>1 DEF IsSum
  <2> QED BY <2>2
<1>2. ASSUME NEW n \in Nat, n \notin B PROVE n + 1 \notin B
  <2>1. PICK g : IsSum(g, f, D(n)) BY <1>2
  <2> DEFINE h == [s \in D(n + 1) |-> IF s = {} THEN 0 ELSE f[Pick(s)] + g[s \ {Pick(s)}]]
  <2>2. \A s \in D(n) : s \in D(n + 1) BY <1>0
  <2>3. ASSUME NEW s \in D(n) PROVE h[s] = g[s]
    <3>1. g[s] = IF s = {} THEN 0 ELSE f[Pick(s)] + g[s \ {Pick(s)}] BY <2>1 DEF IsSum
    <3> QED BY <2>2, <3>1
  <2>4. ASSUME NEW s \in D(n + 1), s # {} PROVE h[s \ {Pick(s)}] = g[s \ {Pick(s)}]
    <3>1. s \ {Pick(s)} \in D(n) BY <2>4, Picked
    <3> QED BY <2>3, <3>1
  <2>5. \A s \in D(n + 1) :
          h[s] = IF s = {} THEN 0 ELSE f[Pick(s)] + h[s \ {Pick(s)}]
    BY <2>4
  <2>6. h = [s \in D(n + 1) |-> h[s]] OBVIOUS
  <2> HIDE DEF h, D
  <2>7. h = [s \in D(n + 1) |-> IF s = {} THEN 0 ELSE f[Pick(s)] + h[s \ {Pick(s)}]]
    BY <2>5, <2>6
  <2>8. IsSum(h, f, D(n + 1)) BY <2>7 DEF IsSum
  <2> QED BY <2>8
<1>3. B = {}
  <2>1. B \in SUBSET Nat OBVIOUS
  <2>2. \A n \in Nat : n + 1 \in B => n \in B BY <1>2
  <2> HIDE DEF B
  <2> QED BY <1>1, <2>1, <2>2, Descent
<1>4. PICK g : IsSum(g, f, D(Cardinality(S)))
  <2>1. Cardinality(S) \in Nat BY FS_CardinalityType
  <2> QED BY <1>3, <2>1
<1>5. D(Cardinality(S)) = SUBSET S BY FS_Subset
<1>6. IsSum(g, f, SUBSET S) BY <1>4, <1>5
<1> QED BY <1>6 DEF Sum

\* The equation of the sum.
LEMMA SumIs ==
    ASSUME NEW S, IsFiniteSet(S), NEW f, NEW s \in SUBSET S
    PROVE  Sum(f, S)[s] = IF s = {} THEN 0 ELSE f[Pick(s)] + Sum(f, S)[s \ {Pick(s)}]
<1> DEFINE g == Sum(f, S)
<1>1. g = [t \in SUBSET S |-> IF t = {} THEN 0 ELSE f[Pick(t)] + g[t \ {Pick(t)}]]
  BY SumExists DEF IsSum
<1> HIDE DEF g
<1>2. g[s] = IF s = {} THEN 0 ELSE f[Pick(s)] + g[s \ {Pick(s)}] BY <1>1
<1> QED BY <1>2 DEF g

\* It is a number.
LEMMA SumIsNat ==
    ASSUME NEW S, IsFiniteSet(S), NEW f \in [S -> Nat]
    PROVE  \A s \in SUBSET S : Sum(f, S)[s] \in Nat
<1> DEFINE B == {s \in SUBSET S : Sum(f, S)[s] \notin Nat}
<1>1. {} \notin B
  <2>1. Sum(f, S)[{}] = 0 BY SumIs
  <2> QED BY <2>1
<1>2. ASSUME NEW s \in B PROVE s \ {Pick(s)} \in B
  <2>1. s \in SUBSET S /\ s # {} BY <1>1
  <2>2. Sum(f, S)[s] = f[Pick(s)] + Sum(f, S)[s \ {Pick(s)}] BY <2>1, SumIs
  <2>3. f[Pick(s)] \in Nat /\ s \ {Pick(s)} \in SUBSET S BY <2>1, Picked
  <2> DEFINE a == f[Pick(s)]
             b == Sum(f, S)[s \ {Pick(s)}]
  <2>4. a + b \notin Nat /\ a \in Nat BY <2>2, <2>3
  <2> HIDE DEF a, b
  <2>5. b \notin Nat BY <2>4
  <2> QED BY <2>3, <2>5 DEF b
<1>3. B \in SUBSET SUBSET S OBVIOUS
<1> HIDE DEF B
<1>4. B = {} BY <1>1, <1>2, <1>3, SetDescent
<1> QED BY <1>4 DEF B

\* It is nothing when its terms are.
LEMMA SumOfNothing ==
    ASSUME NEW S, IsFiniteSet(S), NEW f \in [S -> Nat], \A k \in S : f[k] = 0
    PROVE  Sum(f, S)[S] = 0
<1> DEFINE B == {s \in SUBSET S : Sum(f, S)[s] # 0}
<1>1. {} \notin B
  <2>1. Sum(f, S)[{}] = 0 BY SumIs
  <2> QED BY <2>1
<1>2. ASSUME NEW s \in B PROVE s \ {Pick(s)} \in B
  <2>1. s \in SUBSET S /\ s # {} BY <1>1
  <2>2. Sum(f, S)[s] = f[Pick(s)] + Sum(f, S)[s \ {Pick(s)}] BY <2>1, SumIs
  <2>3. f[Pick(s)] = 0 /\ s \ {Pick(s)} \in SUBSET S BY <2>1, Picked
  <2>4. Sum(f, S)[s \ {Pick(s)}] # 0 BY <2>2, <2>3
  <2> QED BY <2>3, <2>4
<1>3. B \in SUBSET SUBSET S OBVIOUS
<1> HIDE DEF B
<1>4. B = {} BY <1>1, <1>2, <1>3, SetDescent
<1> QED BY <1>4 DEF B

\* It moves with one of its terms.
LEMMA SumMoves ==
    ASSUME NEW S, IsFiniteSet(S), NEW f \in [S -> Nat], NEW g \in [S -> Nat], NEW k \in S,
           \A j \in S \ {k} : g[j] = f[j]
    PROVE  Sum(g, S)[S] + f[k] = Sum(f, S)[S] + g[k]
<1>0. \A s \in SUBSET S :
        /\ Sum(f, S)[s] = IF s = {} THEN 0 ELSE f[Pick(s)] + Sum(f, S)[s \ {Pick(s)}]
        /\ Sum(g, S)[s] = IF s = {} THEN 0 ELSE g[Pick(s)] + Sum(g, S)[s \ {Pick(s)}]
  BY SumIs
<1> DEFINE F(s) == Sum(f, S)[s]
           G(s) == Sum(g, S)[s]
           x(s) == IF k \in s THEN f[k] ELSE 0
           y(s) == IF k \in s THEN g[k] ELSE 0
           B == {s \in SUBSET S : G(s) + x(s) # F(s) + y(s)}
<1>1. \A s \in SUBSET S : F(s) \in Nat /\ G(s) \in Nat /\ x(s) \in Nat /\ y(s) \in Nat
  BY SumIsNat
<1>2. {} \notin B
  <2>1. F({}) = 0 /\ G({}) = 0 BY SumIs
  <2> QED BY <2>1
<1>3. ASSUME NEW s \in SUBSET S, s # {}, s \ {Pick(s)} \notin B PROVE s \notin B
  <2> DEFINE p == Pick(s)
             t == s \ {p}
  <2>1. p \in s /\ p \in S /\ t \in SUBSET S BY <1>3, Picked
  <2>2. F(s) = f[p] + F(t) /\ G(s) = g[p] + G(t)
    <3>1. F(s) = IF s = {} THEN 0 ELSE f[p] + F(t) BY <1>0
    <3>2. G(s) = IF s = {} THEN 0 ELSE g[p] + G(t) BY <1>0
    <3> HIDE DEF F, G, p, t
    <3> QED BY <1>3, <3>1, <3>2
  <2>3. G(t) + x(t) = F(t) + y(t) BY <1>3, <2>1
  <2>4. CASE p = k
    <3>1. x(t) = 0 /\ y(t) = 0 /\ x(s) = f[p] /\ y(s) = g[p] BY <2>1, <2>4
    <3>2. F(t) \in Nat /\ G(t) \in Nat /\ f[p] \in Nat /\ g[p] \in Nat BY <1>1, <2>1
    <3> HIDE DEF F, G, x, y, t, p
    <3>3. G(s) + x(s) = F(s) + y(s) BY <2>2, <2>3, <3>1, <3>2
    <3> QED BY <3>3
  <2>5. CASE p # k
    <3>1. x(t) = x(s) /\ y(t) = y(s) /\ f[p] = g[p] BY <2>1, <2>5
    <3>2. /\ F(t) \in Nat /\ G(t) \in Nat /\ f[p] \in Nat
          /\ x(s) \in Nat /\ y(s) \in Nat
      BY <1>1, <2>1
    <3> HIDE DEF F, G, x, y, t, p
    <3>3. G(s) + x(s) = F(s) + y(s) BY <2>2, <2>3, <3>1, <3>2
    <3> QED BY <3>3
  <2> QED BY <2>4, <2>5
<1>4. \A s \in B : s \ {Pick(s)} \in B BY <1>2, <1>3
<1>5. B \in SUBSET SUBSET S OBVIOUS
<1>6. S \notin B
  <2> HIDE DEF B
  <2> QED BY <1>2, <1>4, <1>5, SetDescent
<1>7. G(S) + x(S) = F(S) + y(S) BY <1>6
<1> QED BY <1>7

\* The reseller's total is such a sum.
LEMMA TotalIs ==
    /\ ResellerTotal = Sum(domains, Customer)[Customer]
    /\ ResellerTotal' = Sum(domains', Customer)[Customer]
BY DEF ResellerTotal, MapThenSumSet, MapThenFoldSet, Sum, IsSum, Pick

LEMMA TotalMoves ==
    ASSUME QuotaAssumption, domains \in [Customer -> Nat], domains' \in [Customer -> Nat],
           NEW k \in Customer, \A j \in Customer \ {k} : domains'[j] = domains[j]
    PROVE  /\ ResellerTotal \in Nat /\ ResellerTotal' \in Nat
           /\ ResellerTotal' + domains[k] = ResellerTotal + domains'[k]
<1>1. IsFiniteSet(Customer) BY DEF QuotaAssumption
<1>2. ResellerTotal \in Nat /\ ResellerTotal' \in Nat BY <1>1, TotalIs, SumIsNat
<1>3. ResellerTotal' + domains[k] = ResellerTotal + domains'[k] BY <1>1, TotalIs, SumMoves
<1> QED BY <1>2, <1>3

-----------------------------------------------------------------------------
(***************************************************************************)
(* The reseller's ceiling.  A creation past its check of the reseller      *)
(* claims a row: with the lock its customer has one claim at most, and     *)
(* without it nobody has inserted a row since the check, or that has been  *)
(* noted.                                                                  *)
(***************************************************************************)
PastReseller(q) ==
    \/ creation[q].at = "insert" /\ creation[q].kind \in {"addon", "top"}
    \/ creation[q].at = "plan" /\ creation[q].kind = "top"

Claims ==
    {k \in Customer : \E q \in Creation :
        PastReseller(q) /\ creation[q].locked /\ creation[q].customer = k}

KindKnown == \A q \in Creation : creation[q].at # "idle" => creation[q].kind # "none"

ClaimsFit ==
    unguarded \/
        /\ ResellerTotal + Cardinality(Claims)
               < ResellerMaxDomain + unasked + Cardinality(Customer)
        /\ \A q \in Creation :
               PastReseller(q) /\ ~creation[q].locked
                  => ResellerTotal < ResellerMaxDomain + unasked

ResellerInv == KindKnown /\ ClaimsFit

\* Customers are counted.
LEMMA CustomersCounted ==
    ASSUME QuotaAssumption, NEW A \in SUBSET Customer, NEW B \in SUBSET A
    PROVE  /\ Cardinality(A) \in Nat /\ Cardinality(B) \in Nat /\ Cardinality(Customer) \in Nat
           /\ Cardinality(B) <= Cardinality(A) /\ Cardinality(A) <= Cardinality(Customer)
           /\ \A k \in A : Cardinality(A \ {k}) = Cardinality(A) - 1 /\ Cardinality(A) >= 1
<1>1. IsFiniteSet(Customer) BY DEF QuotaAssumption
<1>2. IsFiniteSet(A) /\ Cardinality(A) <= Cardinality(Customer) BY <1>1, FS_Subset
<1>3. IsFiniteSet(B) /\ Cardinality(B) <= Cardinality(A) BY <1>2, FS_Subset
<1>4. Cardinality(A) \in Nat /\ Cardinality(B) \in Nat /\ Cardinality(Customer) \in Nat
  BY <1>1, <1>2, <1>3, FS_CardinalityType
<1>5. ASSUME NEW k \in A PROVE Cardinality(A \ {k}) = Cardinality(A) - 1 /\ Cardinality(A) >= 1
  <2>1. IsFiniteSet(A \ {k}) /\ Cardinality(A \ {k}) = Cardinality(A) - 1
    BY <1>2, FS_RemoveElement
  <2>2. Cardinality(A \ {k}) \in Nat BY <2>1, FS_CardinalityType
  <2> QED BY <1>4, <2>1, <2>2
<1> QED BY <1>2, <1>3, <1>4, <1>5

\* A step that adds no claim, nor a row that is not counted as unasked.
LEMMA NoNewClaim ==
    ASSUME QuotaAssumption, ClaimsFit, ResellerTotal \in Nat, ResellerTotal' \in Nat,
           unasked \in Nat, unasked' \in Nat,
           ResellerTotal' + unasked <= ResellerTotal + unasked', unguarded => unguarded',
           \A q \in Creation : PastReseller(q)' =>
               /\ PastReseller(q) /\ creation'[q].customer = creation[q].customer
               /\ creation'[q].locked = creation[q].locked
    PROVE  ClaimsFit'
<1> SUFFICES ASSUME ~unguarded' PROVE ClaimsFit'
  BY DEF ClaimsFit
<1> DEFINE t == ResellerTotal
           u == ResellerTotal'
           m == ResellerMaxDomain
           n == Cardinality(Customer)
           c == Cardinality(Claims)
           b == Cardinality(Claims')
           e == unasked
           f == unasked'
<1>1. m \in Nat BY DEF QuotaAssumption
<1>2. Claims \in SUBSET Customer /\ Claims' \in SUBSET Claims BY DEF Claims
<1>3. n \in Nat /\ c \in Nat /\ b \in Nat /\ b <= c BY <1>2, CustomersCounted
<1>4. /\ t + c < m + e + n
      /\ \A q \in Creation : PastReseller(q) /\ ~creation[q].locked => t < m + e
  BY DEF ClaimsFit
<1>5. t \in Nat /\ u \in Nat /\ e \in Nat /\ f \in Nat /\ u + e <= t + f OBVIOUS
<1>6. u + b < m + f + n
  <2> HIDE DEF t, u, m, n, c, b, e, f
  <2> QED BY <1>1, <1>3, <1>4, <1>5
<1>7. ASSUME NEW q \in Creation, PastReseller(q)', ~creation'[q].locked PROVE u < m + f
  <2>1. t < m + e BY <1>4, <1>7
  <2> HIDE DEF t, u, m, e, f
  <2> QED BY <1>1, <1>5, <2>1
<1> QED BY <1>6, <1>7 DEF ClaimsFit

\* Without a row there is no change in the sum.
LEMMA SameTotal ==
    ASSUME QuotaAssumption, QuotaInv, domains' = domains, unasked' = unasked
    PROVE  /\ ResellerTotal \in Nat /\ ResellerTotal' \in Nat
           /\ unasked \in Nat /\ unasked' \in Nat
           /\ ResellerTotal' = ResellerTotal
           /\ ResellerTotal' + unasked <= ResellerTotal + unasked'
<1>1. ResellerTotal' = ResellerTotal BY TotalIs
<1>2. ResellerTotal \in Nat
  <2>1. IsFiniteSet(Customer) BY DEF QuotaAssumption
  <2>2. domains \in [Customer -> Nat] BY DEF QuotaInv, QuotaTypes
  <2> QED BY <2>1, <2>2, TotalIs, SumIsNat
<1>3. unasked \in Nat BY DEF QuotaInv, QuotaTypes, QuotaAssumption
<1> DEFINE t == ResellerTotal
<1>4. t + unasked <= t + unasked
  <2> HIDE DEF t
  <2> QED BY <1>2, <1>3 DEF t
<1> QED BY <1>1, <1>2, <1>3, <1>4

\* Nobody claims anything at the start.
LEMMA ResellerStarts == ASSUME QuotaAssumption, QuotaInit PROVE ResellerInv
<1>1. KindKnown BY DEF KindKnown, QuotaInit, Unasked
<1>2. IsFiniteSet(Customer) BY DEF QuotaAssumption
<1>3. ResellerTotal = 0
  <2>1. domains \in [Customer -> Nat] /\ \A k \in Customer : domains[k] = 0 BY DEF QuotaInit
  <2> QED BY <1>2, <2>1, TotalIs, SumOfNothing
<1>4. \A q \in Creation : ~PastReseller(q) BY DEF PastReseller, QuotaInit, Unasked
<1>5. Claims = {} BY <1>4 DEF Claims
<1>6. Cardinality(Claims) = 0 /\ Cardinality(Customer) \in Nat
  BY <1>2, <1>5, FS_EmptySet, FS_CardinalityType
<1>7. ResellerMaxDomain \in Nat \ {0} /\ unasked = 0 BY DEF QuotaAssumption, QuotaInit
<1> QED BY <1>1, <1>3, <1>4, <1>6, <1>7 DEF ResellerInv, ClaimsFit

\* A request that comes in has no claim yet.
LEMMA CreateKeepsClaims ==
    ASSUME QuotaAssumption, QuotaInv, ResellerInv, NEW q \in Creation, NEW k \in Customer,
           \/ \E caller \in {"reseller", "administrator"} : CreateTopLevel(q, k, caller)
           \/ \E kind \in {"addon", "database"} : CreateLocked(q, k, kind)
    PROVE  ResellerInv'
<1>1. PICK a \in {"plan", "reseller"}, kind \in {"addon", "database", "top", "free"}, l \in BOOLEAN :
        /\ creation' = [creation EXCEPT ![q] = [at |-> a, kind |-> kind, customer |-> k,
                                                locked |-> l]]
        /\ a = "reseller" <=> kind = "top"
  BY DEF CreateTopLevel, CreateLocked
<1>2. domains' = domains /\ unguarded' = unguarded /\ unasked' = unasked
  BY DEF CreateTopLevel, CreateLocked, given
<1>3. /\ creation'[q].at = a /\ creation'[q].kind = kind
      /\ \A r \in Creation \ {q} : creation'[r] = creation[r]
  BY <1>1 DEF QuotaInv, QuotaTypes
<1>4. KindKnown' BY <1>3 DEF KindKnown, ResellerInv
<1>5. ~PastReseller(q)' BY <1>1, <1>3 DEF PastReseller
<1>6. \A r \in Creation : PastReseller(r)' =>
          /\ PastReseller(r) /\ creation'[r].customer = creation[r].customer
          /\ creation'[r].locked = creation[r].locked
  BY <1>3, <1>5 DEF PastReseller
<1>7. ClaimsFit' BY <1>2, <1>6, SameTotal, NoNewClaim DEF ResellerInv
<1> QED BY <1>4, <1>7 DEF ResellerInv

\* A request that ends without a row, or with an unasked one, gives up its claim.
LEMMA EndKeepsClaims ==
    ASSUME QuotaAssumption, QuotaInv, ResellerInv, NEW q \in Creation, Ends(q),
           ResellerTotal \in Nat, ResellerTotal' \in Nat, unasked \in Nat, unasked' \in Nat,
           ResellerTotal' + unasked <= ResellerTotal + unasked', unguarded => unguarded'
    PROVE  ResellerInv'
<1>1. /\ creation'[q] = Unasked
      /\ \A r \in Creation \ {q} : creation'[r] = creation[r]
  BY EndKeepsFlights DEF QuotaInv
<1>2. KindKnown' BY <1>1 DEF KindKnown, ResellerInv, Unasked
<1>3. ~PastReseller(q)' BY <1>1 DEF PastReseller, Unasked
<1>4. \A r \in Creation : PastReseller(r)' =>
          /\ PastReseller(r) /\ creation'[r].customer = creation[r].customer
          /\ creation'[r].locked = creation[r].locked
  BY <1>1, <1>3 DEF PastReseller
<1>5. ClaimsFit' BY <1>4, NoNewClaim DEF ResellerInv
<1> QED BY <1>2, <1>5 DEF ResellerInv

\* The plan's check makes no claim; the reseller's makes one while there is room.
LEMMA CheckKeepsClaims ==
    ASSUME QuotaAssumption, QuotaInv, ResellerInv, NEW q \in Creation,
           CheckPlan(q) \/ CheckReseller(q)
    PROVE  ResellerInv'
<1>1. domains' = domains /\ unguarded' = unguarded /\ unasked' = unasked
  BY DEF CheckPlan, CheckReseller, given
<1>2. CASE Ends(q) BY <1>1, <1>2, SameTotal, EndKeepsClaims
<1>3. ASSUME NEW a \in {"plan", "reseller", "insert"}, GoesOn(q, a), creation[q].at # "idle",
             ~(PastReseller(q)' => PastReseller(q)) => ResellerTotal < ResellerMaxDomain
      PROVE  ResellerInv'
  <2>1. /\ creation'[q] = [creation[q] EXCEPT !.at = a]
        /\ \A r \in Creation \ {q} : creation'[r] = creation[r]
    BY <1>3 DEF GoesOn, QuotaInv, QuotaTypes
  <2>2. creation[q] \in [at : {"idle", "plan", "reseller", "insert"},
                         kind : {"none", "addon", "top", "free", "database"},
                         customer : Customer \cup {Free}, locked : BOOLEAN]
    BY DEF QuotaInv, QuotaTypes
  <2>3. /\ creation'[q].kind = creation[q].kind /\ creation'[q].customer = creation[q].customer
        /\ creation'[q].locked = creation[q].locked
    <3> DEFINE c == creation[q]
               d == creation'[q]
               T == [at : {"idle", "plan", "reseller", "insert"},
                     kind : {"none", "addon", "top", "free", "database"},
                     customer : Customer \cup {Free}, locked : BOOLEAN]
    <3>1. d = [c EXCEPT !.at = a] /\ c \in T BY <2>1, <2>2
    <3> HIDE DEF c, d
    <3>2. d.kind = c.kind /\ d.customer = c.customer /\ d.locked = c.locked BY <3>1
    <3> QED BY <3>2 DEF c, d
  <2>4. KindKnown'
    <3>1. creation'[q].kind # "none" BY <1>3, <2>3 DEF KindKnown, ResellerInv
    <3> QED BY <2>1, <3>1 DEF KindKnown, ResellerInv
  <2>5. \A r \in Creation \ {q} : PastReseller(r)' <=> PastReseller(r)
    BY <2>1 DEF PastReseller
  <2>6. CASE PastReseller(q)' => PastReseller(q)
    <3>1. \A r \in Creation : PastReseller(r)' =>
              /\ PastReseller(r) /\ creation'[r].customer = creation[r].customer
              /\ creation'[r].locked = creation[r].locked
      BY <2>1, <2>3, <2>5, <2>6
    <3>2. ClaimsFit' BY <1>1, <3>1, SameTotal, NoNewClaim DEF ResellerInv
    <3> QED BY <2>4, <3>2 DEF ResellerInv
  <2>7. CASE ResellerTotal < ResellerMaxDomain
    <3> DEFINE t == ResellerTotal
               m == ResellerMaxDomain
               n == Cardinality(Customer)
               b == Cardinality(Claims')
               e == unasked
    <3>1. t \in Nat /\ m \in Nat /\ e \in Nat BY <1>1, SameTotal DEF QuotaAssumption
    <3>2. Claims' \in SUBSET Customer BY DEF Claims
    <3>3. n \in Nat /\ b \in Nat /\ b <= n BY <3>2, CustomersCounted
    <3>4. ResellerTotal' = t /\ unasked' = e BY <1>1, SameTotal
    <3>5. t < m BY <2>7
    <3> HIDE DEF t, m, n, b, e
    <3>6. t + b < m + e + n /\ t < m + e BY <3>1, <3>3, <3>5
    <3>7. ClaimsFit' BY <3>4, <3>6 DEF ClaimsFit, t, m, n, b, e
    <3> QED BY <2>4, <3>7 DEF ResellerInv
  <2> QED BY <1>3, <2>6, <2>7
<1>4. CASE CheckPlan(q)
  <2>1. creation[q].at = "plan" BY <1>4 DEF CheckPlan
  <2>2. PICK a \in {"reseller", "insert"} :
          /\ Ends(q) \/ GoesOn(q, a)
          /\ creation[q].kind = "addon" => a = "reseller"
    BY <1>4 DEF CheckPlan
  <2>3. ASSUME GoesOn(q, a) PROVE PastReseller(q)' => PastReseller(q)
    <3>1. creation'[q].at = a /\ creation'[q].kind = creation[q].kind
      BY <2>3 DEF GoesOn, QuotaInv, QuotaTypes
    <3> QED BY <2>1, <2>2, <3>1 DEF PastReseller
  <2> QED BY <1>2, <1>3, <2>1, <2>2, <2>3
<1>5. CASE CheckReseller(q)
  <2>1. creation[q].at = "reseller" BY <1>5 DEF CheckReseller
  <2>2. \/ Ends(q)
        \/ ~ResellerFull /\ \E a \in {"insert", "plan"} : GoesOn(q, a)
    BY <1>5 DEF CheckReseller
  <2>3. ASSUME ~ResellerFull PROVE ResellerTotal < ResellerMaxDomain
    <3>1. ResellerTotal \in Nat /\ ResellerMaxDomain \in Nat
      BY <1>1, SameTotal DEF QuotaAssumption
    <3> QED BY <2>3, <3>1 DEF ResellerFull
  <2> QED BY <1>2, <1>3, <2>1, <2>2, <2>3
<1> QED BY <1>4, <1>5

\* A row uses up the claim of its creation, or was the only one in flight.
LEMMA InsertRowKeepsClaims ==
    ASSUME QuotaAssumption, QuotaInv, QuotaInv', ResellerInv, NEW q \in Creation, InsertRow(q)
    PROVE  ResellerInv'
<1> DEFINE k == creation[q].customer
<1>1. /\ creation[q].at = "insert" /\ k \in Customer /\ Ends(q)
      /\ creation[q].kind # "none" /\ creation[q].locked \in BOOLEAN
      /\ creation[q].kind \in {"addon", "top", "free", "database"}
  BY DEF InsertRow, QuotaInv, QuotaTypes, InFlight, ResellerInv, KindKnown
<1>2. /\ creation'[q] = Unasked
      /\ \A r \in Creation \ {q} : creation'[r] = creation[r]
  BY <1>1, EndKeepsFlights DEF QuotaInv
<1>3. /\ unguarded => unguarded'
      /\ ~unguarded' => \A r \in Creation \ {q} :
            creation[r] # Unasked => creation[q].locked /\ creation[r].locked
  BY DEF InsertRow
<1>4. CASE domains' = domains /\ unasked' = unasked
  BY <1>1, <1>3, <1>4, SameTotal, EndKeepsClaims
<1>5. CASE unguarded'
  <2>1. KindKnown' BY <1>2 DEF KindKnown, ResellerInv, Unasked
  <2> QED BY <1>5, <2>1 DEF ResellerInv, ClaimsFit
<1>6. ASSUME domains' = [domains EXCEPT ![k] = @ + 1]
      PROVE  /\ ResellerTotal \in Nat /\ ResellerTotal' \in Nat
             /\ ResellerTotal' = ResellerTotal + 1
  <2> DEFINE t == ResellerTotal
             u == ResellerTotal'
             x == domains[k]
  <2>1. /\ domains \in [Customer -> Nat] /\ domains' \in [Customer -> Nat]
        /\ domains'[k] = domains[k] + 1
        /\ \A j \in Customer \ {k} : domains'[j] = domains[j]
    BY <1>1, <1>6 DEF QuotaInv, QuotaTypes
  <2>2. t \in Nat /\ u \in Nat /\ u + x = t + (x + 1) /\ x \in Nat
    BY <1>1, <2>1, TotalMoves
  <2>3. u = t + 1
    <3> HIDE DEF t, u, x
    <3> QED BY <2>2
  <2> QED BY <2>2, <2>3
<1>7. CASE /\ creation[q].kind = "free" /\ unasked' = unasked + 1
           /\ domains' = [domains EXCEPT ![k] = @ + 1]
  <2> DEFINE t == ResellerTotal
             u == ResellerTotal'
             e == unasked
             f == unasked'
  <2>1. t \in Nat /\ u \in Nat /\ u = t + 1 BY <1>6, <1>7
  <2>2. e \in Nat /\ f \in Nat /\ f = e + 1 BY <1>7 DEF QuotaInv, QuotaTypes, QuotaAssumption
  <2>3. u + e <= t + f
    <3> HIDE DEF t, u, e, f
    <3> QED BY <2>1, <2>2
  <2> QED BY <1>1, <1>3, <2>1, <2>2, <2>3, EndKeepsClaims
<1>8. CASE /\ creation[q].kind \in {"addon", "top"} /\ unasked' = unasked /\ ~unguarded'
           /\ domains' = [domains EXCEPT ![k] = @ + 1]
  <2>1. domains' = [domains EXCEPT ![k] = @ + 1] /\ creation[q].kind # "database"
    BY <1>8
  <2>2. PastReseller(q) BY <1>1, <1>8 DEF PastReseller
  <2>3. KindKnown' BY <1>2 DEF KindKnown, ResellerInv, Unasked
  <2> DEFINE t == ResellerTotal
             u == ResellerTotal'
             m == ResellerMaxDomain
             n == Cardinality(Customer)
             c == Cardinality(Claims)
             b == Cardinality(Claims')
             e == unasked
  <2>4. t \in Nat /\ u \in Nat /\ u = t + 1 /\ e \in Nat
    BY <1>6, <1>8 DEF QuotaInv, QuotaTypes, QuotaAssumption
  <2>5. m \in Nat BY DEF QuotaAssumption
  <2>6. /\ t + c < m + e + n
        /\ ~creation[q].locked => t < m + e
    BY <1>3, <1>8, <2>2 DEF ResellerInv, ClaimsFit
  <2>7. Claims \in SUBSET Customer /\ Claims' \in SUBSET Claims
    <3>1. \A r \in Creation : PastReseller(r)' => PastReseller(r) /\ creation'[r] = creation[r]
      BY <1>2 DEF PastReseller, Unasked
    <3> QED BY <3>1 DEF Claims
  <2>8. /\ n \in Nat /\ c \in Nat /\ b \in Nat /\ b <= c
    BY <2>7, CustomersCounted
  <2>9. ASSUME NEW r \in Creation, PastReseller(r)' PROVE creation[q].locked /\ creation'[r].locked
    <3>1. r # q BY <1>2, <2>9 DEF PastReseller, Unasked
    <3>2. creation'[r] = creation[r] /\ creation[r] # Unasked
      BY <1>2, <2>9, <3>1 DEF PastReseller, Unasked
    <3> QED BY <1>3, <1>8, <3>1, <3>2
  <2>10. u + b < m + e + n
    <3>1. CASE ~creation[q].locked
      <4>1. Claims' = {} BY <2>9, <3>1 DEF Claims
      <4>2. b = 0 BY <4>1, FS_EmptySet
      <4>3. n >= 1
        <5>1. Customer \in SUBSET Customer /\ {} \in SUBSET Customer OBVIOUS
        <5> QED BY <1>1, <5>1, CustomersCounted
      <4>4. t < m + e BY <2>6, <3>1
      <4> HIDE DEF t, u, m, n, c, b, e
      <4> QED BY <2>4, <2>5, <2>8, <4>2, <4>3, <4>4
    <3>2. CASE creation[q].locked
      <4>1. k \in Claims BY <1>1, <2>2, <3>2 DEF Claims
      <4>2. k \notin Claims'
        <5> SUFFICES ASSUME NEW r \in Creation, PastReseller(r)', creation'[r].locked,
                            creation'[r].customer = k
                     PROVE  FALSE
          BY DEF Claims
        <5>1. r # q BY <1>2 DEF PastReseller, Unasked
        <5>2. creation'[r] = creation[r] /\ creation[r].at # "idle"
          BY <1>2, <5>1 DEF PastReseller
        <5>3. customerMu[k] = r BY <5>2 DEF QuotaInv, InFlight
        <5>4. customerMu[k] = q BY <1>1, <3>2 DEF QuotaInv, InFlight
        <5> QED BY <5>1, <5>3, <5>4
      <4>3. Claims' \in SUBSET (Claims \ {k}) BY <2>7, <4>2
      <4>4. Claims \ {k} \in SUBSET Customer /\ Claims \in SUBSET Customer BY <2>7
      <4>5. b <= Cardinality(Claims \ {k}) BY <4>3, <4>4, CustomersCounted
      <4>6. Cardinality(Claims \ {k}) = c - 1
        <5>1. {} \in SUBSET Claims OBVIOUS
        <5> QED BY <4>1, <4>4, <5>1, CustomersCounted
      <4>7. b <= c - 1 BY <4>5, <4>6
      <4>8. t + c < m + e + n BY <2>6
      <4> HIDE DEF t, u, m, n, c, b, e
      <4> QED BY <2>4, <2>5, <2>8, <4>7, <4>8
    <3> QED BY <1>1, <3>1, <3>2
  <2>11. unasked' = e BY <1>8
  <2>12. ClaimsFit' BY <2>9, <2>10, <2>11 DEF ClaimsFit
  <2> QED BY <2>3, <2>12 DEF ResellerInv
<1>9. \/ domains' = domains /\ unasked' = unasked
      \/ /\ domains' = [domains EXCEPT ![k] = @ + 1] /\ creation[q].kind # "database"
         /\ IF creation[q].kind = "free" THEN unasked' = unasked + 1 ELSE unasked' = unasked
  BY DEF InsertRow, given
<1>10. \/ domains' = domains /\ unasked' = unasked
       \/ /\ creation[q].kind = "free" /\ unasked' = unasked + 1
          /\ domains' = [domains EXCEPT ![k] = @ + 1]
       \/ /\ creation[q].kind \in {"addon", "top"} /\ unasked' = unasked
          /\ domains' = [domains EXCEPT ![k] = @ + 1]
  BY <1>1, <1>9
<1> QED BY <1>4, <1>5, <1>7, <1>8, <1>10

\* A deletion makes room here as well.
LEMMA DeleteKeepsClaims ==
    ASSUME QuotaAssumption, QuotaInv, QuotaInv', ResellerInv, NEW k \in Customer, Delete(k)
    PROVE  ResellerInv'
<1>1. creation' = creation /\ unguarded' = unguarded /\ unasked' = unasked BY DEF Delete, given
<1>2. KindKnown' BY <1>1 DEF KindKnown, ResellerInv
<1>3. /\ ResellerTotal \in Nat /\ ResellerTotal' \in Nat /\ unasked \in Nat /\ unasked' \in Nat
      /\ ResellerTotal' + unasked <= ResellerTotal + unasked'
  <2>1. CASE domains' = domains BY <1>1, <2>1, SameTotal
  <2>2. CASE domains' # domains
    <3>1. /\ domains \in [Customer -> Nat] /\ domains' \in [Customer -> Nat]
          /\ domains[k] > 0 /\ domains'[k] = domains[k] - 1
          /\ \A j \in Customer \ {k} : domains'[j] = domains[j]
      BY <2>2 DEF Delete, QuotaInv, QuotaTypes
    <3> DEFINE x == domains[k]
               t == ResellerTotal
               u == ResellerTotal'
               e == unasked
    <3>2. t \in Nat /\ u \in Nat /\ u + x = t + (x - 1) /\ x \in Nat
      BY <3>1, TotalMoves
    <3>3. e \in Nat BY DEF QuotaInv, QuotaTypes, QuotaAssumption
    <3>4. u + e <= t + e
      <4> HIDE DEF t, u, x, e
      <4> QED BY <3>2, <3>3
    <3> QED BY <1>1, <3>2, <3>3, <3>4
  <2> QED BY <2>1, <2>2
<1>4. \A q \in Creation : PastReseller(q)' =>
          /\ PastReseller(q) /\ creation'[q].customer = creation[q].customer
          /\ creation'[q].locked = creation[q].locked
  BY <1>1 DEF PastReseller
<1>5. ClaimsFit' BY <1>1, <1>3, <1>4, NoNewClaim DEF ResellerInv
<1> QED BY <1>2, <1>5 DEF ResellerInv

\* A move within the reseller's customers leaves their total; one from outside
\* adds to it what it adds to the unasked rows.
LEMMA TotalOfMoved ==
    ASSUME QuotaAssumption, QuotaInv, NEW from \in Customer \cup {Free},
           NEW to \in Customer \cup {Free}, NEW n \in Nat, from # to,
           from \in Customer => n <= domains[from], domains' = Moved(domains, n, from, to)
    PROVE  /\ ResellerTotal \in Nat /\ ResellerTotal' \in Nat
           /\ ResellerTotal' <= ResellerTotal + (IF from = Free THEN n ELSE 0)
<1>1. domains \in [Customer -> Nat] /\ IsFiniteSet(Customer) /\ Free \notin Customer
  BY DEF QuotaAssumption, QuotaInv, QuotaTypes
<1>2. PICK left \in [Customer -> Nat] :
        /\ \A k \in Customer \ {from} : left[k] = domains[k]
        /\ from \in Customer => left[from] + n = domains[from]
  <2>1. CASE from \in Customer
    <3> DEFINE left == [domains EXCEPT ![from] = domains[from] - n]
    <3>1. domains[from] - n \in Nat /\ (domains[from] - n) + n = domains[from]
      BY <1>1, <2>1
    <3>2. left \in [Customer -> Nat] BY <1>1, <2>1, <3>1
    <3>3. \A k \in Customer \ {from} : left[k] = domains[k] BY <1>1
    <3>4. left[from] + n = domains[from] BY <1>1, <2>1, <3>1
    <3> HIDE DEF left
    <3> QED BY <3>2, <3>3, <3>4
  <2>2. CASE from \notin Customer BY <1>1, <2>2
  <2> QED BY <2>1, <2>2
<1>3. /\ domains' \in [Customer -> Nat]
      /\ \A k \in Customer \ {from, to} : domains'[k] = domains[k]
      /\ from \in Customer => domains'[from] + n = domains[from]
      /\ to \in Customer => domains'[to] = domains[to] + n
  BY <1>1, RowsMoved
<1>4. \A k \in Customer \ {to} : domains'[k] = left[k]
  <2> TAKE k \in Customer \ {to}
  <2>1. CASE k # from BY <1>2, <1>3, <2>1
  <2>2. CASE k = from
    <3>1. domains'[k] + n = left[k] + n /\ domains'[k] \in Nat /\ left[k] \in Nat
      BY <1>2, <1>3, <2>2
    <3> QED BY <3>1
  <2> QED BY <2>1, <2>2
<1> DEFINE t == Sum(domains, Customer)[Customer]
           l == Sum(left, Customer)[Customer]
           u == Sum(domains', Customer)[Customer]
<1>5. t \in Nat /\ l \in Nat /\ u \in Nat BY <1>1, <1>3, SumIsNat
<1>6. IF from = Free THEN l = t ELSE l + n = t
  <2>1. CASE from \in Customer
    <3> DEFINE x == domains[from]
               y == left[from]
    <3>1. l + x = t + y BY <1>1, <1>2, <2>1, SumMoves
    <3>2. x \in Nat /\ y \in Nat /\ y + n = x BY <1>1, <1>2, <2>1
    <3>3. l + n = t
      <4> HIDE DEF t, l, x, y
      <4> QED BY <1>5, <3>1, <3>2
    <3> QED BY <1>1, <2>1, <3>3
  <2>2. CASE from \notin Customer
    <3>1. left = domains BY <1>1, <1>2, <2>2
    <3> QED BY <2>2, <3>1
  <2> QED BY <2>1, <2>2
<1>7. u <= l + n
  <2>1. CASE to \in Customer
    <3> DEFINE x == left[to]
               y == domains'[to]
    <3>1. u + x = l + y BY <1>1, <1>2, <1>3, <1>4, <2>1, SumMoves
    <3>2. x \in Nat /\ y = x + n BY <1>2, <1>3, <2>1
    <3> HIDE DEF u, l, x, y
    <3> QED BY <1>5, <3>1, <3>2
  <2>2. CASE to \notin Customer
    <3>1. domains' = left BY <1>2, <1>3, <1>4, <2>2
    <3>2. u = l BY <3>1
    <3> HIDE DEF u, l
    <3> QED BY <1>5, <3>2
  <2> QED BY <2>1, <2>2
<1>8. u <= t + (IF from = Free THEN n ELSE 0)
  <2> HIDE DEF t, l, u
  <2> QED BY <1>5, <1>6, <1>7
<1> QED BY <1>5, <1>8, TotalIs

\* Rows that come without a check add no claim.
LEMMA GivenKeepsClaims ==
    ASSUME QuotaAssumption, QuotaInv, QuotaInv', ResellerInv,
           NEW from \in Customer \cup {Free}, NEW to \in Customer \cup {Free},
           NEW n \in 1..MaxGiven, NEW m, NEW under, BulkOwner(from, to, n, m, under)
    PROVE  ResellerInv'
<1>1. /\ from # to /\ (from # Free => n <= domains[from])
      /\ domains' = Moved(domains, n, from, to)
      /\ unasked' = unasked + (IF from = Free THEN n ELSE 0)
      /\ unguarded' = (unguarded \/ under # {})
      /\ creation' = [q \in Creation |->
                          IF q \in under THEN [creation[q] EXCEPT !.customer = to, !.locked = FALSE]
                                         ELSE creation[q]]
  BY DEF BulkOwner
<1>2. KindKnown'
  <2>1. \A q \in Creation : creation'[q].at = creation[q].at /\ creation'[q].kind = creation[q].kind
    <3>1. \A q \in Creation :
             creation[q] \in [at : {"idle", "plan", "reseller", "insert"},
                             kind : {"none", "addon", "top", "free", "database"},
                             customer : Customer \cup {Free}, locked : BOOLEAN]
      BY DEF QuotaInv, QuotaTypes
    <3> QED BY <1>1, <3>1
  <2> QED BY <2>1 DEF KindKnown, ResellerInv
<1>3. CASE under # {} BY <1>1, <1>2, <1>3 DEF ResellerInv, ClaimsFit
<1>4. CASE under = {}
  <2>1. creation' = creation BY <1>1, <1>4 DEF QuotaInv, QuotaTypes
  <2>2. unasked \in Nat /\ unasked' \in Nat /\ n \in Nat
    BY DEF QuotaAssumption, QuotaInv, QuotaTypes
  <2>3. from \in Customer => n <= domains[from] BY <1>1 DEF QuotaAssumption
  <2> DEFINE t == ResellerTotal
             u == ResellerTotal'
             e == unasked
             f == unasked'
  <2>4. t \in Nat /\ u \in Nat /\ u <= t + (IF from = Free THEN n ELSE 0)
    BY <1>1, <2>2, <2>3, TotalOfMoved
  <2>5. u + unasked <= t + unasked'
    <3>1. e \in Nat /\ f \in Nat /\ f = e + (IF from = Free THEN n ELSE 0) BY <1>1, <2>2
    <3> HIDE DEF t, u, e, f
    <3>2. u + e <= t + f BY <2>2, <2>4, <3>1
    <3> QED BY <3>2 DEF t, u, e, f
  <2>6. \A q \in Creation : PastReseller(q)' =>
            /\ PastReseller(q) /\ creation'[q].customer = creation[q].customer
            /\ creation'[q].locked = creation[q].locked
    BY <2>1 DEF PastReseller
  <2>7. ClaimsFit' BY <1>1, <2>2, <2>4, <2>5, <2>6, NoNewClaim DEF ResellerInv
  <2> QED BY <1>2, <2>7 DEF ResellerInv
<1> QED BY <1>3, <1>4

\* Every step keeps the claims.
LEMMA ResellerStep ==
    ASSUME QuotaAssumption, QuotaInv, QuotaInv', ResellerInv, [QuotaNext]_quotaVars
    PROVE  ResellerInv'
<1>1. CASE UNCHANGED quotaVars \/ \E k \in Customer : reRegisterRestoredDB(k)
  <2>1. /\ domains' = domains /\ creation' = creation /\ unguarded' = unguarded
        /\ unasked' = unasked
    BY <1>1 DEF quotaVars, given, reRegisterRestoredDB
  <2>2. \A q \in Creation : PastReseller(q)' => PastReseller(q) BY <2>1 DEF PastReseller
  <2>3. ClaimsFit' BY <2>1, <2>2, SameTotal, NoNewClaim DEF ResellerInv
  <2>4. KindKnown' BY <2>1 DEF KindKnown, ResellerInv
  <2> QED BY <2>3, <2>4 DEF ResellerInv
<1>2. CASE QuotaNext
  BY <1>1, <1>2, CreateKeepsClaims, CheckKeepsClaims, InsertRowKeepsClaims, DeleteKeepsClaims,
     GivenKeepsClaims DEF QuotaNext
<1> QED BY <1>1, <1>2

(***************************************************************************)
(* The reseller's total passes its ceiling, and the rows that an           *)
(* administrator created or moved in, by one row less than there are       *)
(* customers at most, since each of them has one creation past the count   *)
(* (CheckResellerDomainAllowed), with the same exception.                  *)
(***************************************************************************)
THEOREM ResellerCeiling == ASSUME QuotaAssumption PROVE QuotaSpec => []ResellerNearlyKept
<1>1. QuotaInit => QuotaInv /\ ResellerInv BY QuotaStarts, ResellerStarts
<1>2. QuotaInv /\ ResellerInv /\ [QuotaNext]_quotaVars => QuotaInv' /\ ResellerInv'
  <2> SUFFICES ASSUME QuotaInv, ResellerInv, [QuotaNext]_quotaVars
               PROVE  QuotaInv' /\ ResellerInv'
    OBVIOUS
  <2>1. QuotaInv' BY QuotaStep
  <2> QED BY <2>1, ResellerStep
<1>3. QuotaInv /\ ResellerInv => ResellerNearlyKept
  <2> SUFFICES ASSUME QuotaInv, ResellerInv, ~unguarded
               PROVE  ResellerTotal < ResellerMaxDomain + unasked + Cardinality(Customer)
    BY DEF ResellerNearlyKept
  <2> DEFINE t == ResellerTotal
             c == Cardinality(Claims)
             m == ResellerMaxDomain
             n == Cardinality(Customer)
             e == unasked
  <2>1. t + c < m + e + n BY DEF ResellerInv, ClaimsFit
  <2>2. Claims \in SUBSET Customer BY DEF Claims
  <2>3. c \in Nat /\ n \in Nat BY <2>2, CustomersCounted
  <2>4. IsFiniteSet(Customer) /\ m \in Nat /\ e \in Nat
    BY DEF QuotaAssumption, QuotaInv, QuotaTypes
  <2>5. domains \in [Customer -> Nat] BY DEF QuotaInv, QuotaTypes
  <2>6. t \in Nat BY <2>4, <2>5, TotalIs, SumIsNat
  <2>7. t < m + e + n
    <3> HIDE DEF t, c, m, n, e
    <3> QED BY <2>1, <2>3, <2>4, <2>6
  <2> QED BY <2>7
<1> QED BY <1>1, <1>2, <1>3, PTL DEF QuotaSpec

-----------------------------------------------------------------------------

(***************************************************************************)
(* The migrations' inductive invariant, about one file: where the start at *)
(* work is in it, and what has run of it.                                  *)
(***************************************************************************)
Body == Seq(Nat \ {0})
Upto(s, n) == SubSeq(s, 1, n)

SchemaTypes ==
    /\ file \in Body /\ ran \in Body /\ progress \in Body /\ body \in Body
    /\ applied \in Body \cup {NotApplied}
    /\ runner \in {"down", "execute", "record", "clear", "up"}
    /\ nth \in Nat /\ unrecorded \in BOOLEAN /\ edits \in Nat

\* A start at work is on a file that is not applied, past what its row vouches for.
AtWork ==
    runner \in {"execute", "record"} =>
        /\ applied = NotApplied
        /\ nth \in 1..(Len(body) + 1) /\ (runner = "record" => nth <= Len(body))
        /\ Len(progress) < nth /\ progress = Upto(body, Len(progress))

(***************************************************************************)
(* What ran: what the file is applied as, what the row vouches for between *)
(* two starts, and what the start has come past, with the statement whose  *)
(* answer was lost.                                                        *)
(***************************************************************************)
RanIsKnown ==
    ~unrecorded =>
        /\ applied # NotApplied => ran = applied
        /\ applied = NotApplied /\ runner = "down" => ran = progress
        /\ runner = "execute" => ran = Upto(body, nth - 1)
        /\ runner = "record" => ran \in {Upto(body, nth - 1), Upto(body, nth)}

Finished == runner \in {"clear", "up"} => applied # NotApplied

SchemaInv == SchemaTypes /\ AtWork /\ RanIsKnown /\ Finished

-----------------------------------------------------------------------------
\* The head of a file, and its next statement.
LEMMA HeadGrows ==
    ASSUME NEW s \in Body, NEW n \in 1..Len(s)
    PROVE  /\ Upto(s, n) \in Body /\ Upto(s, n - 1) \in Body
           /\ Len(Upto(s, n)) = n /\ Len(Upto(s, n - 1)) = n - 1
           /\ Append(Upto(s, n - 1), s[n]) = Upto(s, n)
BY DEF Body, Upto

\* The whole file is a head of it, and so is nothing.
LEMMA HeadWhole ==
    ASSUME NEW s \in Body
    PROVE  /\ Upto(s, Len(s)) = s /\ Upto(s, 0) = <<>> /\ s # NotApplied
           /\ \A n \in 0..Len(s) : Upto(s, n) \in Body /\ Len(Upto(s, n)) = n
BY DEF Body, Upto, NotApplied

\* Nothing has run.
LEMMA SchemaStarts == ASSUME MigrationsAssumption, SchemaInit PROVE SchemaInv
<1>1. file \in Body BY DEF MigrationsAssumption, SchemaInit, Body
<1>2. SchemaTypes
  <2>1. <<>> \in Body /\ NotApplied = NotApplied BY DEF Body
  <2> QED BY <1>1, <2>1 DEF SchemaTypes, SchemaInit
<1> QED BY <1>2 DEF SchemaInv, AtWork, RanIsKnown, Finished, SchemaInit

\* A start ends: what ran is what the row vouches for, or the loss is noted.
LEMMA DownKeeps ==
    ASSUME MigrationsAssumption, SchemaInv, Down, UNCHANGED <<file, ran, body, nth, edits>>,
           progress' \in Body, applied' \in Body \cup {NotApplied},
           ~unrecorded /\ applied' # NotApplied => ran = applied',
           ~unrecorded /\ applied' = NotApplied => ran = progress' \/ Len(ran) > Len(progress')
    PROVE  SchemaInv'
<1>1. SchemaTypes' BY DEF SchemaInv, SchemaTypes, Down
<1>2. AtWork' /\ Finished' BY DEF AtWork, Finished, Down
<1>3. RanIsKnown' BY DEF RanIsKnown, Down, SchemaInv, SchemaTypes
<1> QED BY <1>1, <1>2, <1>3 DEF SchemaInv

\* A start resumes only behind a head that is its own file's.
LEMMA StartKeeps == ASSUME MigrationsAssumption, SchemaInv, Start PROVE SchemaInv'
<1>1. CASE applied = file /\ runner' = "up" /\ nth' = 0
  <2>1. applied # NotApplied BY <1>1, HeadWhole DEF SchemaInv, SchemaTypes
  <2> QED BY <1>1, <2>1 DEF Start, SchemaInv, SchemaTypes, AtWork, RanIsKnown, Finished
<1>2. CASE applied = NotApplied /\ Resumable /\ runner' = "execute" /\ nth' = Len(progress) + 1
  <2>1. /\ runner = "down" /\ body' = file
        /\ UNCHANGED <<file, ran, progress, applied, unrecorded, edits>>
    BY DEF Start
  <2>2. Len(progress) \in Nat /\ Len(file) \in Nat BY DEF SchemaInv, SchemaTypes, Body
  <2>3. Len(progress) <= Len(file) /\ progress = Upto(file, Len(progress))
    BY <1>2 DEF Resumable, Upto
  <2>4. SchemaTypes' BY <1>2, <2>1, <2>2 DEF SchemaInv, SchemaTypes
  <2>5. AtWork' BY <1>2, <2>1, <2>2, <2>3 DEF AtWork
  <2>6. RanIsKnown' BY <1>2, <2>1, <2>2, <2>3 DEF SchemaInv, RanIsKnown
  <2>7. Finished' BY <1>2 DEF Finished
  <2> QED BY <2>4, <2>5, <2>6, <2>7 DEF SchemaInv
<1> QED BY <1>1, <1>2 DEF Start

\* The next statement commits, fails, or commits unheard of.
LEMMA ExecuteKeeps == ASSUME MigrationsAssumption, SchemaInv, Execute PROVE SchemaInv'
<1>1. /\ runner = "execute" /\ nth \in 1..Len(body) /\ body \in Body /\ ran \in Body
      /\ UNCHANGED <<file, progress, applied, body, unrecorded, edits>>
      /\ Len(body) \in Nat /\ Len(progress) \in Nat
  BY DEF Execute, SchemaInv, AtWork, SchemaTypes, Body
<1>2. /\ Append(Upto(body, nth - 1), body[nth]) = Upto(body, nth)
      /\ Append(ran, body[nth]) \in Body
  <2>1. Append(Upto(body, nth - 1), body[nth]) = Upto(body, nth) BY <1>1, HeadGrows
  <2>2. body[nth] \in Nat \ {0} BY <1>1 DEF Body
  <2> QED BY <1>1, <2>1, <2>2 DEF Body
<1>3. applied = NotApplied /\ (~unrecorded => ran = Upto(body, nth - 1))
  BY <1>1 DEF SchemaInv, AtWork, RanIsKnown
<1>4. \/ ran' = Append(ran, body[nth]) /\ nth' = nth + 1 /\ runner' = "execute"
      \/ ran' = ran /\ nth' = nth /\ runner' = "record"
      \/ ran' = Append(ran, body[nth]) /\ nth' = nth /\ runner' = "record"
  BY <1>1 DEF Execute
<1>5. SchemaTypes' BY <1>1, <1>2, <1>4, nth \in Nat /\ nth + 1 \in Nat DEF SchemaInv, SchemaTypes
<1>6. AtWork' BY <1>1, <1>4 DEF SchemaInv, AtWork
<1>7. RanIsKnown'
  <2>1. nth + 1 - 1 = nth BY <1>1
  <2> QED BY <1>1, <1>2, <1>3, <1>4, <2>1 DEF RanIsKnown
<1>8. Finished' BY <1>4 DEF Finished
<1> QED BY <1>5, <1>6, <1>7, <1>8 DEF SchemaInv

\* The row vouches for the statements before the one that failed.
LEMMA ProgressKeeps == ASSUME MigrationsAssumption, SchemaInv, recordProgress PROVE SchemaInv'
<1>1. /\ Down /\ UNCHANGED <<file, ran, applied, body, nth, edits>>
      /\ applied = NotApplied /\ nth \in 1..Len(body) /\ body \in Body
      /\ progress' = Upto(body, nth - 1) \/ progress' = progress
      /\ Len(progress) \in Nat /\ Len(progress) < nth /\ progress = Upto(body, Len(progress))
      /\ progress \in Body
  BY DEF recordProgress, SchemaInv, AtWork, SchemaTypes, Body, Upto
<1>2. /\ Upto(body, nth - 1) \in Body
      /\ Len(Upto(body, nth)) = nth /\ Len(Upto(body, nth - 1)) = nth - 1
  BY <1>1, HeadGrows
<1>3. ~unrecorded => ran \in {Upto(body, nth - 1), Upto(body, nth)}
  BY DEF SchemaInv, RanIsKnown, recordProgress
<1>4. ~unrecorded => ran = progress' \/ Len(ran) > Len(progress')
  <2>1. CASE progress' = Upto(body, nth - 1) BY <1>1, <1>2, <1>3, <2>1
  <2>2. CASE progress' = progress
    <3>1. Len(progress) = nth - 1 \/ Len(progress) < nth - 1 BY <1>1
    <3> QED BY <1>1, <1>2, <1>3, <2>2, <3>1
  <2> QED BY <1>1, <2>1, <2>2
<1> QED BY <1>1, <1>2, <1>4, DownKeeps

\* The file is applied, or no progress is recorded of it.
LEMMA FinishInsertKeeps == ASSUME MigrationsAssumption, SchemaInv, FinishInsert PROVE SchemaInv'
<1>1. /\ UNCHANGED <<file, ran, body, nth, progress, edits>>
      /\ applied = NotApplied /\ nth = Len(body) + 1 /\ body \in Body /\ progress \in Body
      /\ Len(body) \in Nat /\ Len(progress) \in Nat /\ Len(progress) <= Len(body)
      /\ progress = Upto(body, Len(progress))
      /\ ~unrecorded => ran = Upto(body, Len(body))
  <2>1. /\ UNCHANGED <<file, ran, body, nth, edits>> /\ runner = "execute" /\ nth > Len(body)
        /\ UNCHANGED progress
    BY DEF FinishInsert
  <2>2. body \in Body /\ progress \in Body /\ Len(body) \in Nat /\ Len(progress) \in Nat
    BY DEF SchemaInv, SchemaTypes, Body
  <2>3. /\ applied = NotApplied /\ nth \in 1..(Len(body) + 1) /\ Len(progress) < nth
        /\ progress = Upto(body, Len(progress))
        /\ ~unrecorded => ran = Upto(body, nth - 1)
    BY <2>1 DEF SchemaInv, AtWork, RanIsKnown
  <2>4. nth = Len(body) + 1 /\ nth - 1 = Len(body) BY <2>1, <2>2, <2>3
  <2> QED BY <2>1, <2>2, <2>3, <2>4
<1>2. body # NotApplied /\ Upto(body, Len(body)) = body BY <1>1, HeadWhole
<1>3. CASE applied' = body /\ runner' = "clear" /\ UNCHANGED unrecorded
  BY <1>1, <1>2, <1>3 DEF SchemaInv, SchemaTypes, AtWork, RanIsKnown, Finished
<1>4. CASE applied' \in {applied, body} /\ Down
  <2>1. ~unrecorded => ran = progress \/ Len(ran) > Len(progress)
    BY <1>1, <1>2
  <2> QED BY <1>1, <1>2, <1>4, <2>1, DownKeeps
<1> QED BY <1>3, <1>4 DEF FinishInsert

\* The row goes once the file is applied.
LEMMA FinishDeleteKeeps == ASSUME MigrationsAssumption, SchemaInv, FinishDelete PROVE SchemaInv'
<1>1. /\ UNCHANGED <<file, ran, body, nth, applied, edits>> /\ applied # NotApplied
      /\ progress' \in Body
  <2>1. <<>> \in Body BY DEF Body
  <2>2. progress' = <<>> \/ progress' = progress BY DEF FinishDelete
  <2> QED BY <2>1, <2>2 DEF FinishDelete, SchemaInv, Finished, SchemaTypes
<1>2. CASE runner' = "up" /\ UNCHANGED unrecorded
  BY <1>1, <1>2 DEF SchemaInv, SchemaTypes, AtWork, RanIsKnown, Finished
<1>3. CASE Down BY <1>1, <1>3, DownKeeps DEF SchemaInv, SchemaTypes, RanIsKnown
<1> QED BY <1>2, <1>3 DEF FinishDelete

\* The panel stops, with its start behind it or at work.
LEMMA RunnerStopKeeps == ASSUME MigrationsAssumption, SchemaInv, RunnerStops PROVE SchemaInv'
<1>1. /\ UNCHANGED <<file, ran, progress, applied, body, nth, edits>> /\ Down /\ runner # "down"
  BY DEF RunnerStops
<1>2. ~unrecorded /\ applied = NotApplied => ran = progress \/ Len(ran) > Len(progress)
  <2> SUFFICES ASSUME ~unrecorded, applied = NotApplied
               PROVE  ran = progress \/ Len(ran) > Len(progress)
    OBVIOUS
  <2>1. runner \in {"execute", "record"} BY <1>1 DEF SchemaInv, SchemaTypes, Finished
  <2>2. /\ nth \in 1..(Len(body) + 1) /\ Len(progress) < nth
        /\ progress = Upto(body, Len(progress))
        /\ Len(body) \in Nat /\ Len(progress) \in Nat /\ body \in Body
    BY <2>1 DEF SchemaInv, AtWork, SchemaTypes, Body
  <2>3. ran = Upto(body, nth - 1) \/ (ran = Upto(body, nth) /\ nth <= Len(body))
    BY <2>1 DEF SchemaInv, RanIsKnown, AtWork
  <2>4. Len(ran) = nth - 1 \/ Len(ran) = nth BY <2>2, <2>3, HeadWhole
  <2>5. CASE ran = Upto(body, nth - 1) /\ Len(progress) = nth - 1 BY <2>2, <2>5
  <2>6. CASE Len(progress) < nth - 1 BY <2>2, <2>4, <2>6
  <2>7. CASE ran = Upto(body, nth) /\ nth <= Len(body) BY <2>2, <2>7, HeadWhole
  <2> QED BY <2>2, <2>3, <2>5, <2>6, <2>7
<1> QED BY <1>1, <1>2, DownKeeps DEF SchemaInv, SchemaTypes, RanIsKnown

\* The file changes under what has run of it.
LEMMA EditKeeps == ASSUME MigrationsAssumption, SchemaInv, Edit PROVE SchemaInv'
<1>1. file' \in Body
  <2>1. PICK i \in DOMAIN file :
           file' \in {[file EXCEPT ![i] = Statements + edits'], RemoveAt(file, i)}
    BY DEF Edit
  <2>2. Statements + edits' \in Nat \ {0} /\ file \in Seq(Nat \ {0}) /\ i \in 1..Len(file)
    <3>1. Statements \in Nat /\ edits \in Nat /\ edits' = edits + 1
      BY DEF Edit, MigrationsAssumption, SchemaInv, SchemaTypes
    <3>2. Statements + edits' \in Nat \ {0} BY <3>1
    <3>3. file \in Seq(Nat \ {0}) BY DEF SchemaInv, SchemaTypes, Body
    <3> QED BY <3>2, <3>3
  <2>3. [file EXCEPT ![i] = Statements + edits'] \in Seq(Nat \ {0}) BY <2>2
  <2>4. RemoveAt(file, i) \in Seq(Nat \ {0}) BY <2>2 DEF RemoveAt
  <2> QED BY <2>1, <2>3, <2>4 DEF Body
<1>2. /\ UNCHANGED <<ran, progress, applied, runner, body, nth, unrecorded>>
      /\ edits' \in Nat
  BY DEF Edit, SchemaInv, SchemaTypes
<1> QED BY <1>1, <1>2 DEF SchemaInv, SchemaTypes, AtWork, RanIsKnown, Finished

\* Every step of the file's life keeps the invariant.
LEMMA SchemaStep == ASSUME MigrationsAssumption, SchemaInv, [SchemaNext]_schemaVars PROVE SchemaInv'
<1>1. CASE UNCHANGED schemaVars
  BY <1>1 DEF schemaVars, SchemaInv, SchemaTypes, AtWork, RanIsKnown, Finished
<1> QED
  BY <1>1, StartKeeps, ExecuteKeeps, ProgressKeeps, FinishInsertKeeps, FinishDeleteKeeps,
     RunnerStopKeeps, EditKeeps DEF SchemaNext

(***************************************************************************)
(* A file recorded as applied is the file that ran, each statement once    *)
(* and in its order, unless a start ended with a committed statement no    *)
(* row knows of (applyFile, recordProgress, resumePoint).                  *)
(***************************************************************************)
THEOREM AppliedRanOnce == ASSUME MigrationsAssumption PROVE SchemaSpec => []AppliedIsWhatRan
<1>1. SchemaInit => SchemaInv BY SchemaStarts
<1>2. SchemaInv /\ [SchemaNext]_schemaVars => SchemaInv' BY SchemaStep
<1>3. SchemaInv => AppliedIsWhatRan BY DEF SchemaInv, RanIsKnown, AppliedIsWhatRan
<1> QED BY <1>1, <1>2, <1>3, PTL DEF SchemaSpec

(***************************************************************************)
(* A statement runs after the statements that precede it in its own file,  *)
(* with the same exception (prefixChecksum).                               *)
(***************************************************************************)
THEOREM NoForeignHead == ASSUME MigrationsAssumption PROVE SchemaSpec => TailFollowsItsHead
<1>1. SchemaInit => SchemaInv BY SchemaStarts
<1>2. SchemaInv /\ [SchemaNext]_schemaVars => SchemaInv' BY SchemaStep
<1>3. SchemaInv /\ [SchemaNext]_schemaVars => [OwnHead]_schemaVars
  <2>1. ASSUME ran' # ran, SchemaNext PROVE Execute
    BY <2>1 DEF SchemaNext, Start, recordProgress, FinishInsert, FinishDelete, RunnerStops, Edit
  <2>2. ASSUME SchemaInv, Execute PROVE OwnHead
    BY <2>2 DEF Execute, OwnHead, SchemaInv, RanIsKnown, Upto
  <2> QED BY <2>1, <2>2 DEF OwnHead
<1> QED BY <1>1, <1>2, <1>3, PTL DEF SchemaSpec, TailFollowsItsHead

-----------------------------------------------------------------------------
(***************************************************************************)
(* The types in full: the statements a file can hold, and how many.        *)
(***************************************************************************)
Statement == 1..(Statements + MaxEdits)
FileBody  == {s \in Seq(Statement) : Len(s) <= Statements}

SchemaTyped ==
    /\ file \in FileBody /\ progress \in FileBody /\ body \in FileBody
    /\ applied \in FileBody \cup {NotApplied} /\ ran \in Seq(Statement)
    /\ runner \in {"down", "execute", "record", "clear", "up"} /\ nth \in 0..Statements + 1
    /\ unrecorded \in BOOLEAN
    /\ edits \in 0..MaxEdits /\ sqlFaults \in 0..MaxSqlFaults /\ runnerStops \in 0..MaxRunnerStops

\* A body is a function from its lines, as many as it has.
LEMMA BodiesAreShort ==
    ASSUME MigrationsAssumption
    PROVE  FileBody = UNION {[1..n -> Statement] : n \in 0..Statements}
<1> USE DEF MigrationsAssumption
<1>1. ASSUME NEW s \in FileBody PROVE \E n \in 0..Statements : s \in [1..n -> Statement]
  <2>1. Len(s) \in 0..Statements /\ s \in [1..Len(s) -> Statement] BY DEF FileBody
  <2> QED BY <2>1
<1>2. ASSUME NEW n \in 0..Statements, NEW s \in [1..n -> Statement] PROVE s \in FileBody
  <2>1. n \in Nat /\ s \in Seq(Statement) /\ Len(s) = n OBVIOUS
  <2> QED BY <2>1 DEF FileBody
<1> QED BY <1>1, <1>2

\* A head of a body is one.
LEMMA HeadsAreShort ==
    ASSUME MigrationsAssumption, NEW s \in FileBody, NEW n \in 0..Len(s)
    PROVE  SubSeq(s, 1, n) \in FileBody
<1>1. s \in Seq(Statement) /\ Len(s) <= Statements /\ Len(s) \in Nat BY DEF FileBody
<1>2. SubSeq(s, 1, n) \in Seq(Statement) /\ Len(SubSeq(s, 1, n)) = n BY <1>1
<1> QED BY <1>1, <1>2 DEF FileBody, MigrationsAssumption

\* A repaired file has a statement replaced or taken out.
LEMMA EditsAreShort ==
    ASSUME MigrationsAssumption, NEW s \in FileBody, NEW i \in DOMAIN s, NEW x \in Statement
    PROVE  [s EXCEPT ![i] = x] \in FileBody /\ RemoveAt(s, i) \in FileBody
<1>1. s \in Seq(Statement) /\ Len(s) <= Statements /\ Len(s) \in Nat /\ i \in 1..Len(s)
  BY DEF FileBody
<1>2. [s EXCEPT ![i] = x] \in Seq(Statement) /\ Len([s EXCEPT ![i] = x]) = Len(s) BY <1>1
<1>3. RemoveAt(s, i) \in Seq(Statement) /\ Len(RemoveAt(s, i)) = Len(s) - 1
  <2>1. /\ SubSeq(s, 1, i - 1) \in Seq(Statement) /\ Len(SubSeq(s, 1, i - 1)) = i - 1
        /\ SubSeq(s, i + 1, Len(s)) \in Seq(Statement)
        /\ Len(SubSeq(s, i + 1, Len(s))) = Len(s) - i
    BY <1>1
  <2>2. \A a, b \in Seq(Statement) : a \o b \in Seq(Statement) /\ Len(a \o b) = Len(a) + Len(b)
    OBVIOUS
  <2>3. /\ RemoveAt(s, i) \in Seq(Statement)
        /\ Len(RemoveAt(s, i)) = Len(SubSeq(s, 1, i - 1)) + Len(SubSeq(s, i + 1, Len(s)))
    BY <2>1, <2>2 DEF RemoveAt
  <2>4. (i - 1) + (Len(s) - i) = Len(s) - 1 BY <1>1
  <2>5. Len(RemoveAt(s, i)) = (i - 1) + (Len(s) - i) BY <2>1, <2>3
  <2> QED BY <2>3, <2>4, <2>5
<1> QED BY <1>1, <1>2, <1>3 DEF FileBody, MigrationsAssumption

\* A start reads the file, runs its statements and says how far it came.
LEMMA RunnerTyped ==
    ASSUME MigrationsAssumption, SchemaInv, SchemaTyped,
           Start \/ Execute \/ recordProgress \/ FinishInsert \/ FinishDelete \/ RunnerStops
    PROVE  SchemaTyped'
<1> USE DEF MigrationsAssumption
<1>1. /\ sqlFaults' \in 0..MaxSqlFaults /\ runnerStops' \in 0..MaxRunnerStops
      /\ runner' \in {"down", "execute", "record", "clear", "up"}
      /\ UNCHANGED <<file, edits>>
  BY DEF SchemaTyped, Start, Execute, recordProgress, FinishInsert, FinishDelete, RunnerStops,
         SqlRuns, SqlFails, Down
<1>2. unrecorded' \in BOOLEAN
  <2>1. UNCHANGED unrecorded \/ Down
    BY DEF Start, Execute, recordProgress, FinishInsert, FinishDelete, RunnerStops
  <2> QED BY <2>1 DEF SchemaTyped, Down
<1>3. /\ Len(progress) \in Nat /\ Len(progress) <= Statements
      /\ Len(body) \in Nat /\ Len(body) <= Statements
  BY DEF SchemaTyped, FileBody
<1>4. runner \in {"execute", "record"} => /\ nth \in 1..(Len(body) + 1)
                                          /\ runner = "record" => nth <= Len(body)
  BY DEF SchemaInv, AtWork
<1>5. nth' \in 0..Statements + 1 /\ body' \in FileBody
  <2>1. /\ \/ nth' \in {0, nth, Len(progress) + 1}
           \/ runner = "execute" /\ nth <= Len(body) /\ nth' = nth + 1
        /\ body' \in {body, file}
    BY DEF Start, Execute, recordProgress, FinishInsert, FinishDelete, RunnerStops
  <2>2. nth \in 0..Statements + 1 /\ body \in FileBody /\ file \in FileBody BY DEF SchemaTyped
  <2>3. nth' \in 0..Statements + 1 BY <1>3, <1>4, <2>1, <2>2
  <2> QED BY <2>1, <2>2, <2>3
<1>6. ran' \in Seq(Statement)
  <2>1. CASE Execute
    <3>1. body[nth] \in Statement BY <1>3, <1>4, <2>1 DEF Execute, SchemaTyped, FileBody
    <3>2. ran \in Seq(Statement) /\ ran' \in {ran, Append(ran, body[nth])}
      BY <2>1 DEF Execute, SchemaTyped
    <3> QED BY <3>1, <3>2
  <2>2. CASE ~Execute
    BY <2>2 DEF SchemaTyped, Start, recordProgress, FinishInsert, FinishDelete, RunnerStops
  <2> QED BY <2>1, <2>2
<1>7. progress' \in FileBody
  <2>1. <<>> \in FileBody BY DEF FileBody
  <2>2. CASE recordProgress
    <3>1. nth - 1 \in 0..Len(body) BY <1>3, <1>4, <2>2 DEF recordProgress
    <3>2. SubSeq(body, 1, nth - 1) \in FileBody BY <3>1, HeadsAreShort DEF SchemaTyped
    <3> QED BY <2>2, <3>2 DEF recordProgress, SchemaTyped
  <2>3. CASE ~recordProgress
    BY <2>1, <2>3 DEF SchemaTyped, Start, Execute, FinishInsert, FinishDelete, RunnerStops
  <2> QED BY <2>2, <2>3
<1>8. applied' \in FileBody \cup {NotApplied}
  BY DEF SchemaTyped, Start, Execute, recordProgress, FinishInsert, FinishDelete, RunnerStops
<1> QED BY <1>1, <1>2, <1>5, <1>6, <1>7, <1>8 DEF SchemaTyped

(***************************************************************************)
(* The file, its rows and the start at work keep their types: no row       *)
(* vouches for more statements than the file was shipped with.             *)
(***************************************************************************)
THEOREM SchemaTypeCorrect == ASSUME MigrationsAssumption PROVE SchemaSpec => []SchemaTypeOK
<1>1. SchemaInit => SchemaInv /\ SchemaTyped
  <2> SUFFICES ASSUME SchemaInit PROVE SchemaTyped BY SchemaStarts
  <2> USE DEF MigrationsAssumption
  <2>1. file \in FileBody /\ <<>> \in FileBody /\ <<>> \in Seq(Statement)
    <3>1. file \in [1..Statements -> Statement] BY DEF SchemaInit, Statement
    <3> QED BY <3>1 DEF FileBody
  <2>2. /\ 0 \in 0..MaxEdits /\ 0 \in 0..MaxSqlFaults /\ 0 \in 0..MaxRunnerStops
        /\ 0 \in 0..Statements + 1
    OBVIOUS
  <2> QED BY <2>1, <2>2 DEF SchemaInit, SchemaTyped
<1>2. SchemaInv /\ SchemaTyped /\ [SchemaNext]_schemaVars => SchemaInv' /\ SchemaTyped'
  <2> SUFFICES ASSUME SchemaInv, SchemaTyped, [SchemaNext]_schemaVars PROVE SchemaTyped'
    BY SchemaStep
  <2>1. CASE UNCHANGED schemaVars BY <2>1 DEF schemaVars, SchemaTyped
  <2>2. CASE Edit
    <3>1. /\ edits' \in 0..MaxEdits /\ Statements + edits' \in Statement
          /\ UNCHANGED <<ran, progress, applied, runner, body, nth, unrecorded, sqlFaults, runnerStops>>
      BY <2>2 DEF Edit, SchemaTyped, MigrationsAssumption, Statement
    <3>2. file' \in FileBody
      <4>1. PICK i \in DOMAIN file :
                file' \in {[file EXCEPT ![i] = Statements + edits'], RemoveAt(file, i)}
        BY <2>2 DEF Edit
      <4>2. file \in FileBody BY DEF SchemaTyped
      <4>3. [file EXCEPT ![i] = Statements + edits'] \in FileBody /\ RemoveAt(file, i) \in FileBody
        BY <3>1, <4>2, EditsAreShort
      <4> QED BY <4>1, <4>3
    <3> QED BY <3>1, <3>2 DEF SchemaTyped
  <2> QED BY <2>1, <2>2, RunnerTyped DEF SchemaNext
<1>3. SchemaTyped => SchemaTypeOK
  <2> SUFFICES ASSUME SchemaTyped PROVE SchemaTypeOK OBVIOUS
  <2>1. \A i \in DOMAIN ran : ran[i] \in Statement BY DEF SchemaTyped
  <2> QED BY <2>1, BodiesAreShort DEF SchemaTyped, SchemaTypeOK, Statement
<1> QED BY <1>1, <1>2, <1>3, PTL DEF SchemaSpec

-----------------------------------------------------------------------------
(***************************************************************************)
(* The port change's inductive invariant.  What the files hold is known    *)
(* from the change that has the mutex or the helper, of which there is one *)
(* at a time unless a change joined another.                               *)
(***************************************************************************)
ChangeType == [at : {"idle", "waiting", "backend", "external", "vhost", "reload", "probe",
                     "outcome", "launch", "done"},
               kind : {"none", "external", "backend"}, checked : BOOLEAN,
               env : Port, vhost : [backend : Port, external : Port]]
HelperType == [id : Change, at : {"restart", "wait", "restore", "restartOld", "waitOld"}]
OutcomeType == [id : Change, state : {"running", "succeeded", "rolledBack"}]

PortTypes ==
    /\ env \in Port /\ serving \in Port
    /\ vhost \in [backend : Port, external : Port]
    /\ proxied \in [backend : Port, external : Port]
    /\ change \in [Change -> ChangeType]
    /\ changing \in Port
    /\ outcome \in OutcomeType \cup {NoOutcome}
    /\ helper \in HelperType \cup {NoHelper}
    /\ history \in [Change -> {"none", "open", "succeeded", "rolledBack", "failed"}]
    /\ unloaded \in BOOLEAN /\ joined \in BOOLEAN /\ torn \in BOOLEAN

\* The mutex is held from the first file to the last, and each change does its own kind of work.
MutexHeld ==
    \A c \in Change :
        /\ Midway(c) <=> changing = c
        /\ change[c].at = "waiting" => change[c].kind # "none" /\ change[c].checked
        /\ change[c].at \in {"backend", "vhost", "outcome", "launch"} => change[c].kind = "backend"
        /\ change[c].at \in {"external", "reload", "probe"} => change[c].kind = "external"

\* A helper works alone, and the outcome file says for whom, if a start has not
\* taken it for dead.
HelperAlone ==
    ~joined =>
        /\ helper # NoHelper =>
               changing = 0 /\ outcome \in {[id |-> helper.id, state |-> "running"], NoOutcome}
        /\ \A c \in Change : change[c].at = "launch" => outcome = [id |-> c, state |-> "running"]
        /\ Running => \A c \in Change : Midway(c) => change[c].at = "launch"

\* What a backend change has written, and what its rollback would leave.
OwnFiles ==
    ~joined =>
        /\ \A c \in Change :
             /\ change[c].at \in {"vhost", "outcome", "launch"} => env = c
             /\ change[c].at \in {"backend", "vhost", "outcome", "launch"} =>
                    change[c].vhost.external = vhost.external
        /\ helper.at \in {"restart", "wait", "restore"} =>
               env = helper.id /\ change[helper.id].vhost.external = vhost.external

\* The backups are what is served and, but for a failed reload, loaded, until
\* something else is.
BackupsAgree ==
    ~joined /\ ~torn =>
        /\ \A c \in Change :
             /\ change[c].at \in {"backend", "external", "vhost", "reload", "probe", "outcome", "launch"} =>
                    change[c].env = serving /\ change[c].vhost.backend = serving
             /\ change[c].at \in {"backend", "external", "vhost", "reload", "outcome", "launch"} =>
                    proxied = change[c].vhost \/ unloaded
             /\ change[c].at \in {"backend", "external", "vhost"} => vhost = change[c].vhost
             /\ change[c].at \in {"backend", "external", "reload", "probe"} => env = serving
             /\ change[c].at \in {"reload", "probe"} => vhost.backend = serving
             /\ change[c].at = "probe" => proxied = vhost \/ unloaded
             /\ change[c].at \in {"outcome", "launch"} => vhost.backend = c
        /\ helper # NoHelper => change[helper.id].vhost.backend = change[helper.id].env
        /\ helper # NoHelper => vhost.backend = env
        /\ helper.at \in {"wait", "restore", "waitOld"} =>
               serving = env /\ (proxied = vhost \/ unloaded)

PortInv == PortTypes /\ MutexHeld /\ HelperAlone /\ OwnFiles /\ BackupsAgree /\ PortsAgree

-----------------------------------------------------------------------------
\* A change has a number, and it is not 0.
LEMMA ChangesAreNumbered ==
    ASSUME PortAssumption
    PROVE  /\ 0 \in Port /\ \A c \in Change : c \in Port /\ c # 0
           /\ NoRequest \in ChangeType /\ NoRequest.at = "idle"
           /\ NoHelper.at = "none" /\ NoOutcome.state = "none"
           /\ \A h \in HelperType : h # NoHelper /\ h.id \in Change /\ h.at # "none"
           /\ \A o \in OutcomeType : o # NoOutcome /\ o.id \in Change /\ o.state # "none"
BY DEF PortAssumption, Port, Change, ChangeType, NoRequest, NoHelper, NoOutcome, HelperType,
       OutcomeType

\* The files agree at the start.
LEMMA PortStarts == PortAssumption /\ PortInit => PortInv
<1> SUFFICES ASSUME PortAssumption, PortInit PROVE PortInv
  OBVIOUS
<1> USE ChangesAreNumbered DEF PortInit
<1>1. PortTypes BY DEF PortTypes
<1>2. \A c \in Change : change[c].at = "idle" OBVIOUS
<1>3. MutexHeld BY <1>2 DEF MutexHeld, Midway
<1>4. HelperAlone BY <1>2 DEF HelperAlone, Running
<1>5. OwnFiles BY <1>2 DEF OwnFiles
<1>6. BackupsAgree BY <1>2 DEF BackupsAgree
<1>7. PortsAgree BY DEF PortsAgree
<1> QED BY <1>1, <1>3, <1>4, <1>5, <1>6, <1>7 DEF PortInv

\* How a change's own record changes.
LEMMA ChangeProceeds ==
    ASSUME PortTypes, NEW c \in Change,
           NEW a \in {"vhost", "reload", "probe", "outcome", "launch", "done"}, Proceed(c, a)
    PROVE  /\ change' \in [Change -> ChangeType]
           /\ change'[c].at = a /\ change'[c].kind = change[c].kind
           /\ change'[c].checked = change[c].checked
           /\ change'[c].env = change[c].env /\ change'[c].vhost = change[c].vhost
           /\ \A d \in Change \ {c} : change'[d] = change[d]
BY DEF PortTypes, Proceed, ChangeType

\* What a change's step may count on: it has the mutex, alone.
LEMMA MidwayIsAlone ==
    ASSUME PortAssumption, PortInv, NEW c \in Change, Midway(c)
    PROVE  /\ changing = c /\ c # 0
           /\ \A d \in Change \ {c} : ~Midway(d)
           /\ ~joined => helper = NoHelper
BY ChangesAreNumbered DEF PortInv, MutexHeld, HelperAlone

\* A change ends with the files in agreement, or after another had joined.
LEMMA PortFinishKeeps ==
    ASSUME PortAssumption, PortInv, NEW c \in Change, Midway(c),
           NEW v \in {"succeeded", "rolledBack", "failed"}, Finish(c, v),
           env' \in Port, vhost' \in [backend : Port, external : Port],
           proxied' \in [backend : Port, external : Port], unloaded' \in BOOLEAN,
           outcome' \in {outcome, NoOutcome}, change[c].at = "launch" => outcome' = NoOutcome,
           ~joined /\ ~torn =>
               serving = env' /\ vhost'.backend = env' /\ (proxied' = vhost' \/ unloaded'),
           UNCHANGED <<serving, helper, joined, torn>>
    PROVE  PortInv'
<1>1. /\ Proceed(c, "done") /\ changing' = 0
      /\ \E row \in {v, "open"} : history' = [history EXCEPT ![c] = row]
  BY DEF Finish
<1>2. /\ change' \in [Change -> ChangeType] /\ change'[c].at = "done"
      /\ \A d \in Change \ {c} : change'[d] = change[d]
  BY <1>1, ChangeProceeds DEF PortInv
<1>3. c # 0 /\ (\A d \in Change \ {c} : ~Midway(d)) /\ (~joined => helper = NoHelper)
  BY MidwayIsAlone
<1>4. PortTypes'
  <2>1. history' \in [Change -> {"none", "open", "succeeded", "rolledBack", "failed"}]
    BY <1>1 DEF PortInv, PortTypes
  <2> QED BY <1>1, <1>2, <2>1, ChangesAreNumbered DEF PortInv, PortTypes
<1>5. \A d \in Change : ~Midway(d)' BY <1>2, <1>3 DEF Midway
<1>6. MutexHeld'
  BY <1>1, <1>2, <1>5, ChangesAreNumbered DEF PortInv, MutexHeld
<1>7. HelperAlone'
  <2>1. ~joined => ~Running'
    BY <1>3, ChangesAreNumbered DEF PortInv, HelperAlone, Running
  <2> QED BY <1>3, <1>5, <2>1 DEF HelperAlone, Midway
<1>8. OwnFiles' BY <1>3, <1>5, ChangesAreNumbered DEF OwnFiles, Midway
<1>9. BackupsAgree' BY <1>3, <1>5, ChangesAreNumbered DEF BackupsAgree, Midway
<1>10. PortsAgree' BY DEF PortsAgree
<1> QED BY <1>4, <1>6, <1>7, <1>8, <1>9, <1>10 DEF PortInv

\* A change is asked for, and waits for the mutex.
LEMMA AskChangeKeeps ==
    ASSUME PortAssumption, PortInv, NEW c \in Change, NEW kind \in {"external", "backend"},
           AskChange(c, kind)
    PROVE  PortInv'
<1> DEFINE m == [change EXCEPT ![c].at = "waiting"]
           n == [m EXCEPT ![c].kind = kind]
<1>1. /\ change[c] = NoRequest /\ ~Running
      /\ change' = [n EXCEPT ![c].checked = ~Running]
      /\ UNCHANGED <<env, vhost, serving, proxied, unloaded, changing, outcome, helper, history,
                     joined, torn>>
  BY DEF AskChange, acceptable
<1>2. m \in [Change -> ChangeType] /\ m[c].at = "waiting" /\ \A d \in Change \ {c} : m[d] = change[d]
  BY DEF PortInv, PortTypes, ChangeType
<1> HIDE DEF m
<1>3. /\ n \in [Change -> ChangeType] /\ n[c].at = "waiting" /\ n[c].kind = kind
      /\ \A d \in Change \ {c} : n[d] = change[d]
  BY <1>2 DEF ChangeType
<1> HIDE DEF n
<1>4. change' = [n EXCEPT ![c].checked = TRUE]
  <2>1. (~Running) = TRUE BY <1>1
  <2> QED BY <1>1, <2>1
<1>5. /\ change' \in [Change -> ChangeType]
      /\ change'[c].at = "waiting" /\ change'[c].kind = kind /\ change'[c].checked
      /\ \A d \in Change \ {c} : change'[d] = change[d]
  <2> DEFINE q == [n[c] EXCEPT !.checked = TRUE]
  <2>1. q \in ChangeType /\ q.at = "waiting" /\ q.kind = kind /\ q.checked
    BY <1>3 DEF ChangeType
  <2>2. change' = [n EXCEPT ![c] = q] BY <1>4
  <2> HIDE DEF q
  <2> QED BY <1>3, <2>1, <2>2
<1>6. change[c].at = "idle" BY <1>1, ChangesAreNumbered
<1>7. PortTypes' BY <1>1, <1>5 DEF PortInv, PortTypes
<1>8. \A d \in Change : Midway(d)' <=> Midway(d) BY <1>5, <1>6 DEF Midway
<1>9. MutexHeld' BY <1>1, <1>5, <1>6, <1>8 DEF PortInv, MutexHeld
<1>10. HelperAlone' BY <1>1, <1>5, <1>8 DEF PortInv, HelperAlone, Running
<1>11. helper # NoHelper /\ ~joined => change'[helper.id].env = change[helper.id].env
                                  /\ change'[helper.id].vhost = change[helper.id].vhost
  <2>1. n[c].env = change[c].env /\ n[c].vhost = change[c].vhost
    <3>1. m[c].env = change[c].env /\ m[c].vhost = change[c].vhost
      BY DEF m, PortInv, PortTypes, ChangeType
    <3> QED BY <1>2, <3>1 DEF n, ChangeType
  <2>2. change'[c].env = change[c].env /\ change'[c].vhost = change[c].vhost
    BY <1>3, <1>4, <2>1 DEF ChangeType
  <2> QED BY <1>5, <2>2, ChangesAreNumbered DEF PortInv, PortTypes
<1>12. helper.at # "none" => helper # NoHelper BY ChangesAreNumbered
<1>13. OwnFiles' BY <1>1, <1>5, <1>11, <1>12 DEF PortInv, OwnFiles
<1>14. BackupsAgree' BY <1>1, <1>5, <1>11 DEF PortInv, BackupsAgree
<1>15. PortsAgree' BY <1>1 DEF PortInv, PortsAgree
<1> QED BY <1>7, <1>9, <1>10, <1>13, <1>14, <1>15 DEF PortInv

\* A change takes the mutex; it has joined another if one is running, or its helper.
LEMMA BeginKeeps ==
    ASSUME PortAssumption, PortInv, NEW c \in Change, Begin(c) PROVE PortInv'
<1>1. /\ change[c].at = "waiting" /\ changing = 0
      /\ UNCHANGED <<env, vhost, serving, proxied, unloaded, outcome, helper, torn>>
      /\ \/ Proceed(c, "done") /\ UNCHANGED <<changing, history, joined>>
         \/ /\ joined' = (joined \/ ((Running \/ helper # NoHelper) /\ change[c].checked))
            /\ \/ Finish(c, "failed")
               \/ /\ changing' = c
                  /\ change' = [change EXCEPT ![c].at = change[c].kind,
                                              ![c].env = env, ![c].vhost = vhost]
                  /\ history' = [history EXCEPT ![c] = "open"]
  BY DEF Begin
<1>2. /\ joined \in BOOLEAN /\ change[c].checked
      /\ joined' \in BOOLEAN /\ (~joined' => ~joined)
  BY <1>1 DEF PortInv, PortTypes, MutexHeld
<1>3. \A d \in Change : ~Midway(d)
  BY <1>1, ChangesAreNumbered DEF PortInv, MutexHeld
<1>4. CASE /\ Proceed(c, "done") /\ changing' = 0
           /\ history' \in [Change -> {"none", "open", "succeeded", "rolledBack", "failed"}]
  <2>2. /\ change' \in [Change -> ChangeType] /\ change'[c].at = "done"
        /\ change'[c].env = change[c].env /\ change'[c].vhost = change[c].vhost
        /\ \A d \in Change \ {c} : change'[d] = change[d]
    BY <1>4, ChangeProceeds DEF PortInv
  <2>3. \A d \in Change : ~Midway(d)' BY <1>3, <2>2 DEF Midway
  <2>4. PortTypes'
    BY <1>1, <1>2, <1>4, <2>2, ChangesAreNumbered DEF PortInv, PortTypes
  <2>5. MutexHeld' BY <1>4, <2>2, <2>3, ChangesAreNumbered DEF PortInv, MutexHeld
  <2>6. HelperAlone' BY <1>1, <1>2, <1>4, <2>3 DEF PortInv, HelperAlone, Midway
  <2>7. \A d \in Change : /\ change'[d].env = change[d].env
                          /\ change'[d].vhost = change[d].vhost
    BY <2>2
  <2>8. helper.at # "none" => helper.id \in Change
    BY ChangesAreNumbered DEF PortInv, PortTypes
  <2>9. helper # NoHelper => helper.id \in Change
    BY ChangesAreNumbered DEF PortInv, PortTypes
  <2>10. OwnFiles' BY <1>1, <1>2, <2>3, <2>7, <2>8 DEF PortInv, OwnFiles, Midway
  <2>11. BackupsAgree' BY <1>1, <1>2, <2>3, <2>7, <2>9 DEF PortInv, BackupsAgree, Midway
  <2>12. PortsAgree' BY <1>1, <1>2 DEF PortInv, PortsAgree
  <2> QED BY <2>4, <2>5, <2>6, <2>10, <2>11, <2>12 DEF PortInv
<1>5. CASE /\ joined' = (joined \/ ((Running \/ helper # NoHelper) /\ change[c].checked))
           /\ changing' = c
           /\ change' = [change EXCEPT ![c].at = change[c].kind, ![c].env = env, ![c].vhost = vhost]
           /\ history' = [history EXCEPT ![c] = "open"]
  <2>0. ~joined' => ~joined /\ ~Running /\ helper = NoHelper
    BY <1>2, <1>5
  <2> DEFINE m == [change EXCEPT ![c].at = change[c].kind]
             n == [m EXCEPT ![c].env = env]
  <2>1. change[c].kind \in {"external", "backend"}
    BY <1>1 DEF PortInv, PortTypes, MutexHeld, ChangeType
  <2>2. /\ m \in [Change -> ChangeType] /\ m[c].at = change[c].kind /\ m[c].kind = change[c].kind
        /\ \A d \in Change \ {c} : m[d] = change[d]
    BY <2>1 DEF PortInv, PortTypes, ChangeType
  <2>3. change' = [n EXCEPT ![c].vhost = vhost] BY <1>5
  <2> HIDE DEF m
  <2>4. /\ n \in [Change -> ChangeType] /\ n[c].at = change[c].kind /\ n[c].kind = change[c].kind
        /\ n[c].env = env /\ \A d \in Change \ {c} : n[d] = change[d]
    BY <2>2 DEF PortInv, PortTypes, ChangeType
  <2> HIDE DEF n
  <2>5. /\ change' \in [Change -> ChangeType]
        /\ change'[c].at = change[c].kind /\ change'[c].kind = change[c].kind
        /\ change'[c].env = env /\ change'[c].vhost = vhost
        /\ \A d \in Change \ {c} : change'[d] = change[d]
    BY <2>3, <2>4 DEF PortInv, PortTypes, ChangeType
  <2>6. \A d \in Change : Midway(d)' <=> d = c BY <1>3, <2>1, <2>5 DEF Midway
  <2>7. PortTypes'
    <3>1. history' \in [Change -> {"none", "open", "succeeded", "rolledBack", "failed"}]
      BY <1>5 DEF PortInv, PortTypes
    <3> QED BY <1>1, <1>2, <1>5, <2>5, <3>1, ChangesAreNumbered DEF PortInv, PortTypes
  <2>8. MutexHeld' BY <1>5, <2>1, <2>5, <2>6 DEF PortInv, MutexHeld
  <2>9. HelperAlone' BY <1>1, <2>0, <1>3, <2>1, <2>5 DEF HelperAlone, Running, Midway
  <2>10. OwnFiles' BY <1>1, <2>0, <1>3, <2>1, <2>5, ChangesAreNumbered DEF OwnFiles, Midway
  <2>11. BackupsAgree'
    <3>1. ~joined' /\ ~torn' => serving = env /\ vhost.backend = env /\ (proxied = vhost \/ unloaded)
      BY <1>1, <2>0 DEF PortInv, PortsAgree
    <3> QED BY <1>1, <2>0, <1>3, <2>1, <2>5, <3>1, ChangesAreNumbered DEF BackupsAgree, Midway
  <2>12. PortsAgree' BY <1>5, ChangesAreNumbered DEF PortsAgree
  <2> QED BY <2>7, <2>8, <2>9, <2>10, <2>11, <2>12 DEF PortInv
<1>6. CASE Finish(c, "failed")
  <2>1. \E row \in {"failed", "open"} : history' = [history EXCEPT ![c] = row]
    BY <1>6 DEF Finish
  <2>2. history' \in [Change -> {"none", "open", "succeeded", "rolledBack", "failed"}]
    BY <2>1 DEF PortInv, PortTypes
  <2> QED BY <1>4, <1>6, <2>2 DEF Finish
<1>7. CASE Proceed(c, "done") /\ UNCHANGED <<changing, history, joined>>
  BY <1>1, <1>4, <1>7 DEF PortInv, PortTypes
<1> QED BY <1>1, <1>5, <1>6, <1>7

\* A change goes on with the mutex, and what it writes is what its next step counts on.
LEMMA ProceedKeeps ==
    ASSUME PortAssumption, PortInv, NEW c \in Change, Midway(c),
           NEW a \in {"vhost", "reload", "probe", "outcome", "launch"}, Proceed(c, a),
           a \in {"vhost", "outcome", "launch"} => change[c].kind = "backend",
           a \in {"reload", "probe"} => change[c].kind = "external",
           env' \in Port, vhost' \in [backend : Port, external : Port],
           proxied' \in [backend : Port, external : Port], unloaded' \in BOOLEAN,
           IF a = "launch" THEN outcome' = [id |-> c, state |-> "running"]
                           ELSE change[c].at # "launch" /\ UNCHANGED outcome,
           UNCHANGED <<serving, changing, helper, history, joined, torn>>,
           ~joined /\ a \in {"vhost", "outcome", "launch"} =>
               env' = c /\ change[c].vhost.external = vhost'.external,
           ~joined /\ ~torn =>
               /\ change[c].env = serving /\ change[c].vhost.backend = serving
               /\ a # "probe" => proxied' = change[c].vhost \/ unloaded'
               /\ a = "vhost" => vhost' = change[c].vhost
               /\ a \in {"reload", "probe"} => env' = serving /\ vhost'.backend = serving
               /\ a = "probe" => proxied' = vhost' \/ unloaded'
               /\ a \in {"outcome", "launch"} => vhost'.backend = c
    PROVE  PortInv'
<1>1. /\ change' \in [Change -> ChangeType]
      /\ change'[c].at = a /\ change'[c].kind = change[c].kind
      /\ change'[c].env = change[c].env /\ change'[c].vhost = change[c].vhost
      /\ \A d \in Change \ {c} : change'[d] = change[d]
  BY ChangeProceeds DEF PortInv
<1>2. changing = c /\ c # 0 /\ (\A d \in Change \ {c} : ~Midway(d)) /\ (~joined => helper = NoHelper)
  BY MidwayIsAlone
<1>3. PortTypes'
  <2>1. outcome' \in OutcomeType \cup {NoOutcome} BY DEF PortInv, PortTypes, OutcomeType
  <2> QED BY <1>1, <2>1 DEF PortInv, PortTypes
<1>4. \A d \in Change : Midway(d)' <=> d = c BY <1>1, <1>2 DEF Midway
<1>5. MutexHeld' BY <1>1, <1>2, <1>4 DEF PortInv, MutexHeld
<1>6. HelperAlone'
  <2>1. ~joined /\ a # "launch" => ~Running'
    BY DEF PortInv, HelperAlone, Running
  <2> QED BY <1>1, <1>2, <1>4, <2>1 DEF HelperAlone, Midway
<1>7. OwnFiles' BY <1>1, <1>2, <1>4, ChangesAreNumbered DEF OwnFiles, Midway
<1>8. BackupsAgree' BY <1>1, <1>2, <1>4, ChangesAreNumbered DEF BackupsAgree, Midway
<1>9. PortsAgree' BY <1>2 DEF PortsAgree
<1> QED BY <1>3, <1>5, <1>6, <1>7, <1>8, <1>9 DEF PortInv

LEMMA WriteEnvKeeps ==
    ASSUME PortAssumption, PortInv, NEW c \in Change, WriteEnv(c) PROVE PortInv'
<1>1. /\ change[c].at = "backend" /\ Midway(c)
      /\ UNCHANGED <<vhost, serving, proxied, unloaded, outcome, helper, joined, torn>>
  BY DEF WriteEnv, Midway
<1>2. c \in Port BY ChangesAreNumbered
<1>3. CASE env' = c /\ Proceed(c, "vhost") /\ UNCHANGED <<changing, history>>
  BY <1>1, <1>2, <1>3, ProceedKeeps DEF PortInv, PortTypes, MutexHeld, OwnFiles, BackupsAgree
<1>4. CASE Finish(c, "failed") /\ UNCHANGED env
  BY <1>1, <1>4, PortFinishKeeps DEF PortInv, PortTypes, BackupsAgree
<1> QED BY <1>3, <1>4 DEF WriteEnv

LEMMA WriteVhostKeeps ==
    ASSUME PortAssumption, PortInv, NEW c \in Change, WriteVhost(c) PROVE PortInv'
<1>1. /\ change[c].at \in {"vhost", "external"} /\ Midway(c)
      /\ change[c].kind = IF change[c].at = "vhost" THEN "backend" ELSE "external"
      /\ UNCHANGED <<serving, proxied, unloaded, outcome, helper, joined, torn>>
      /\ c \in Port /\ vhost \in [backend : Port, external : Port]
      /\ change[c].env \in Port /\ change[c].vhost \in [backend : Port, external : Port]
  BY ChangesAreNumbered
     DEF WriteVhost, Midway, PortInv, PortTypes, ChangeType, MutexHeld
<1>2. CASE /\ change[c].at = "vhost"
           /\ vhost' = [vhost EXCEPT !.backend = c]
           /\ Proceed(c, "outcome") /\ UNCHANGED <<env, changing, history>>
  <2>1. /\ vhost' \in [backend : Port, external : Port]
        /\ vhost'.backend = c /\ vhost'.external = vhost.external
    BY <1>1, <1>2
  <2> QED BY <1>1, <1>2, <2>1, ProceedKeeps DEF PortInv, PortTypes, OwnFiles, BackupsAgree
<1>3. CASE /\ change[c].at = "external"
           /\ vhost' = [vhost EXCEPT !.external = c]
           /\ Proceed(c, "reload") /\ UNCHANGED <<env, changing, history>>
  <2>1. vhost' \in [backend : Port, external : Port] /\ vhost'.backend = vhost.backend
    BY <1>1, <1>3
  <2> QED BY <1>1, <1>3, <2>1, ProceedKeeps DEF PortInv, PortTypes, BackupsAgree
<1>4. CASE PutBack(c) /\ Finish(c, "failed")
  BY <1>1, <1>4, PortFinishKeeps DEF PutBack, PortInv, PortTypes, BackupsAgree
<1> QED BY <1>1, <1>2, <1>3, <1>4 DEF WriteVhost

LEMMA ReloadKeeps ==
    ASSUME PortAssumption, PortInv, NEW c \in Change, ReloadNginx(c) PROVE PortInv'
<1>1. /\ change[c].at = "reload" /\ Midway(c) /\ change[c].kind = "external"
      /\ UNCHANGED <<serving, outcome, helper, joined, torn>>
      /\ change[c].vhost \in [backend : Port, external : Port]
  BY DEF ReloadNginx, Midway, PortInv, PortTypes, ChangeType, MutexHeld
<1>2. CASE Reloads(vhost) /\ Proceed(c, "probe") /\ UNCHANGED <<env, vhost, changing, history>>
  BY <1>1, <1>2, ProceedKeeps DEF Reloads, PortInv, PortTypes, BackupsAgree
<1>3. CASE PutBack(c) /\ Finish(c, "failed") /\ (Reloads(vhost') \/ ReloadFails({vhost, vhost'}))
  <2>1. env' = env /\ vhost' = change[c].vhost BY <1>1, <1>3 DEF PutBack
  <2>2. /\ proxied' \in [backend : Port, external : Port] /\ unloaded' \in BOOLEAN
        /\ proxied' = vhost' \/ unloaded'
    BY <1>1, <1>3, <2>1 DEF Reloads, ReloadFails, PortInv, PortTypes
  <2> QED BY <1>1, <1>3, <2>1, <2>2, PortFinishKeeps DEF PortInv, PortTypes, BackupsAgree
<1> QED BY <1>2, <1>3 DEF ReloadNginx

LEMMA ProbeKeeps ==
    ASSUME PortAssumption, PortInv, NEW c \in Change, portAnswers(c) PROVE PortInv'
<1>1. /\ change[c].at = "probe" /\ Midway(c) /\ change[c].kind = "external"
      /\ UNCHANGED <<serving, outcome, helper, joined, torn>>
      /\ change[c].vhost \in [backend : Port, external : Port]
  BY DEF portAnswers, Midway, PortInv, PortTypes, ChangeType, MutexHeld
<1>2. CASE Finish(c, "succeeded") /\ UNCHANGED <<env, vhost, proxied, unloaded>>
  BY <1>1, <1>2, PortFinishKeeps DEF PortInv, PortTypes, BackupsAgree
<1>3. CASE /\ PutBack(c) /\ (Reloads(vhost') \/ ReloadFails({vhost'}))
           /\ \E verdict \in {"rolledBack", "failed"} : Finish(c, verdict)
  <2>1. env' = env /\ vhost' = change[c].vhost BY <1>1, <1>3 DEF PutBack
  <2>2. /\ proxied' \in [backend : Port, external : Port] /\ unloaded' \in BOOLEAN
        /\ proxied' = vhost' \/ unloaded'
    BY <1>1, <1>3, <2>1 DEF Reloads, ReloadFails, PortInv, PortTypes
  <2> QED BY <1>1, <1>3, <2>1, <2>2, PortFinishKeeps DEF PortInv, PortTypes, BackupsAgree
<1> QED BY <1>2, <1>3 DEF portAnswers

LEMMA WriteOutcomeKeeps ==
    ASSUME PortAssumption, PortInv, NEW c \in Change, WriteOutcome(c) PROVE PortInv'
<1>1. /\ change[c].at = "outcome" /\ Midway(c) /\ change[c].kind = "backend"
      /\ UNCHANGED <<serving, proxied, unloaded, helper, joined, torn>>
      /\ change[c].env \in Port /\ change[c].vhost \in [backend : Port, external : Port]
  BY DEF WriteOutcome, Midway, PortInv, PortTypes, ChangeType, MutexHeld
<1>2. CASE /\ outcome' = [id |-> c, state |-> "running"] /\ Proceed(c, "launch")
           /\ UNCHANGED <<env, vhost, changing, history>>
  BY <1>1, <1>2, ProceedKeeps DEF PortInv, PortTypes, OwnFiles, BackupsAgree
<1>3. CASE PutBack(c) /\ Finish(c, "failed") /\ UNCHANGED outcome
  BY <1>1, <1>3, PortFinishKeeps DEF PutBack, PortInv, PortTypes, BackupsAgree
<1> QED BY <1>2, <1>3 DEF WriteOutcome

\* The helper is launched and has the files; a request it is refused puts them back.
LEMMA LaunchKeeps ==
    ASSUME PortAssumption, PortInv, NEW c \in Change, LaunchHelper(c) PROVE PortInv'
<1>1. /\ change[c].at = "launch" /\ Midway(c) /\ change[c].kind = "backend"
      /\ UNCHANGED <<serving, proxied, unloaded, joined, torn>>
      /\ change[c].env \in Port /\ change[c].vhost \in [backend : Port, external : Port]
  BY DEF LaunchHelper, Midway, PortInv, PortTypes, ChangeType, MutexHeld
<1>2. CASE PutBack(c) /\ Finish(c, "failed") /\ outcome' = NoOutcome /\ UNCHANGED helper
  BY <1>1, <1>2, PortFinishKeeps DEF PutBack, PortInv, PortTypes, BackupsAgree
<1>3. CASE /\ helper' = [id |-> c, at |-> "restart"]
           /\ Proceed(c, "done") /\ changing' = 0
           /\ UNCHANGED <<env, vhost, outcome, history>>
  <2>1. /\ change' \in [Change -> ChangeType] /\ change'[c].at = "done"
        /\ change'[c].env = change[c].env /\ change'[c].vhost = change[c].vhost
        /\ \A d \in Change \ {c} : change'[d] = change[d]
    BY <1>3, ChangeProceeds DEF PortInv
  <2>2. \A d \in Change : ~Midway(d)' BY <1>1, <2>1, MidwayIsAlone DEF Midway
  <2>3. helper' \in HelperType /\ helper'.id = c /\ helper'.at = "restart"
    BY <1>3 DEF HelperType
  <2>4. PortTypes' BY <1>1, <1>3, <2>1, <2>3, ChangesAreNumbered DEF PortInv, PortTypes
  <2>5. MutexHeld' BY <1>3, <2>1, <2>2, ChangesAreNumbered DEF PortInv, MutexHeld
  <2>6. HelperAlone'
    BY <1>1, <1>3, <2>2, <2>3 DEF PortInv, HelperAlone, Midway
  <2>7. OwnFiles' BY <1>1, <1>3, <2>1, <2>2, <2>3 DEF PortInv, OwnFiles, Midway
  <2>8. BackupsAgree'
    BY <1>1, <1>3, <2>1, <2>2, <2>3 DEF PortInv, OwnFiles, BackupsAgree, Midway
  <2>9. PortsAgree' BY <2>3, ChangesAreNumbered DEF PortsAgree
  <2> QED BY <2>4, <2>5, <2>6, <2>7, <2>8, <2>9 DEF PortInv
<1> QED BY <1>2, <1>3 DEF LaunchHelper

\* The panel starts: nobody is at work, and a verdict in the file may go to its row.
LEMMA ComesUp ==
    ASSUME PortAssumption, PortInv, NEW still \in BOOLEAN, PanelComesUp(still)
    PROVE  /\ change' \in [Change -> ChangeType]
           /\ \A c \in Change : change'[c].at \in {"idle", "done"}
           /\ \A c \in Change : change'[c].env = change[c].env /\ change'[c].vhost = change[c].vhost
           /\ changing' = 0 /\ serving' = env
           /\ outcome' \in {outcome, NoOutcome}
           /\ still /\ Running => outcome' = outcome
           /\ history' \in [Change -> {"none", "open", "succeeded", "rolledBack", "failed"}]
           /\ outcome' # outcome => history'[outcome.id] # "open"
<1>1. change' = [c \in Change |-> IF change[c].at = "idle" THEN change[c]
                                  ELSE [change[c] EXCEPT !.at = "done"]]
  BY DEF PanelComesUp
<1>2. \A c \in Change :
         /\ [change[c] EXCEPT !.at = "done"] \in ChangeType
         /\ [change[c] EXCEPT !.at = "done"].at = "done"
         /\ [change[c] EXCEPT !.at = "done"].env = change[c].env
         /\ [change[c] EXCEPT !.at = "done"].vhost = change[c].vhost
  BY DEF PortInv, PortTypes, ChangeType
<1>3. change' \in [Change -> ChangeType] BY <1>1, <1>2 DEF PortInv, PortTypes
<1>4. \A c \in Change : /\ change'[c].at \in {"idle", "done"}
                        /\ change'[c].env = change[c].env /\ change'[c].vhost = change[c].vhost
  BY <1>1, <1>2
<1>5. CASE UNCHANGED <<outcome, history>>
  BY <1>3, <1>4, <1>5 DEF PanelComesUp, PortInv, PortTypes
<1>6. CASE /\ outcome # NoOutcome /\ ~(Running /\ still) /\ outcome' = NoOutcome
           /\ history' = [history EXCEPT ![outcome.id] =
                             IF @ = "open" THEN Verdict[outcome.state] ELSE @]
  <2>1. outcome.id \in Change /\ outcome.state \in {"succeeded", "rolledBack", "running"}
    BY <1>6 DEF PortInv, PortTypes, OutcomeType
  <2>2. Verdict[outcome.state] \in {"succeeded", "rolledBack", "failed"} BY <2>1 DEF Verdict
  <2>3. /\ history' \in [Change -> {"none", "open", "succeeded", "rolledBack", "failed"}]
        /\ history'[outcome.id] # "open"
    BY <1>6, <2>1, <2>2 DEF PortInv, PortTypes
  <2> QED BY <1>3, <1>4, <1>6, <2>3 DEF PanelComesUp
<1> QED BY <1>5, <1>6 DEF PanelComesUp, FoldOutcome

\* What a step of the helper may count on.
LEMMA HelperIsAlone ==
    ASSUME PortAssumption, PortInv, helper.at # "none"
    PROVE  /\ helper \in HelperType /\ helper # NoHelper
           /\ ~joined => /\ changing = 0
                         /\ outcome \in {[id |-> helper.id, state |-> "running"], NoOutcome}
                         /\ \A c \in Change : ~Midway(c)
BY ChangesAreNumbered DEF PortInv, PortTypes, MutexHeld, HelperAlone

LEMMA HelperRestartKeeps ==
    ASSUME PortAssumption, PortInv, HelperRestart PROVE PortInv'
<1>1. /\ helper.at \in {"restart", "restartOld"}
      /\ \E still \in BOOLEAN : PanelComesUp(still)
      /\ Reloads(vhost) \/ ReloadFails({vhost})
      /\ torn' \in BOOLEAN /\ (~torn' => ~torn)
      /\ UNCHANGED <<env, vhost, joined>>
      /\ helper' = [helper EXCEPT !.at = IF @ = "restart" THEN "wait" ELSE "waitOld"]
  BY DEF HelperRestart, helperStillRunning, PortInv, PortTypes
<1>2. /\ helper \in HelperType
      /\ ~joined => /\ changing = 0
                    /\ outcome \in {[id |-> helper.id, state |-> "running"], NoOutcome}
                    /\ \A c \in Change : ~Midway(c)
  BY <1>1, HelperIsAlone
<1>3. /\ helper' \in HelperType /\ helper'.id = helper.id
      /\ helper'.at = IF helper.at = "restart" THEN "wait" ELSE "waitOld"
  BY <1>1, <1>2 DEF HelperType
<1>4. /\ change' \in [Change -> ChangeType]
      /\ \A c \in Change : change'[c].at \in {"idle", "done"}
      /\ \A c \in Change : change'[c].env = change[c].env /\ change'[c].vhost = change[c].vhost
      /\ changing' = 0 /\ serving' = env
      /\ outcome' \in {outcome, NoOutcome}
      /\ history' \in [Change -> {"none", "open", "succeeded", "rolledBack", "failed"}]
  BY <1>1, ComesUp
<1>13. /\ proxied' \in [backend : Port, external : Port] /\ unloaded' \in BOOLEAN
       /\ proxied' = vhost \/ unloaded'
  BY <1>1 DEF Reloads, ReloadFails, PortInv, PortTypes
<1>5. PortTypes' BY <1>1, <1>3, <1>4, <1>13, ChangesAreNumbered DEF PortInv, PortTypes
<1>6. \A c \in Change : ~Midway(c)' BY <1>4 DEF Midway
<1>7. MutexHeld' BY <1>4, <1>6, ChangesAreNumbered DEF MutexHeld
<1>8. HelperAlone' BY <1>1, <1>2, <1>3, <1>4, <1>6 DEF HelperAlone, Running, Midway
<1>9. helper.id \in Change /\ helper # NoHelper BY <1>2, ChangesAreNumbered
<1>10. OwnFiles' BY <1>1, <1>3, <1>4, <1>9 DEF PortInv, OwnFiles
<1>11. BackupsAgree' BY <1>1, <1>3, <1>4, <1>9, <1>13 DEF PortInv, BackupsAgree
<1>12. PortsAgree' BY <1>3, ChangesAreNumbered DEF PortsAgree
<1> QED BY <1>5, <1>7, <1>8, <1>10, <1>11, <1>12 DEF PortInv

LEMMA HelperVerdictKeeps ==
    ASSUME PortAssumption, PortInv, helper.at \in {"wait", "waitOld"},
           NEW s \in {"succeeded", "rolledBack"},
           outcome' = [id |-> helper.id, state |-> s], helper' = NoHelper,
           UNCHANGED <<env, vhost, serving, proxied, unloaded, change, changing, history, joined, torn>>
    PROVE  PortInv'
<1>1. /\ helper \in HelperType /\ helper # NoHelper
      /\ ~joined => changing = 0 /\ \A c \in Change : ~Midway(c)
  BY HelperIsAlone
<1>2. outcome' \in OutcomeType /\ outcome'.state # "running"
  BY <1>1 DEF HelperType, OutcomeType
<1>3. PortTypes' BY <1>2 DEF PortInv, PortTypes
<1>4. MutexHeld' BY DEF PortInv, MutexHeld, Midway
<1>5. HelperAlone' BY <1>1, <1>2 DEF HelperAlone, Running, Midway
<1>6. OwnFiles' BY <1>1, ChangesAreNumbered DEF OwnFiles, Midway
<1>7. BackupsAgree' BY <1>1, ChangesAreNumbered DEF BackupsAgree, Midway
<1>8. PortsAgree' BY <1>1 DEF PortInv, BackupsAgree, PortsAgree
<1> QED BY <1>3, <1>4, <1>5, <1>6, <1>7, <1>8 DEF PortInv

LEMMA HelperWaitKeeps ==
    ASSUME PortAssumption, PortInv, HelperWait PROVE PortInv'
<1>1. /\ helper.at = "wait"
      /\ UNCHANGED <<env, vhost, serving, proxied, unloaded, change, changing, history, joined, torn>>
  BY DEF HelperWait
<1>2. CASE outcome' = [id |-> helper.id, state |-> "succeeded"] /\ helper' = NoHelper
  BY <1>1, <1>2, HelperVerdictKeeps
<1>3. CASE helper' = [helper EXCEPT !.at = "restore"] /\ UNCHANGED outcome
  <2>1. helper \in HelperType BY <1>1, HelperIsAlone
  <2>2. helper' \in HelperType /\ helper'.id = helper.id /\ helper'.at = "restore"
    BY <1>3, <2>1 DEF HelperType
  <2>3. helper # NoHelper /\ helper' # NoHelper BY <2>1, <2>2, ChangesAreNumbered
  <2>4. PortTypes' BY <1>1, <1>3, <2>2 DEF PortInv, PortTypes
  <2>5. MutexHeld' BY <1>1 DEF PortInv, MutexHeld, Midway
  <2>6. HelperAlone' BY <1>1, <1>3, <2>2, <2>3 DEF PortInv, HelperAlone, Running, Midway
  <2>7. OwnFiles' BY <1>1, <2>2 DEF PortInv, OwnFiles
  <2>8. BackupsAgree' BY <1>1, <2>2, <2>3 DEF PortInv, BackupsAgree
  <2>9. PortsAgree' BY <2>3 DEF PortsAgree
  <2> QED BY <2>4, <2>5, <2>6, <2>7, <2>8, <2>9 DEF PortInv
<1> QED BY <1>2, <1>3 DEF HelperWait

\* The rollback puts back the files of its own change.
LEMMA HelperRestoreKeeps ==
    ASSUME PortAssumption, PortInv, HelperRestore PROVE PortInv'
<1>1. /\ helper.at = "restore"
      /\ env' = change[helper.id].env /\ vhost' = change[helper.id].vhost
      /\ helper' = [helper EXCEPT !.at = "restartOld"]
      /\ UNCHANGED <<serving, proxied, unloaded, change, changing, outcome, history, joined, torn>>
  BY DEF HelperRestore
<1>2. /\ helper \in HelperType /\ helper # NoHelper
      /\ ~joined => changing = 0 /\ \A c \in Change : ~Midway(c)
  BY <1>1, HelperIsAlone
<1>3. helper' \in HelperType /\ helper'.id = helper.id /\ helper'.at = "restartOld"
  BY <1>1, <1>2 DEF HelperType
<1>4. PortTypes'
  <2>1. helper.id \in Change BY <1>2 DEF HelperType
  <2>2. env' \in Port /\ vhost' \in [backend : Port, external : Port]
    BY <1>1, <2>1 DEF PortInv, PortTypes, ChangeType
  <2> QED BY <1>1, <1>3, <2>2 DEF PortInv, PortTypes
<1>5. MutexHeld' BY <1>1 DEF PortInv, MutexHeld, Midway
<1>6. HelperAlone'
  BY <1>1, <1>2, <1>3 DEF PortInv, HelperAlone, Running, Midway
<1>7. OwnFiles' BY <1>1, <1>2, <1>3 DEF OwnFiles, Midway
<1>8. BackupsAgree' BY <1>1, <1>2, <1>3 DEF PortInv, BackupsAgree, Midway
<1>9. PortsAgree' BY <1>3, ChangesAreNumbered DEF PortsAgree
<1> QED BY <1>4, <1>5, <1>6, <1>7, <1>8, <1>9 DEF PortInv

\* The panel stops with nobody at work, or tears what was.
LEMMA PanelStopKeeps ==
    ASSUME PortAssumption, PortInv, NEW reboot \in BOOLEAN, PanelStops(reboot) PROVE PortInv'
<1>1. /\ UNCHANGED <<env, vhost, joined>>
      /\ torn' \in BOOLEAN
      /\ ~torn' => /\ ~torn /\ \A c \in Change : ~Midway(c)
                   /\ ~(reboot /\ helper # NoHelper)
      /\ IF reboot THEN helper' = NoHelper /\ Reloads(vhost)
                   ELSE UNCHANGED <<helper, proxied, unloaded>>
  BY DEF PanelStops, PortInv, PortTypes
<1>2. PICK still \in BOOLEAN : PanelComesUp(still)
  BY DEF PanelStops, helperStillRunning
<1>3. /\ change' \in [Change -> ChangeType]
      /\ \A c \in Change : change'[c].at \in {"idle", "done"}
      /\ \A c \in Change : change'[c].env = change[c].env /\ change'[c].vhost = change[c].vhost
      /\ changing' = 0 /\ serving' = env
      /\ outcome' \in {outcome, NoOutcome}
      /\ history' \in [Change -> {"none", "open", "succeeded", "rolledBack", "failed"}]
  BY <1>2, ComesUp
<1>14. /\ proxied' \in [backend : Port, external : Port] /\ unloaded' \in BOOLEAN
       /\ (proxied = vhost \/ unloaded) => (proxied' = vhost \/ unloaded')
  BY <1>1 DEF Reloads, PortInv, PortTypes
<1>4. PortTypes' BY <1>1, <1>3, <1>14, ChangesAreNumbered DEF PortInv, PortTypes
<1>5. \A c \in Change : ~Midway(c)' BY <1>3 DEF Midway
<1>6. MutexHeld' BY <1>3, <1>5, ChangesAreNumbered DEF MutexHeld
<1>7. helper' \in {helper, NoHelper} /\ (helper' # NoHelper => ~reboot /\ helper # NoHelper)
  BY <1>1
<1>8. HelperAlone' BY <1>1, <1>3, <1>5, <1>7 DEF PortInv, HelperAlone, Midway
<1>9. helper # NoHelper => helper.id \in Change BY DEF PortInv, PortTypes, HelperType
<1>10. NoHelper.at = "none" BY ChangesAreNumbered
<1>11. OwnFiles' BY <1>1, <1>3, <1>7, <1>9, <1>10 DEF PortInv, OwnFiles
<1>12. BackupsAgree' BY <1>1, <1>3, <1>7, <1>9, <1>10, <1>14 DEF PortInv, BackupsAgree
<1>13. PortsAgree'
  <2>1. (\A c \in Change : ~Midway(c)) => changing = 0
    BY DEF PortInv, PortTypes, MutexHeld, Port, Change, PortAssumption
  <2> QED BY <1>1, <1>3, <1>14, <2>1 DEF PortInv, PortsAgree, Reloads
<1> QED BY <1>4, <1>6, <1>8, <1>11, <1>12, <1>13 DEF PortInv

\* Every step of the panel and of the helper keeps the invariant.
LEMMA PortStep == PortAssumption /\ PortInv /\ [PortNext]_portVars => PortInv'
<1> SUFFICES ASSUME PortAssumption, PortInv, [PortNext]_portVars PROVE PortInv'
  OBVIOUS
<1>1. CASE UNCHANGED portVars
  <2> USE <1>1 DEF portVars
  <2>1. PortTypes' BY DEF PortInv, PortTypes
  <2>2. MutexHeld' BY DEF PortInv, MutexHeld, Midway
  <2>3. HelperAlone' BY DEF PortInv, HelperAlone, Running, Midway
  <2>4. OwnFiles' BY DEF PortInv, OwnFiles
  <2>5. BackupsAgree' BY DEF PortInv, BackupsAgree
  <2>6. PortsAgree' BY DEF PortInv, PortsAgree
  <2> QED BY <2>1, <2>2, <2>3, <2>4, <2>5, <2>6 DEF PortInv
<1>2. ASSUME NEW c \in Change, NEW kind \in {"external", "backend"}, AskChange(c, kind)
      PROVE  PortInv'
  BY <1>2, AskChangeKeeps
<1>3. ASSUME NEW c \in Change,
             \/ Begin(c) \/ WriteEnv(c) \/ WriteVhost(c) \/ ReloadNginx(c) \/ portAnswers(c)
             \/ WriteOutcome(c) \/ LaunchHelper(c)
      PROVE  PortInv'
  BY <1>3, BeginKeeps, WriteEnvKeeps, WriteVhostKeeps, ReloadKeeps, ProbeKeeps, WriteOutcomeKeeps,
     LaunchKeeps
<1>4. ASSUME HelperWaitOld PROVE PortInv'
  BY <1>4, HelperVerdictKeeps DEF HelperWaitOld
<1> QED
  BY <1>1, <1>2, <1>3, <1>4, HelperRestartKeeps, HelperWaitKeeps, HelperRestoreKeeps, PanelStopKeeps
     DEF PortNext

\* The files are always what the changes have made of them.
LEMMA PortInvariant == ASSUME PortAssumption PROVE PortSpec => []PortInv
<1>1. PortInit => PortInv BY PortStarts
<1>2. PortInv /\ [PortNext]_portVars => PortInv' BY PortStep
<1> QED BY <1>1, <1>2, PTL DEF PortSpec

(***************************************************************************)
(* Whatever failed or was rolled back, once no change is at work the panel *)
(* listens where its file says, the vhost names that port and nginx has    *)
(* loaded the vhost, or is still waiting for a reload that works; unless a *)
(* process died between two steps or two changes ran side by side.         *)
(***************************************************************************)
THEOREM PortsComeToAgree == ASSUME PortAssumption PROVE PortSpec => []PortsAgree
<1>1. PortInv => PortsAgree BY DEF PortInv
<1>2. PortSpec => []PortInv BY PortInvariant
<1> QED BY <1>1, <1>2, PTL

(***************************************************************************)
(* The helper's rollback finds its own change in the files and puts back   *)
(* nothing but it (acceptable: a second change must not join the first),   *)
(* unless the second was accepted before the first's helper was started,   *)
(* or after a start of the panel had taken that helper for dead.           *)
(***************************************************************************)
THEOREM RollbackIsItsOwn == ASSUME PortAssumption PROVE PortSpec => RollbackTakesOnlyItsOwn
<1>1. PortInv /\ [PortNext]_portVars => [OwnRollback]_portVars
  <2> SUFFICES ASSUME PortInv, PortNext, helper.at = "restore", helper'.at = "restartOld", ~joined
               PROVE  vhost'.external = vhost.external /\ env = helper.id
    BY DEF OwnRollback
  <2>1. env = helper.id /\ change[helper.id].vhost.external = vhost.external
    BY DEF PortInv, OwnFiles
  <2>2. HelperRestore
    <3>1. NoHelper.at # "restartOld" BY DEF NoHelper
    <3>2. helper' # helper OBVIOUS
    <3>3. \A c \in Change : LaunchHelper(c) /\ helper' # helper => helper'.at # "restartOld"
      BY DEF LaunchHelper
    <3>4. HelperWait => helper'.at # "restartOld" BY <3>1 DEF HelperWait
    <3>5. ~HelperRestart /\ ~HelperWaitOld BY DEF HelperRestart, HelperWaitOld
    <3>6. \A reboot \in BOOLEAN : ~PanelStops(reboot) BY <3>1, <3>2 DEF PanelStops
    <3>7. \A c \in Change : /\ \A kind \in {"external", "backend"} : ~AskChange(c, kind)
                            /\ ~Begin(c) /\ ~WriteEnv(c) /\ ~WriteVhost(c) /\ ~ReloadNginx(c)
                            /\ ~portAnswers(c) /\ ~WriteOutcome(c)
      BY <3>2 DEF AskChange, Begin, WriteEnv, WriteVhost, ReloadNginx, portAnswers, WriteOutcome
    <3> QED BY <3>2, <3>3, <3>4, <3>5, <3>6, <3>7 DEF PortNext
  <2> QED BY <2>1, <2>2 DEF HelperRestore
<1>2. PortSpec => []PortInv BY PortInvariant
<1> QED BY <1>1, <1>2, PTL DEF PortSpec, RollbackTakesOnlyItsOwn

(***************************************************************************)
(* A verdict leaves the outcome file for its closed row, or for the next   *)
(* change ("The file is only cleared once the row has it").                *)
(***************************************************************************)
THEOREM VerdictReachesItsRow == ASSUME PortAssumption PROVE PortSpec => VerdictIsKept
<1>1. PortInv /\ [PortNext]_portVars => [KeptVerdict]_portVars
  <2> SUFFICES ASSUME PortInv, PortNext, ~joined, outcome.state \in {"succeeded", "rolledBack"},
                      outcome' # outcome
               PROVE  history'[outcome.id] # "open" \/ outcome'.state = "running"
    BY DEF KeptVerdict
  <2>1. helper.at = "none" BY HelperIsAlone DEF NoOutcome
  <2>2. \A c \in Change : ~LaunchHelper(c)
    BY DEF PortInv, HelperAlone, LaunchHelper
  <2>3. ASSUME NEW c \in Change, WriteOutcome(c) PROVE outcome'.state = "running"
    BY <2>3 DEF WriteOutcome
  <2>4. ASSUME NEW reboot \in BOOLEAN, PanelStops(reboot) PROVE history'[outcome.id] # "open"
    <3>1. PICK still \in BOOLEAN : PanelComesUp(still)
      BY <2>4 DEF PanelStops, helperStillRunning
    <3> QED BY <3>1, ComesUp
  <2>5. ~HelperRestart /\ ~HelperWait /\ ~HelperWaitOld /\ ~HelperRestore
    BY <2>1 DEF HelperRestart, HelperWait, HelperWaitOld, HelperRestore
  <2>6. \A c \in Change : /\ \A kind \in {"external", "backend"} : ~AskChange(c, kind)
                          /\ ~Begin(c) /\ ~WriteEnv(c) /\ ~WriteVhost(c) /\ ~ReloadNginx(c)
                          /\ ~portAnswers(c)
    BY DEF AskChange, Begin, WriteEnv, WriteVhost, ReloadNginx, portAnswers
  <2> QED BY <2>2, <2>3, <2>4, <2>5, <2>6 DEF PortNext
<1>2. PortSpec => []PortInv BY PortInvariant
<1> QED BY <1>1, <1>2, PTL DEF PortSpec, VerdictIsKept

(***************************************************************************)
(* The mutex implements exclusive use of the files by the requests: one    *)
(* enters as it takes the mutex, alone because MutexHeld says whose it is, *)
(* and leaves with its verdict, or with every other request as the panel   *)
(* comes up again.                                                         *)
(***************************************************************************)
onFiles == [c \in Change |-> IF Midway(c) THEN "files" ELSE "none"]

\* Where no change sets out, a step is a step of ExclusiveUse: some have left.
LEMMA NoChangeSetsOut ==
    ASSUME \A c \in Change : Midway(c)' => Midway(c)
    PROVE  FilesUse!Next
<1>1. PICK gone \in SUBSET Change : gone = {c \in Change : ~Midway(c)'} OBVIOUS
<1>2. FilesUse!Leave(gone) BY <1>1 DEF FilesUse!Leave
<1> QED BY <1>2 DEF FilesUse!Next

\* Every step of the panel and of the helper is a step of ExclusiveUse, or leaves it alone.
LEMMA FilesStep ==
    ASSUME PortAssumption, PortInv, [PortNext]_portVars
    PROVE  FilesUse!Next \/ UNCHANGED onFiles
<1>1. ASSUME NEW c \in Change, Begin(c), Midway(c)' PROVE FilesUse!Next
  <2>1. \A d \in Change : ~Midway(d)
    BY <1>1, ChangesAreNumbered DEF Begin, PortInv, MutexHeld
  <2>2. \A d \in Change \ {c} : Midway(d)' <=> Midway(d)
    BY <1>1 DEF Begin, Finish, Proceed, Midway, PortInv, PortTypes
  <2>3. onFiles' = [onFiles EXCEPT ![c] = "files"]
    BY <1>1, <2>2 DEF onFiles
  <2>4. FilesUse!Enter(c, "files") BY <2>1, <2>3 DEF onFiles, FilesUse!Enter
  <2> QED BY <2>4 DEF FilesUse!Next
<1>2. ASSUME NEW c \in Change, Begin(c), ~Midway(c)' PROVE FilesUse!Next
  <2>1. \A d \in Change \ {c} : Midway(d)' => Midway(d)
    BY <1>2 DEF Begin, Finish, Proceed, Midway, PortInv, PortTypes
  <2> QED BY <1>2, <2>1, NoChangeSetsOut
<1>3. ASSUME NEW c \in Change,
             \/ \E kind \in {"external", "backend"} : AskChange(c, kind)
             \/ WriteEnv(c) \/ WriteVhost(c) \/ ReloadNginx(c) \/ portAnswers(c)
             \/ WriteOutcome(c) \/ LaunchHelper(c)
      PROVE  FilesUse!Next
  <2>1. CASE \E kind \in {"external", "backend"} : AskChange(c, kind)
    BY <2>1, NoChangeSetsOut DEF AskChange, Midway, PortInv, PortTypes, ChangeType
  <2>2. CASE Midway(c)
    <3>1. \E a \in {"vhost", "reload", "probe", "outcome", "launch", "done"} : Proceed(c, a)
      BY <1>3, <2>2 DEF WriteEnv, WriteVhost, ReloadNginx, portAnswers, WriteOutcome, LaunchHelper,
                        AskChange, Midway, Finish, NoRequest
    <3>2. \A d \in Change \ {c} : Midway(d)' => Midway(d)
      BY <3>1, ChangeProceeds DEF PortInv, Midway
    <3> QED BY <2>2, <3>2, NoChangeSetsOut
  <2>3. CASE ~Midway(c)
    BY <1>3, <2>1, <2>3 DEF WriteEnv, WriteVhost, ReloadNginx, portAnswers, WriteOutcome,
                            LaunchHelper, Midway
  <2> QED BY <2>1, <2>2, <2>3
<1>4. ASSUME NEW stillRunning \in BOOLEAN, PanelComesUp(stillRunning) PROVE FilesUse!Next
  BY <1>4, NoChangeSetsOut DEF PanelComesUp, Midway, PortInv, PortTypes, ChangeType
<1>5. CASE HelperRestart \/ \E reboot \in BOOLEAN : PanelStops(reboot)
  BY <1>4, <1>5 DEF HelperRestart, PanelStops, helperStillRunning
<1>6. CASE HelperWait \/ HelperRestore \/ HelperWaitOld \/ UNCHANGED portVars
  BY <1>6 DEF HelperWait, HelperRestore, HelperWaitOld, portVars, onFiles, Midway
<1> QED BY <1>1, <1>2, <1>3, <1>5, <1>6 DEF PortNext

\* The mutex implements exclusive use of the files (refinement).
THEOREM MutexRefinesExclusiveUse == ASSUME PortAssumption PROVE PortSpec => FilesUseSpec
<1>1. PortInit => FilesUse!Init BY DEF PortInit, NoRequest, Midway, FilesUse!Init
<1>2. PortInv /\ [PortNext]_portVars => [FilesUse!Next]_onFiles BY FilesStep
<1> QED BY <1>1, <1>2, PortInvariant, PTL DEF PortSpec, FilesUseSpec, FilesUse!Spec, onFiles

\* Faults and stops of the panel are counted up to their bounds.
LEMMA PortCountersBounded ==
    ASSUME PortAssumption, portFaults \in 0..MaxPortFaults, panelStops \in 0..MaxPanelStops,
           [PortNext]_portVars
    PROVE  portFaults' \in 0..MaxPortFaults /\ panelStops' \in 0..MaxPanelStops
<1>1. /\ Fine \/ PortFault
      /\ \/ UNCHANGED panelStops
         \/ panelStops < MaxPanelStops /\ panelStops' = panelStops + 1
  <2>1. CASE UNCHANGED portVars BY <2>1 DEF portVars, Fine
  <2>2. ASSUME NEW c \in Change,
               \/ \E kind \in {"external", "backend"} : AskChange(c, kind)
               \/ Begin(c) \/ WriteEnv(c) \/ WriteVhost(c) \/ ReloadNginx(c) \/ portAnswers(c)
               \/ WriteOutcome(c) \/ LaunchHelper(c)
        PROVE  (Fine \/ PortFault) /\ UNCHANGED panelStops
    BY <2>2 DEF AskChange, Begin, WriteEnv, WriteVhost, ReloadNginx, portAnswers, WriteOutcome,
                LaunchHelper, Fine
  <2>3. CASE HelperRestart \/ HelperWait \/ HelperRestore \/ HelperWaitOld
    BY <2>3 DEF HelperRestart, HelperWait, HelperRestore, HelperWaitOld, PanelComesUp, FoldOutcome,
                Fine
  <2>4. CASE \E reboot \in BOOLEAN : PanelStops(reboot)
    BY <2>4 DEF PanelStops, PanelComesUp, FoldOutcome
  <2> QED BY <2>1, <2>2, <2>3, <2>4 DEF PortNext
<1> QED BY <1>1 DEF PortAssumption, Fine, PortFault

(***************************************************************************)
(* The files, the change at work, the helper and the history keep their    *)
(* types, whichever of them a change, a rollback or a start rewrites.      *)
(***************************************************************************)
THEOREM PortTypeCorrect == ASSUME PortAssumption PROVE PortSpec => []PortTypeOK
<1> DEFINE Counted == portFaults \in 0..MaxPortFaults /\ panelStops \in 0..MaxPanelStops
<1>1. PortInit => Counted BY DEF PortAssumption, PortInit
<1>2. Counted /\ [PortNext]_portVars => Counted' BY PortCountersBounded
<1>3. PortInv /\ Counted => PortTypeOK
  <2> SUFFICES ASSUME PortInv, Counted PROVE PortTypeOK OBVIOUS
  <2>1. PortTypes BY DEF PortInv
  <2>2. /\ outcome \in [id : Port, state : {"none", "running", "succeeded", "rolledBack"}]
        /\ helper \in [id : Port, at : {"none", "restart", "wait", "restore", "restartOld", "waitOld"}]
    BY <2>1, ChangesAreNumbered DEF PortTypes, OutcomeType, HelperType, NoOutcome, NoHelper
  <2> QED BY <2>1, <2>2 DEF PortTypes, PortTypeOK, ChangeType
<1>4. PortSpec => []PortInv BY PortInvariant
<1> QED BY <1>1, <1>2, <1>3, <1>4, PTL DEF PortSpec
=============================================================================
