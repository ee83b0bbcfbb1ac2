----------------------------- MODULE QuotaGate -----------------------------
(***************************************************************************)
(* The ceilings of a customer's plan and of its reseller (internal/quota), *)
(* each a count followed by a separate insert.  An addon domain and a      *)
(* database are created under the customer's lock, and so are a mailbox    *)
(* and an application; a top-level domain is not, and its row counts once  *)
(* it is attached to the customer.                                         *)
(*                                                                         *)
(* Some rows pass no check: the default database of a top-level domain, a  *)
(* database that a restore registers again, and whatever BulkOwner moves.  *)
(* They are counted apart.                                                 *)
(*                                                                         *)
(* The customers are those of one reseller; their top-level domains are    *)
(* created by the reseller, or by an administrator, whom the reseller's    *)
(* ceiling does not stop.  The disk and traffic ceilings count what was    *)
(* measured last, and are left out.                                        *)
(***************************************************************************)
EXTENDS FiniteSetsExt, Naturals

CONSTANTS
    Customer, Creation,            \* Creation: the requests in flight
    Free,
    MaxDomain, MaxDb,              \* the plan's ceilings
    ResellerMaxDomain,
    MaxLookupFaults, MaxGiven      \* bounds

QuotaAssumption ==
    /\ IsFiniteSet(Customer) /\ Free \notin Creation \cup Customer
    /\ {MaxDomain, MaxDb, ResellerMaxDomain} \subseteq Nat \ {0}
    /\ {MaxLookupFaults, MaxGiven} \subseteq Nat

VARIABLES
    domains, databases,              \* how many rows each customer has
    givenDomains, givenDatabases,    \* how many came without a check of its plan
    unasked,                         \* how many came without a check of the reseller
    customerMu,                      \* the creation that holds the customer's lock
    creation,
    unguarded,                       \* a creation without the lock and another one overlapped
                                     \* an insert, or a domain was moved from under one
    lookupFaults

given     == <<givenDomains, givenDatabases, unasked>>
quotaVars == <<domains, databases, given, customerMu, creation, unguarded, lookupFaults>>

Unasked == [at |-> "idle", kind |-> "none", customer |-> Free, locked |-> FALSE]

QuotaInit ==
    /\ domains = [k \in Customer |-> 0] /\ databases = [k \in Customer |-> 0]
    /\ givenDomains = [k \in Customer |-> 0] /\ givenDatabases = [k \in Customer |-> 0]
    /\ unasked = 0
    /\ customerMu = [k \in Customer |-> Free]
    /\ creation = [q \in Creation |-> Unasked]
    /\ unguarded = FALSE /\ lookupFaults = 0

ResellerTotal == MapThenSumSet(LAMBDA k : domains[k], Customer)

\* A slip: a lock that is held is no obstacle.
LockCustomerUnshared(q, k) ==
    /\ customerMu' = [customerMu EXCEPT ![k] = q] /\ UNCHANGED lookupFaults

\* LockCustomerForDomain waits for the lock.  When it cannot read whose domain
\* it is, the request goes on without; its check reads that once more.  So does
\* an addon domain whose parent has just moved: the lock is of another customer.
LockCustomerForDomain(q, k) ==
    \/ customerMu[k] = Free /\ customerMu' = [customerMu EXCEPT ![k] = q] /\ UNCHANGED lookupFaults
    \/ /\ lookupFaults < MaxLookupFaults /\ lookupFaults' = lookupFaults + 1
       /\ UNCHANGED customerMu

CreateLocked(q, k, kind) ==
    /\ creation[q] = Unasked
    /\ LockCustomerForDomain(q, k)
    /\ creation' = [creation EXCEPT ![q] = [at |-> "plan", kind |-> kind, customer |-> k,
                                            locked |-> customerMu'[k] = q]]
    /\ UNCHANGED <<domains, databases, given, unguarded>>

\* resellerRefused asks only when the caller is a reseller.
CreateTopLevel(q, k, caller) ==
    /\ creation[q] = Unasked
    /\ creation' = [creation EXCEPT ![q] =
                        [at |-> IF caller = "reseller" THEN "reseller" ELSE "plan",
                         kind |-> IF caller = "reseller" THEN "top" ELSE "free",
                         customer |-> k, locked |-> FALSE]]
    /\ UNCHANGED <<domains, databases, given, customerMu, unguarded, lookupFaults>>

Ends(q) ==
    /\ creation' = [creation EXCEPT ![q] = Unasked]
    /\ customerMu' = [k \in Customer |-> IF customerMu[k] = q THEN Free ELSE customerMu[k]]

GoesOn(q, at) == creation' = [creation EXCEPT ![q].at = at] /\ UNCHANGED customerMu

\* CheckDomainAllowed, CheckDatabaseAllowed.
CheckPlan(q) ==
    LET c    == creation[q]
        full == IF c.kind = "database" THEN databases[c.customer] >= MaxDb
                                       ELSE domains[c.customer] >= MaxDomain
    IN  /\ c.at = "plan"
        /\ IF full THEN Ends(q) ELSE GoesOn(q, IF c.kind = "addon" THEN "reseller" ELSE "insert")
        /\ UNCHANGED <<domains, databases, given, unguarded, lookupFaults>>

\* A slip: the ceiling is reached one too late.
ResellerFullLate == ResellerTotal > ResellerMaxDomain

ResellerFull == ResellerTotal >= ResellerMaxDomain

\* CheckResellerDomainAllowed: after the plan for an addon domain, before it for
\* a top-level one.
CheckReseller(q) ==
    /\ creation[q].at = "reseller"
    /\ IF ResellerFull
       THEN Ends(q) ELSE GoesOn(q, IF creation[q].kind = "addon" THEN "insert" ELSE "plan")
    /\ UNCHANGED <<domains, databases, given, unguarded, lookupFaults>>

\* The default database of a top-level domain, unless the site is static: under
\* no check and no lock, and in one step with the domain's row.
provisionDatabase(k) ==
    \/ /\ givenDatabases[k] < MaxGiven
       /\ databases' = [databases EXCEPT ![k] = @ + 1]
       /\ givenDatabases' = [givenDatabases EXCEPT ![k] = @ + 1]
    \/ UNCHANGED <<databases, givenDatabases>>

\* The row, or none when the rest of the request fails.
InsertRow(q) ==
    LET k == creation[q].customer IN
    /\ creation[q].at = "insert"
    /\ \/ /\ creation[q].kind = "database"
          /\ databases' = [databases EXCEPT ![k] = @ + 1] /\ UNCHANGED <<domains, given>>
       \/ /\ creation[q].kind # "database"
          /\ domains' = [domains EXCEPT ![k] = @ + 1]
          /\ IF creation[q].kind = "addon" THEN UNCHANGED <<databases, givenDatabases>>
                                           ELSE provisionDatabase(k)
          /\ IF creation[q].kind = "free" THEN unasked < MaxGiven /\ unasked' = unasked + 1
                                          ELSE UNCHANGED unasked
          /\ UNCHANGED givenDomains
       \/ UNCHANGED <<domains, databases, given>>
    /\ Ends(q)
    /\ unguarded' = (unguarded \/ \E r \in Creation \ {q} :
                        creation[r] # Unasked /\ ~(creation[q].locked /\ creation[r].locked))
    /\ UNCHANGED lookupFaults

Delete(k) ==
    /\ \/ domains[k] > 0 /\ domains' = [domains EXCEPT ![k] = @ - 1] /\ UNCHANGED databases
       \/ databases[k] > 0 /\ databases' = [databases EXCEPT ![k] = @ - 1] /\ UNCHANGED domains
    /\ UNCHANGED <<given, customerMu, creation, unguarded, lookupFaults>>

\* A restore puts back a database whose row had been deleted.
reRegisterRestoredDB(k) ==
    /\ givenDatabases[k] < MaxGiven
    /\ databases' = [databases EXCEPT ![k] = @ + 1]
    /\ givenDatabases' = [givenDatabases EXCEPT ![k] = @ + 1]
    /\ UNCHANGED <<domains, givenDomains, unasked, customerMu, creation, unguarded, lookupFaults>>

\* n rows less for one customer, n more for the other; Free stands for whoever is
\* not a customer of the reseller.
Moved(rows, n, from, to) ==
    [k \in Customer |-> rows[k] + (IF k = to THEN n ELSE 0) - (IF k = from THEN n ELSE 0)]

\* n domains, addons included, go to another customer with their m databases,
\* unchecked and without a lock; so does a new domain that named no customer.  A
\* database under creation goes with its domain, and counts for the new customer.
BulkOwner(from, to, n, m, under) ==
    /\ from # to /\ (from # Free => n <= domains[from] /\ m <= databases[from])
    /\ under \subseteq {q \in Creation : creation[q].kind = "database" /\ creation[q].customer = from}
    /\ (to = Free => under = {})
    /\ domains' = Moved(domains, n, from, to) /\ databases' = Moved(databases, m, from, to)
    /\ givenDomains' = [k \in Customer |-> givenDomains[k] + IF k = to THEN n ELSE 0]
    /\ givenDatabases' = [k \in Customer |-> givenDatabases[k] + IF k = to THEN m ELSE 0]
    /\ unasked' = unasked + IF from = Free THEN n ELSE 0
    /\ unasked' <= MaxGiven
    /\ \A k \in Customer : givenDomains'[k] <= MaxGiven /\ givenDatabases'[k] <= MaxGiven
    /\ creation' = [q \in Creation |->
                        IF q \in under THEN [creation[q] EXCEPT !.customer = to, !.locked = FALSE]
                                       ELSE creation[q]]
    /\ unguarded' = (unguarded \/ under # {})
    /\ UNCHANGED <<customerMu, lookupFaults>>

QuotaNext ==
    \/ \E q \in Creation, k \in Customer :
         \/ \E caller \in {"reseller", "administrator"} : CreateTopLevel(q, k, caller)
         \/ \E kind \in {"addon", "database"} : CreateLocked(q, k, kind)
    \/ \E q \in Creation : CheckPlan(q) \/ CheckReseller(q) \/ InsertRow(q)
    \/ \E k \in Customer : Delete(k) \/ reRegisterRestoredDB(k)
    \/ \E from, to \in Customer \cup {Free}, n \in 1..MaxGiven, m \in 0..MaxGiven,
          under \in SUBSET Creation : BulkOwner(from, to, n, m, under)

QuotaSpec == QuotaInit /\ [][QuotaNext]_quotaVars

-----------------------------------------------------------------------------
\* The types of the variables.
QuotaTypeOK ==
    /\ domains \in [Customer -> Nat] /\ databases \in [Customer -> Nat]
    /\ givenDomains \in [Customer -> 0..MaxGiven] /\ givenDatabases \in [Customer -> 0..MaxGiven]
    /\ unasked \in 0..MaxGiven
    /\ customerMu \in [Customer -> Creation \cup {Free}]
    /\ creation \in [Creation -> [at : {"idle", "plan", "reseller", "insert"},
                                  kind : {"none", "addon", "top", "free", "database"},
                                  customer : Customer \cup {Free}, locked : BOOLEAN]]
    /\ unguarded \in BOOLEAN /\ lookupFaults \in 0..MaxLookupFaults

(***************************************************************************)
(* No customer has more than its plan allows and what it was given without *)
(* a check ("Without it, concurrent create requests can each pass the      *)
(* count check before any insert lands"), until a creation without the     *)
(* lock overlapped with another one, or with a move of its domain.         *)
(***************************************************************************)
PlanIsKept ==
    unguarded \/ \A k \in Customer : /\ domains[k] <= MaxDomain + givenDomains[k]
                                     /\ databases[k] <= MaxDb + givenDatabases[k]

(***************************************************************************)
(* The reseller's total, which is summed over customers whose locks do not *)
(* exclude each other, passes its ceiling by one row less than there are   *)
(* customers at most, apart from the rows an administrator created or      *)
(* moved in, with the same exception.                                      *)
(***************************************************************************)
ResellerNearlyKept ==
    unguarded \/ ResellerTotal < ResellerMaxDomain + unasked + Cardinality(Customer)

(***************************************************************************)
(* What the lock promises to the creations that got it: one at a time for  *)
(* a customer, from LockCustomerForDomain to the end of the request, which *)
(* every refusal and failure reaches (the deferred unlock).  See           *)
(* ExclusiveUse.                                                           *)
(***************************************************************************)
CustomerUse == INSTANCE ExclusiveUse WITH
    User <- Creation, Resource <- Customer, NoResource <- Free,
    using <- [q \in Creation |-> IF creation[q].locked THEN creation[q].customer ELSE Free]

CustomerUseSpec == CustomerUse!Spec
=============================================================================
