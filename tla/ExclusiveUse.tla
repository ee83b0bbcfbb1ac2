---------------------------- MODULE ExclusiveUse ----------------------------
(***************************************************************************)
(* What an in-memory claim on a resource promises: at any moment a         *)
(* resource has at most one user, and a user has at most one resource.     *)
(* Several may leave at once, when the process that hosts them ends.       *)
(***************************************************************************)
CONSTANTS User, Resource, NoResource

VARIABLE using   \* the resource each user is using, or NoResource

Init == using = [u \in User |-> NoResource]

Enter(u, r) ==
    /\ using[u] = NoResource
    /\ \A v \in User : using[v] # r
    /\ using' = [using EXCEPT ![u] = r]

Leave(gone) == using' = [u \in User |-> IF u \in gone THEN NoResource ELSE using[u]]

Next ==
    \/ \E u \in User, r \in Resource : Enter(u, r)
    \/ \E gone \in SUBSET User : Leave(gone)

Spec == Init /\ [][Next]_using

\* What the specification is for: a resource has one user.
OneUser == \A u, v \in User : using[u] = using[v] /\ using[u] # NoResource => u = v
=============================================================================
