-------------------------------- MODULE MCOwner --------------------------------
(***************************************************************************)
(* Instances of Organization, Customer and Daily for TLC.  The three share *)
(* nothing, so TLC need not interleave them: each moves while the others   *)
(* are where they begin.                                                   *)
(***************************************************************************)
EXTENDS Organization, Customer, Daily, TLC

CONSTANTS u1, u2, u3, r1, r2, c1, c2, c3, s1, s2, s3, s4

Asking(op, actors, targets, roles) ==
    [op : {op}, actor : actors, target : targets, role : roles]

\* Two users who may both found the organization; one is made its second owner,
\* or a manager, beside a third who is invited.
OrgAsks ==
    {a \in Asking("create", {u1, u2}, {u1, u2}, {"OWNER"}) : IsSelf(a)} \cup
    Asking("invite", {u1}, {u2}, {"ADMIN"}) \cup
    Asking("invite", {u2}, {u3}, {"DEVELOPER"}) \cup
    Asking("setRole", {u1, u2}, {u1, u2}, {"OWNER", "DEVELOPER"}) \cup
    Asking("remove", {u1, u2}, {u1, u2}, {"DEVELOPER"}) \cup
    Asking("project", {u2}, {u2}, {"DEVELOPER"})

\* Requests, and calls, differ by nothing but their names.
Alike == Permutations(Requests) \cup Permutations({s1, s2})

OwnerInit == OrgInit /\ CustomerInit /\ DailyInit

OwnerNext ==
    \/ OrgNext /\ CustomerInit /\ DailyInit /\ UNCHANGED <<customerVars, dailyVars>>
    \/ CustomerNext /\ OrgInit /\ DailyInit /\ UNCHANGED <<orgVars, dailyVars>>
    \/ DailyNext /\ OrgInit /\ CustomerInit /\ UNCHANGED <<orgVars, customerVars>>

OwnerSpec == OwnerInit /\ [][OwnerNext]_<<orgVars, customerVars, dailyVars>>
=============================================================================
