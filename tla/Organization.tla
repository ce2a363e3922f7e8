----------------------------- MODULE Organization -----------------------------
(***************************************************************************)
(* The members of one organization, as AccountService changes them: each   *)
(* operation reads the membership of the actor, then that of the target,   *)
(* and writes in a transaction that looks at neither again.  Requests run  *)
(* side by side; every await is a step.  The audit log, which none of them *)
(* reads, is left out.                                                     *)
(***************************************************************************)
EXTENDS Integers, FiniteSets

CONSTANTS
    Users,
    Requests,  \* what runs at once; a request that is over makes room for another
    Asks,      \* [op, actor, target, role]: what may be asked
    NoUser, NoRole, NoAsk,
    MaxSeats   \* organization.maxSeats

Roles == {"OWNER", "ADMIN", "DEVELOPER", "BILLING"}
Ops == {"create", "invite", "setRole", "remove", "project"}

ASSUME OrganizationAssumption ==
    /\ Asks \subseteq [op : Ops, actor : Users, target : Users, role : Roles]
    /\ NoUser \notin Users /\ NoRole \notin Roles /\ NoAsk \notin Asks
    /\ MaxSeats \in Nat

VARIABLES
    founder,   \* organizations: the owner_id of the row, NoUser when absent
    role,      \* memberships: the role of each user
    invited,   \* organization_invitations: the role each user is invited for
    project,   \* projects: the slug is taken
    ask,       \* what each request asks
    at         \* where it is

orgVars == <<founder, role, invited, project, ask, at>>

\* What Postgres and the requests may hold.
OrgTypeOK ==
    /\ founder \in Users \cup {NoUser} /\ role \in [Users -> Roles \cup {NoRole}]
    /\ invited \in [Users -> Roles \cup {NoRole}] /\ project \in BOOLEAN
    /\ ask \in [Requests -> Asks \cup {NoAsk}]
    /\ at \in [Requests -> {"idle", "sent", "allowed", "checked", "seated"}]
    /\ \A r \in Requests : (at[r] = "idle") = (ask[r] = NoAsk)

OrgInit ==
    /\ founder = NoUser /\ role = [u \in Users |-> NoRole]
    /\ invited = [u \in Users |-> NoRole] /\ project = FALSE
    /\ ask = [r \in Requests |-> NoAsk] /\ at = [r \in Requests |-> "idle"]

Managers == {"OWNER", "ADMIN"}
IsSelf(a) == a.actor = a.target

\* The members that count against the seats: invitations do not.
Members == {u \in Users : role[u] # NoRole}

-----------------------------------------------------------------------------
Receive(r, a) ==
    /\ at[r] = "idle" /\ at' = [at EXCEPT ![r] = "sent"] /\ ask' = [ask EXCEPT ![r] = a]
    /\ UNCHANGED <<founder, role, invited, project>>

\* A read that lets the request go on.
Pass(r, from, to) ==
    /\ at[r] = from /\ at' = [at EXCEPT ![r] = to]
    /\ UNCHANGED <<founder, role, invited, project, ask>>

Over(r) == at' = [at EXCEPT ![r] = "idle"] /\ ask' = [ask EXCEPT ![r] = NoAsk]

\* An exception: a check that fails, a row that is gone or taken by the time
\* of the write, or Postgres.
Throw(r) ==
    /\ at[r] # "idle" /\ Over(r)
    /\ UNCHANGED <<founder, role, invited, project>>

\* createOrganization looks for the slug, the other operations for the actor.
MayAct(a) ==
    CASE a.op = "create" -> founder = NoUser
      [] a.op = "setRole" -> role[a.actor] = "OWNER" /\ ~IsSelf(a)
      [] a.op = "remove" -> role[a.actor] # NoRole /\ (IsSelf(a) \/ role[a.actor] \in Managers)
      [] OTHER -> role[a.actor] \in Managers

CheckActor(r) == Pass(r, "sent", "allowed") /\ MayAct(ask[r])

\* Mutation: an owner is removed like anybody else.
TargetFits_AnyRole(a) ==
    CASE a.op = "invite" -> role[a.target] = NoRole
      [] a.op \in {"setRole", "remove"} -> role[a.target] # NoRole
      [] a.op = "project" -> ~project
      [] OTHER -> TRUE

\* The user who is invited is no member, the one whose role is changed is one,
\* and an owner is removed by nobody else; the slug of the project is free.
TargetFits(a) ==
    CASE a.op = "invite" -> role[a.target] = NoRole
      [] a.op = "setRole" -> role[a.target] # NoRole
      [] a.op = "remove" -> role[a.target] # NoRole /\ (role[a.target] = "OWNER" => IsSelf(a))
      [] a.op = "project" -> ~project
      [] OTHER -> TRUE

CheckTarget(r) == Pass(r, "allowed", "checked") /\ TargetFits(ask[r])

\* inviteMember counts the members.
CheckSeats(r) ==
    /\ Pass(r, "checked", "seated")
    /\ ask[r].op = "invite" /\ Cardinality(Members) < MaxSeats

-----------------------------------------------------------------------------
(***************************************************************************)
(* The transactions.  A slug is unique; the update and the delete name a   *)
(* row by user and organization and throw when there is none.              *)
(***************************************************************************)
Writes(r, op) == at[r] = (IF op = "invite" THEN "seated" ELSE "checked") /\ ask[r].op = op /\ Over(r)

CreateOrganization(r) ==
    /\ Writes(r, "create") /\ founder = NoUser
    /\ founder' = ask[r].actor /\ role' = [role EXCEPT ![ask[r].actor] = "OWNER"]
    /\ UNCHANGED <<invited, project>>

InviteMember(r) ==
    /\ Writes(r, "invite") /\ invited' = [invited EXCEPT ![ask[r].target] = ask[r].role]
    /\ UNCHANGED <<founder, role, project>>

\* Mutation: an upsert.
UpdateMemberRole_Upsert(r) ==
    /\ Writes(r, "setRole") /\ role' = [role EXCEPT ![ask[r].target] = ask[r].role]
    /\ UNCHANGED <<founder, invited, project>>

UpdateMemberRole(r) ==
    /\ Writes(r, "setRole") /\ role[ask[r].target] # NoRole
    /\ role' = [role EXCEPT ![ask[r].target] = ask[r].role]
    /\ UNCHANGED <<founder, invited, project>>

RemoveMember(r) ==
    /\ Writes(r, "remove") /\ role[ask[r].target] # NoRole
    /\ role' = [role EXCEPT ![ask[r].target] = NoRole]
    /\ UNCHANGED <<founder, invited, project>>

CreateProject(r) ==
    /\ Writes(r, "project") /\ ~project /\ project' = TRUE
    /\ UNCHANGED <<founder, role, invited>>

\* An invitation is accepted; nothing in the repository does that yet.
Accept(u) ==
    /\ invited[u] # NoRole /\ role[u] = NoRole
    /\ role' = [role EXCEPT ![u] = invited[u]] /\ invited' = [invited EXCEPT ![u] = NoRole]
    /\ UNCHANGED <<founder, project, ask, at>>

Request(r) ==
    \/ \E a \in Asks : Receive(r, a)
    \/ Throw(r) \/ CheckActor(r) \/ CheckTarget(r) \/ CheckSeats(r)
    \/ CreateOrganization(r) \/ InviteMember(r) \/ UpdateMemberRole(r)
    \/ RemoveMember(r) \/ CreateProject(r)

OrgNext == (\E r \in Requests : Request(r)) \/ (\E u \in Users : Accept(u))

OrgSpec == OrgInit /\ [][OrgNext]_orgVars

-----------------------------------------------------------------------------
(***************************************************************************)
(* What holds.                                                             *)
(***************************************************************************)
HasOwner == \E u \in Users : role[u] = "OWNER"

\* The checks of a request, on the rows as they are when it writes.
StillPermitted(r) == MayAct(ask[r]) /\ TargetFits(ask[r])

\* An organization loses its last owner only when that owner leaves, or to a
\* request whose checks were passed on rows that have changed since: one of
\* two owners who demote each other, or the removal of a member who was made
\* an owner meanwhile (updateMemberRole and removeMember).
LastOwnerGoes ==
    [][HasOwner /\ ~HasOwner' =>
          \E r \in Requests :
              /\ at[r] = "checked" /\ at'[r] = "idle"
              /\ \/ ask[r].op = "remove" /\ IsSelf(ask[r])
                 \/ ~StillPermitted(r)]_orgVars

\* Nobody becomes a member but by founding the organization while there is
\* none, or by an invitation: of two requests that create one slug one fails,
\* and a change of role that races a removal does not bring the member back.
MembersComeIn ==
    [][\A u \in Users : role[u] = NoRole /\ role'[u] # NoRole =>
          (founder = NoUser /\ founder' = u) \/ invited[u] = role'[u]]_orgVars
=============================================================================
