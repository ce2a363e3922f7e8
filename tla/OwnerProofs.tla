------------------------------ MODULE OwnerProofs ------------------------------
(***************************************************************************)
(* Proofs about what is kept of one owner: Organization, Customer, Daily   *)
(* and Subscription, for every set of users, requests, checkouts, calls    *)
(* and subscriptions, and every limit.                                     *)
(*                                                                         *)
(* Organization needs nothing but its types: what it promises is about a   *)
(* single step.  Customer rests on who may be creating a customer at the   *)
(* same time, Daily on the sizes of the sets of calls that a counter       *)
(* stands for, Subscription on the order in which events are over.         *)
(***************************************************************************)
EXTENDS Organization, Customer, Daily, Subscription, FiniteSetTheorems, TLAPS

(***************************************************************************)
(* Organization.                                                           *)
(***************************************************************************)
LEMMA AskOfRequest ==
    ASSUME OrgTypeOK, NEW r \in Requests, at[r] # "idle"
    PROVE  ask[r] \in Asks /\ ask[r].actor \in Users /\ ask[r].target \in Users /\ ask[r].role \in Roles
<1>1. ask[r] \in Asks
  BY DEF OrgTypeOK
<1> QED BY <1>1, OrganizationAssumption

LEMMA OrgInitTypes == OrgInit => OrgTypeOK
BY OrganizationAssumption DEF OrgInit, OrgTypeOK

\* A request that goes on or ends keeps the types of ask and at.
LEMMA OverKeepsTypes ==
    ASSUME OrgTypeOK, NEW r \in Requests, Over(r)
    PROVE  /\ ask' \in [Requests -> Asks \cup {NoAsk}]
           /\ at' \in [Requests -> {"idle", "sent", "allowed", "checked", "seated"}]
           /\ \A q \in Requests : (at'[q] = "idle") = (ask'[q] = NoAsk)
BY OrganizationAssumption DEF OrgTypeOK, Over

LEMMA PassKeepsTypes ==
    ASSUME OrgTypeOK, NEW r \in Requests, NEW to \in {"allowed", "checked", "seated"},
           NEW from \in {"sent", "allowed", "checked"}, Pass(r, from, to)
    PROVE  OrgTypeOK'
BY OrganizationAssumption DEF OrgTypeOK, Pass

LEMMA OrgStepTypes == OrgTypeOK /\ [OrgNext]_orgVars => OrgTypeOK'
<1> SUFFICES ASSUME OrgTypeOK, [OrgNext]_orgVars PROVE OrgTypeOK'
  OBVIOUS
<1>1. ASSUME NEW r \in Requests, Request(r) PROVE OrgTypeOK'
  <2>1. ASSUME NEW a \in Asks, Receive(r, a) PROVE OrgTypeOK'
    BY <2>1, OrganizationAssumption DEF Receive, OrgTypeOK
  <2>2. CASE Throw(r)
    BY <2>2, OverKeepsTypes DEF Throw, OrgTypeOK
  <2>3. CASE CheckActor(r)
    BY <2>3, PassKeepsTypes DEF CheckActor
  <2>4. CASE CheckTarget(r)
    BY <2>4, PassKeepsTypes DEF CheckTarget
  <2>5. CASE CheckSeats(r)
    BY <2>5, PassKeepsTypes DEF CheckSeats
  <2>6. CASE CreateOrganization(r)
    BY <2>6, OverKeepsTypes, AskOfRequest DEF CreateOrganization, Writes, OrgTypeOK, Roles
  <2>7. CASE InviteMember(r)
    BY <2>7, OverKeepsTypes, AskOfRequest DEF InviteMember, Writes, OrgTypeOK
  <2>8. CASE UpdateMemberRole(r)
    BY <2>8, OverKeepsTypes, AskOfRequest DEF UpdateMemberRole, Writes, OrgTypeOK
  <2>9. CASE RemoveMember(r)
    BY <2>9, OverKeepsTypes DEF RemoveMember, Writes, OrgTypeOK
  <2>10. CASE CreateProject(r)
    BY <2>10, OverKeepsTypes DEF CreateProject, Writes, OrgTypeOK
  <2> QED BY <1>1, <2>1, <2>2, <2>3, <2>4, <2>5, <2>6, <2>7, <2>8, <2>9, <2>10 DEF Request
<1>2. ASSUME NEW u \in Users, Accept(u) PROVE OrgTypeOK'
  BY <1>2 DEF Accept, OrgTypeOK
<1>3. CASE UNCHANGED orgVars
  BY <1>3 DEF orgVars, OrgTypeOK
<1> QED BY <1>1, <1>2, <1>3 DEF OrgNext

\* Every reachable state of Organization is well typed; a request that is not
\* idle is about something that may be asked.
THEOREM OrgTypeCorrect == OrgSpec => []OrgTypeOK
BY OrgInitTypes, OrgStepTypes, PTL DEF OrgSpec

\* The actor that MayAct finds for a change of role is an owner and is not
\* the one whose role is changed.
LEMMA OwnerStays ==
    ASSUME OrgTypeOK, NEW r \in Requests, UpdateMemberRole(r), StillPermitted(r)
    PROVE  HasOwner'
<1>1. ask[r].op = "setRole" /\ ask[r].actor \in Users /\ ask[r].target \in Users
  BY AskOfRequest DEF UpdateMemberRole, Writes
<1>2. role[ask[r].actor] = "OWNER" /\ ask[r].actor # ask[r].target
  BY <1>1 DEF StillPermitted, MayAct, IsSelf
<1>3. role'[ask[r].actor] = "OWNER"
  BY <1>1, <1>2 DEF UpdateMemberRole, OrgTypeOK
<1> QED BY <1>1, <1>3 DEF HasOwner

LEMMA OwnerRemoved ==
    ASSUME OrgTypeOK, NEW r \in Requests, RemoveMember(r), HasOwner, ~HasOwner', StillPermitted(r)
    PROVE  ask[r].op = "remove" /\ IsSelf(ask[r])
<1>1. ask[r].op = "remove" /\ ask[r].target \in Users
  BY AskOfRequest DEF RemoveMember, Writes
<1>2. PICK u \in Users : role[u] = "OWNER"
  BY DEF HasOwner
<1>3. u = ask[r].target
  BY <1>2 DEF RemoveMember, HasOwner, OrgTypeOK
<1> QED BY <1>1, <1>2, <1>3 DEF StillPermitted, TargetFits

LEMMA LastOwnerStep ==
    OrgTypeOK /\ [OrgNext]_orgVars =>
        (HasOwner /\ ~HasOwner' =>
            \E r \in Requests :
                /\ at[r] = "checked" /\ at'[r] = "idle"
                /\ (ask[r].op = "remove" /\ IsSelf(ask[r])) \/ ~StillPermitted(r))
<1> SUFFICES ASSUME OrgTypeOK, [OrgNext]_orgVars, HasOwner, ~HasOwner'
             PROVE  \E r \in Requests :
                       /\ at[r] = "checked" /\ at'[r] = "idle"
                       /\ (ask[r].op = "remove" /\ IsSelf(ask[r])) \/ ~StillPermitted(r)
  OBVIOUS
<1>1. role' # role
  BY DEF HasOwner
<1>2. ASSUME NEW u \in Users PROVE ~Accept(u)
  <2>1. SUFFICES ASSUME Accept(u) PROVE HasOwner'
    OBVIOUS
  <2> QED BY <2>1, OrganizationAssumption DEF Accept, HasOwner, OrgTypeOK, Roles
<1>3. ASSUME NEW r \in Requests PROVE ~CreateOrganization(r)
  <2>1. SUFFICES ASSUME CreateOrganization(r) PROVE HasOwner'
    OBVIOUS
  <2>2. ask[r].actor \in Users
    BY <2>1, AskOfRequest DEF CreateOrganization, Writes
  <2> QED BY <2>1, <2>2 DEF CreateOrganization, HasOwner, OrgTypeOK
<1>4. PICK r \in Requests : UpdateMemberRole(r) \/ RemoveMember(r)
  BY <1>1, <1>2, <1>3 DEF OrgNext, Request, orgVars, Receive, Throw, CheckActor, CheckTarget,
     CheckSeats, Pass, InviteMember, CreateProject
<1>5. at[r] = "checked" /\ at'[r] = "idle"
  BY <1>4 DEF UpdateMemberRole, RemoveMember, Writes, Over, OrgTypeOK
<1> QED BY <1>4, <1>5, OwnerStays, OwnerRemoved

\* The last owner goes only by leaving, or past a check on rows that have
\* changed since.
THEOREM LastOwnerGoesAlways == OrgSpec => LastOwnerGoes
<1>1. OrgTypeOK /\ [OrgNext]_orgVars =>
         [HasOwner /\ ~HasOwner' =>
             \E r \in Requests :
                 /\ at[r] = "checked" /\ at'[r] = "idle"
                 /\ \/ ask[r].op = "remove" /\ IsSelf(ask[r])
                    \/ ~StillPermitted(r)]_orgVars
  BY LastOwnerStep
<1> QED BY <1>1, OrgTypeCorrect, PTL DEF OrgSpec, LastOwnerGoes

LEMMA MembersStep ==
    ASSUME OrgTypeOK, [OrgNext]_orgVars, NEW u \in Users, role[u] = NoRole, role'[u] # NoRole
    PROVE  (founder = NoUser /\ founder' = u) \/ invited[u] = role'[u]
<1>1. ASSUME NEW v \in Users, Accept(v) PROVE invited[u] = role'[u]
  BY <1>1 DEF Accept, OrgTypeOK
<1>2. ASSUME NEW r \in Requests, CreateOrganization(r) PROVE founder = NoUser /\ founder' = u
  BY <1>2 DEF CreateOrganization, OrgTypeOK
<1>3. ASSUME NEW r \in Requests PROVE ~UpdateMemberRole(r) /\ ~RemoveMember(r)
  BY DEF UpdateMemberRole, RemoveMember, OrgTypeOK
<1>4. role' # role
  OBVIOUS
<1> QED BY <1>1, <1>2, <1>3, <1>4 DEF OrgNext, Request, orgVars, Receive, Throw, CheckActor,
     CheckTarget, CheckSeats, Pass, InviteMember, CreateProject

\* Nobody becomes a member but by founding the organization or by an invitation.
THEOREM MembersComeInAlways == OrgSpec => MembersComeIn
<1>1. OrgTypeOK /\ [OrgNext]_orgVars =>
         [\A u \in Users : role[u] = NoRole /\ role'[u] # NoRole =>
             (founder = NoUser /\ founder' = u) \/ invited[u] = role'[u]]_orgVars
  BY MembersStep
<1> QED BY <1>1, OrgTypeCorrect, PTL DEF OrgSpec, MembersComeIn

-----------------------------------------------------------------------------
(***************************************************************************)
(* Customer.                                                               *)
(*                                                                         *)
(* A customer is overwritten only by another that was being created at the *)
(* same time: checkouts that create at once are all in overlapped          *)
(* (CreatorsOverlap), and once a customer is saved those that are still    *)
(* creating one had met the checkout that saved it (SavedOverlaps).        *)
(***************************************************************************)
CreatorsOverlap == \A p, q \in Creating : p # q => p \in overlapped
SavedOverlaps == customer # NoCustomer /\ Creating # {} => customer \in overlapped

\* Only charges are disputed, and only disputes that Stripe has closed end.
DisputesAreCharged ==
    \A c \in Checkouts :
        /\ checkout[c] \in {"session", "open", "paid"} => charged[c] # NoCustomer
        /\ dispute[c] # "none" => checkout[c] = "paid"
        /\ handled[c] # {} => dispute[c] # "none"
        /\ "closed" \in handled[c] => dispute[c] \in {"won", "lost"}

CustomerInv ==
    /\ CustomerTypeOK /\ CreatorsOverlap /\ SavedOverlaps /\ DisputesAreCharged
    /\ OrphansOverlapped /\ LockHeld /\ LockExplained

LEMMA CustomerInitInv == CustomerInit => CustomerInv
BY CustomerAssumption DEF CustomerInit, CustomerInv, CustomerTypeOK, Customers, CheckoutState,
   CreatorsOverlap, SavedOverlaps, Creating, DisputesAreCharged, OrphansOverlapped, LockHeld,
   Holding, LockExplained

LEMMA CheckoutTypes ==
    ASSUME CustomerInv, NEW c \in Checkouts, Checkout(c) \/ Dispute(c)
    PROVE  CustomerTypeOK'
<1>1. CASE Checkout(c)
  BY <1>1 DEF CustomerInv, CustomerTypeOK, Checkout, Customers, CheckoutState, Creating, Begin, GetCustomer,
     CreateCustomer, SaveCustomer, OpenSession, CheckoutFails, Pay, Go, disputeVars
<1>2. CASE OpenDispute(c) \/ CloseDispute(c)
  BY <1>2 DEF CustomerInv, CustomerTypeOK, OpenDispute, CloseDispute, Disputed
<1>3. CASE DropEvent(c) \/ DisputeCreated(c) \/ DisputeClosed(c)
  <2>1. PICK event \in {"created", "closed"} : Handle(c, event)
    BY <1>3 DEF DropEvent, DisputeCreated, DisputeClosed
  <2>2. handled' \in [Checkouts -> SUBSET {"created", "closed"}]
    BY <2>1 DEF Handle, CustomerInv, CustomerTypeOK
  <2>3. locked' \in BOOLEAN /\ chargebacks' \subseteq Checkouts
        /\ released' \subseteq Checkouts /\ late' \subseteq Checkouts
    BY <1>3 DEF DropEvent, DisputeCreated, DisputeClosed, Holding, CustomerInv, CustomerTypeOK
  <2> QED BY <2>1, <2>2, <2>3 DEF Handle, CustomerInv, CustomerTypeOK
<1> QED BY <1>1, <1>2, <1>3 DEF Dispute

\* A step of a checkout leaves the disputes, and the customers of those, alone.
LEMMA CheckoutKeepsLock ==
    ASSUME CustomerInv, NEW c \in Checkouts, Checkout(c)
    PROVE  LockHeld' /\ LockExplained'
<1>1. /\ UNCHANGED disputeVars /\ overlapped \subseteq overlapped'
      /\ \A d \in Checkouts : checkout[d] = "paid" => charged'[d] = charged[d]
  BY DEF CustomerInv, CustomerTypeOK, Checkout, Begin, GetCustomer, CreateCustomer, SaveCustomer,
     OpenSession, CheckoutFails, Pay, Go, disputeVars
<1>2. \A d \in Checkouts : handled[d] # {} => charged'[d] = charged[d]
  BY <1>1 DEF CustomerInv, DisputesAreCharged
<1>3. Holding' = Holding
  BY <1>1 DEF Holding, disputeVars
<1> QED BY <1>1, <1>2, <1>3 DEF CustomerInv, LockHeld, LockExplained, Holding, disputeVars

LEMMA CheckoutKeepsCharges ==
    ASSUME CustomerInv, NEW c \in Checkouts, Checkout(c)
    PROVE  DisputesAreCharged'
BY CustomerAssumption DEF CustomerInv, CustomerTypeOK, DisputesAreCharged, Checkout, Customers, Begin, GetCustomer,
   CreateCustomer, SaveCustomer, OpenSession, CheckoutFails, Pay, Go, disputeVars

LEMMA CheckoutKeepsCustomers ==
    ASSUME CustomerInv, NEW c \in Checkouts, Checkout(c)
    PROVE  CreatorsOverlap' /\ SavedOverlaps' /\ OrphansOverlapped'
<1>1. CASE Begin(c) \/ CreateCustomer(c) \/ OpenSession(c) \/ CheckoutFails(c) \/ Pay(c)
  <2>1. UNCHANGED <<customer, charged, overlapped>>
    BY <1>1 DEF Begin, CreateCustomer, OpenSession, CheckoutFails, Pay
  <2>2. Creating' \subseteq Creating
    BY <1>1 DEF Begin, CreateCustomer, OpenSession, CheckoutFails, Pay, Go, Creating, CustomerInv, CustomerTypeOK
  <2> QED BY <2>1, <2>2 DEF CustomerInv, CreatorsOverlap, SavedOverlaps, OrphansOverlapped, OwnerFound
<1>2. CASE GetCustomer(c) /\ customer # NoCustomer
  <2>1. /\ UNCHANGED <<customer, overlapped>>
        /\ checkout' = [checkout EXCEPT ![c] = "session"] /\ charged' = [charged EXCEPT ![c] = customer]
    BY <1>2 DEF GetCustomer, Go
  <2>2. Creating' \subseteq Creating
    BY <2>1 DEF Creating, CustomerInv, CustomerTypeOK
  <2> QED BY <2>1, <2>2 DEF CustomerInv, CustomerTypeOK, CreatorsOverlap, SavedOverlaps, OrphansOverlapped, OwnerFound
<1>3. CASE GetCustomer(c) /\ customer = NoCustomer
  <2>1. /\ UNCHANGED <<customer, charged>> /\ checkout' = [checkout EXCEPT ![c] = "creating"]
        /\ overlapped' = IF Creating = {} THEN overlapped ELSE overlapped \cup Creating \cup {c}
    BY <1>3 DEF GetCustomer, Go
  <2>2. Creating' = Creating \cup {c} /\ overlapped \subseteq overlapped'
    BY <2>1 DEF Creating, CustomerInv, CustomerTypeOK
  <2> QED BY <1>3, <2>1, <2>2 DEF CustomerInv, CreatorsOverlap, SavedOverlaps, OrphansOverlapped, OwnerFound
<1>4. CASE SaveCustomer(c)
  <2>1. /\ UNCHANGED overlapped /\ customer' = c /\ charged' = [charged EXCEPT ![c] = c]
        /\ checkout[c] = "saving" /\ checkout' = [checkout EXCEPT ![c] = "session"]
    BY <1>4 DEF SaveCustomer, Go
  <2>2. Creating' = Creating \ {c} /\ c \in Creating
    BY <2>1 DEF Creating, CustomerInv, CustomerTypeOK
  <2>3. CreatorsOverlap' /\ SavedOverlaps'
    BY <2>1, <2>2 DEF CustomerInv, CreatorsOverlap, SavedOverlaps
  <2>4. customer # NoCustomer => customer \in overlapped
    BY <2>2 DEF CustomerInv, SavedOverlaps
  <2>5. OrphansOverlapped'
    BY <2>1, <2>4 DEF CustomerInv, CustomerTypeOK, OrphansOverlapped, OwnerFound
  <2> QED BY <2>3, <2>5
<1> QED BY <1>1, <1>2, <1>3, <1>4 DEF Checkout

LEMMA DisputeKeepsCustomers ==
    ASSUME CustomerInv, NEW c \in Checkouts, Dispute(c)
    PROVE  CreatorsOverlap' /\ SavedOverlaps' /\ OrphansOverlapped' /\ DisputesAreCharged'
<1>1. UNCHANGED <<customer, checkout, charged, overlapped>>
  BY DEF Dispute, OpenDispute, CloseDispute, Disputed, DropEvent, DisputeCreated, DisputeClosed, Handle
<1>2. DisputesAreCharged'
  BY DEF CustomerInv, CustomerTypeOK, DisputesAreCharged, Dispute, OpenDispute, CloseDispute, Disputed,
     DropEvent, DisputeCreated, DisputeClosed, Handle
<1> QED BY <1>1, <1>2 DEF CustomerInv, CreatorsOverlap, SavedOverlaps, Creating, OrphansOverlapped, OwnerFound

LEMMA DisputeKeepsLock ==
    ASSUME CustomerInv, NEW c \in Checkouts, Dispute(c)
    PROVE  LockHeld' /\ LockExplained'
<1>1. CASE OpenDispute(c) \/ CloseDispute(c)
  <2>1. /\ UNCHANGED <<locked, charged, handled, overlapped, released, late>>
        /\ dispute[c] \in {"none", "open"}
        /\ \A d \in Checkouts : d # c => dispute'[d] = dispute[d]
    BY <1>1 DEF OpenDispute, CloseDispute, Disputed, CustomerInv, CustomerTypeOK
  <2>2. Holding' = Holding /\ LockHeld'
    BY <2>1 DEF Holding, CustomerInv, LockHeld
  <2> QED BY <2>1, <2>2 DEF CustomerInv, LockExplained
<1>2. CASE DropEvent(c)
  <2>1. PICK event \in {"created", "closed"} :
           /\ dispute[c] # "none" /\ ~OwnerFound(c) /\ event \notin handled[c]
           /\ handled' = [handled EXCEPT ![c] = @ \cup {event}]
           /\ UNCHANGED <<locked, charged, dispute, overlapped, released, late>>
    BY <1>2 DEF DropEvent, Handle
  <2>2. charged[c] \in overlapped
    BY <2>1 DEF CustomerInv, DisputesAreCharged, OrphansOverlapped
  <2>3. \A d \in Checkouts : d # c => handled'[d] = handled[d]
    BY <2>1 DEF CustomerInv, CustomerTypeOK
  <2>4. handled'[c] = handled[c] \cup {event}
    BY <2>1 DEF CustomerInv, CustomerTypeOK
  <2>5. LockHeld'
    BY <2>1, <2>2, <2>3 DEF CustomerInv, LockHeld, Holding
  <2>6. LockExplained'
    <3>1. SUFFICES ASSUME locked PROVE LockExplained'
      BY <2>1 DEF LockExplained
    <3>2. PICK d \in Checkouts :
             /\ "created" \in handled[d]
             /\ d \in Holding \/ dispute[d] = "lost" \/ d \in late \/ charged[d] \in overlapped
      BY <3>1 DEF CustomerInv, LockExplained
    <3>3. "created" \in handled'[d]
      BY <2>3, <2>4, <3>2
    <3>4. d \in Holding' \/ dispute'[d] = "lost" \/ d \in late' \/ charged'[d] \in overlapped'
      BY <2>1, <2>2, <2>3, <3>2 DEF Holding
    <3> QED BY <3>3, <3>4 DEF LockExplained
  <2> QED BY <2>5, <2>6
<1>3. CASE DisputeCreated(c)
  <2>1. /\ locked' = TRUE /\ handled'[c] = handled[c] \cup {"created"}
        /\ late' = IF "closed" \in handled[c] THEN late \cup {c} ELSE late
    BY <1>3 DEF DisputeCreated, Handle, CustomerInv, CustomerTypeOK
  <2>2. c \in Holding' \/ c \in late'
    BY <2>1 DEF Holding
  <2> QED BY <2>1, <2>2 DEF LockHeld, LockExplained
<1>4. CASE DisputeClosed(c)
  <2>1. /\ handled' = [handled EXCEPT ![c] = @ \cup {"closed"}]
        /\ UNCHANGED <<charged, dispute, overlapped, late>>
    BY <1>4 DEF DisputeClosed, Handle
  <2>2. Holding' = Holding \ {c}
    BY <2>1 DEF Holding, CustomerInv, CustomerTypeOK
  <2>3. CASE dispute[c] = "won"
    <3>1. locked' = FALSE /\ released' = released \cup (Holding \ {c})
      BY <1>4, <2>3 DEF DisputeClosed
    <3> QED BY <2>2, <3>1 DEF LockHeld, LockExplained
  <2>4. CASE dispute[c] = "lost"
    <3>1. UNCHANGED <<locked, released>>
      BY <1>4, <2>4 DEF DisputeClosed
    <3>2. \A d \in Checkouts : "created" \in handled[d] => "created" \in handled'[d]
      BY <2>1 DEF CustomerInv, CustomerTypeOK
    <3>3. LockExplained'
      BY <2>1, <2>2, <2>4, <3>1, <3>2 DEF CustomerInv, LockExplained
    <3> QED BY <2>1, <2>2, <3>1, <3>3 DEF CustomerInv, LockHeld
  <2> QED BY <1>4, <2>3, <2>4 DEF DisputeClosed
<1> QED BY <1>1, <1>2, <1>3, <1>4 DEF Dispute

LEMMA CustomerStepInv == CustomerInv /\ [CustomerNext]_customerVars => CustomerInv'
<1> SUFFICES ASSUME CustomerInv, [CustomerNext]_customerVars PROVE CustomerInv'
  OBVIOUS
<1>1. ASSUME NEW c \in Checkouts, Checkout(c) PROVE CustomerInv'
  BY <1>1, CheckoutTypes, CheckoutKeepsLock, CheckoutKeepsCharges, CheckoutKeepsCustomers DEF CustomerInv
<1>2. ASSUME NEW c \in Checkouts, Dispute(c) PROVE CustomerInv'
  BY <1>2, CheckoutTypes, DisputeKeepsCustomers, DisputeKeepsLock DEF CustomerInv
<1>3. CASE UNCHANGED customerVars
  BY <1>3 DEF customerVars, CustomerInv, CustomerTypeOK, CreatorsOverlap, SavedOverlaps, Creating,
     DisputesAreCharged, OrphansOverlapped, OwnerFound, LockHeld, Holding, LockExplained
<1> QED BY <1>1, <1>2, <1>3 DEF CustomerNext

\* The inductive invariant of checkouts, customers and disputes.
THEOREM CustomerInvariant == CustomerSpec => []CustomerInv
BY CustomerInitInv, CustomerStepInv, PTL DEF CustomerSpec

\* A charge whose customer is not the owner's had its customer created while
\* another was being created.
THEOREM OrphansOverlappedAlways == CustomerSpec => []OrphansOverlapped
<1>1. CustomerInv => OrphansOverlapped
  BY DEF CustomerInv
<1> QED BY <1>1, CustomerInvariant, PTL

\* The lock follows the disputes, whatever the order of their events.
THEOREM LockFollowsDisputesAlways == CustomerSpec => []LockFollowsDisputes
<1>1. CustomerInv => LockFollowsDisputes
  BY DEF CustomerInv, LockFollowsDisputes
<1> QED BY <1>1, CustomerInvariant, PTL

-----------------------------------------------------------------------------
(***************************************************************************)
(* Daily.                                                                  *)
(*                                                                         *)
(* Until its key expires a counter is the size of a set of calls: those    *)
(* that hold a place of that day, less, for refunds, those that were taken *)
(* back from it although they hold a place of another day.  A script adds  *)
(* one call to the set and one to the counter, a rollback the reverse.     *)
(***************************************************************************)
LEMMA SpendSizes ==
    /\ \A S \in SUBSET Spends : IsFiniteSet(S) /\ Cardinality(S) \in Nat
    /\ \A S \in SUBSET Spends, c \in Spends :
          Cardinality(S \cup {c}) = IF c \in S THEN Cardinality(S) ELSE Cardinality(S) + 1
    /\ \A S \in SUBSET Spends, c \in Spends :
          Cardinality(S \ {c}) = IF c \in S THEN Cardinality(S) - 1 ELSE Cardinality(S)
<1>1. \A S \in SUBSET Spends : IsFiniteSet(S)
  BY DailyAssumption, FS_Subset
<1>2. \A S \in SUBSET Spends : Cardinality(S) \in Nat
  BY <1>1, FS_CardinalityType
<1>3. \A S \in SUBSET Spends, c \in Spends :
         Cardinality(S \cup {c}) = IF c \in S THEN Cardinality(S) ELSE Cardinality(S) + 1
  BY <1>1, FS_AddElement
<1>4. \A S \in SUBSET Spends, c \in Spends :
         Cardinality(S \ {c}) = IF c \in S THEN Cardinality(S) - 1 ELSE Cardinality(S)
  BY <1>1, FS_RemoveElement
<1> QED BY <1>1, <1>2, <1>3, <1>4

\* The calls in onTime have run a script; a refund that holds a place and is
\* not among them ran it after its key had expired; a call is misplaced when
\* it has been undone on another day.
PlacesInv ==
    /\ \A c \in Spends :
          /\ spend[c] \in {"arrived", "pricing", "paid", "broken", "refunding", "kept"} => c \notin onTime
          /\ spend[c] \in {"recording", "refunded", "undoing", "decreasing", "stuck"} =>
                c \in onTime \/ <<"refund", date[c]>> \in expired
    /\ \A c \in Spends, d \in Dates : <<c, d>> \in misplaced => spend[c] = "undone" /\ date[c] # d

DailyInv == DailyTypeOK /\ PlacesInv /\ AllowanceKept /\ RefundCapKept

LEMMA PlacesAreCalls ==
    ASSUME DailyInv, NEW d \in Dates
    PROVE  /\ FreeOn(d) \in SUBSET Spends /\ SlotsOn(d) \in SUBSET Spends /\ TakenFrom(d) \in SUBSET Spends
           /\ Cardinality(FreeOn(d)) \in Nat /\ Cardinality(SlotsOn(d)) \in Nat
           /\ Cardinality(TakenFrom(d)) \in Nat
<1>1. FreeOn(d) \in SUBSET Spends /\ SlotsOn(d) \in SUBSET Spends /\ TakenFrom(d) \in SUBSET Spends
  BY DEF DailyInv, DailyTypeOK, FreeOn, SlotsOn, TakenFrom
<1> QED BY <1>1, SpendSizes

LEMMA DailyInitInv == DailyInit => DailyInv
<1> SUFFICES ASSUME DailyInit PROVE DailyInv
  OBVIOUS
<1>1. DailyTypeOK
  BY DailyAssumption DEF DailyInit, DailyTypeOK, Dates, SpendState
<1>2. PlacesInv
  BY DEF DailyInit, PlacesInv
<1>3. \A d \in Dates : FreeOn(d) = {} /\ SlotsOn(d) = {} /\ TakenFrom(d) = {}
  BY DEF DailyInit, FreeOn, SlotsOn, TakenFrom
<1>4. \A d \in Dates :
         /\ Cardinality(FreeOn(d)) = 0 /\ Cardinality(SlotsOn(d)) = 0 /\ Cardinality(TakenFrom(d)) = 0
         /\ allowUsed[d] = 0 /\ refundCount[d] = 0
  BY <1>3, FS_EmptySet DEF DailyInit
<1>5. AllowanceKept /\ RefundCapKept
  BY <1>4, DailyAssumption DEF AllowanceKept, RefundCapKept
<1> QED BY <1>1, <1>2, <1>5 DEF DailyInv

LEMMA DailyTypes == DailyInv /\ DailyNext => DailyTypeOK'
<1> SUFFICES ASSUME DailyInv, DailyNext PROVE DailyTypeOK'
  OBVIOUS
<1>1. ASSUME NEW c \in Spends, Spend(c) PROVE DailyTypeOK'
  <2>1. CASE NameAllowance(c) \/ ChargeByDay(c) \/ BreaksEarly(c) \/ NameRefund(c)
    BY <2>1 DEF DailyInv, DailyTypeOK, NameAllowance, ChargeByDay, BreaksEarly, NameRefund, Move, SpendState, dayVars
  <2>2. CASE RefundByDay(c)
    <3>1. date[c] \in Dates /\ UNCHANGED <<dayVars, allowUsed, date, undoDate, misplaced>>
      BY <2>2 DEF RefundByDay, DailyInv, DailyTypeOK
    <3>2. refundCount' \in [Dates -> Int] /\ perishing' \subseteq Dates /\ onTime' \subseteq Spends
      BY <2>2, <3>1 DEF RefundByDay, DailyInv, DailyTypeOK
    <3>3. spend' \in [Spends -> SpendState]
      BY <2>2 DEF RefundByDay, Move, SpendState, DailyInv, DailyTypeOK
    <3> QED BY <3>1, <3>2, <3>3 DEF DailyInv, DailyTypeOK, dayVars
  <2>3. CASE RecordByDay(c) \/ NameRollback(c) \/ RollbackRefundFails(c)
    BY <2>3 DEF DailyInv, DailyTypeOK, RecordByDay, NameRollback, RollbackRefundFails, Move, SpendState, dayVars
  <2>4. CASE RollbackRefund(c)
    BY <2>4 DEF DailyInv, DailyTypeOK, RollbackRefund, Move, SpendState, dayVars
  <2> QED BY <1>1, <2>1, <2>2, <2>3, <2>4 DEF Spend
<1>2. CASE Midnight
  <2>1. today' \in Dates
    BY <1>2, DailyAssumption DEF Midnight, DailyInv, DailyTypeOK, Dates
  <2> QED BY <1>2, <2>1 DEF Midnight, DailyInv, DailyTypeOK
<1>3. ASSUME NEW d \in Dates, AllowanceExpires(d) \/ RefundsExpire(d) PROVE DailyTypeOK'
  BY <1>3 DEF AllowanceExpires, RefundsExpire, DailyInv, DailyTypeOK
<1> QED BY <1>1, <1>2, <1>3 DEF DailyNext

LEMMA DailyPlaces == DailyInv /\ DailyNext => PlacesInv'
<1> SUFFICES ASSUME DailyInv, DailyNext PROVE PlacesInv'
  OBVIOUS
<1>1. ASSUME NEW c \in Spends, Spend(c) PROVE PlacesInv'
  <2>1. CASE NameAllowance(c) \/ BreaksEarly(c) \/ NameRefund(c)
    BY <2>1 DEF DailyInv, DailyTypeOK, PlacesInv, NameAllowance, BreaksEarly, NameRefund, Move, dayVars
  <2>5. CASE ChargeByDay(c)
    BY <2>5 DEF DailyInv, DailyTypeOK, PlacesInv, ChargeByDay, Move, dayVars
  <2>2. CASE RefundByDay(c)
    BY <2>2 DEF DailyInv, DailyTypeOK, PlacesInv, RefundByDay, Move, dayVars
  <2>3. CASE RecordByDay(c) \/ NameRollback(c) \/ RollbackRefundFails(c)
    BY <2>3 DEF DailyInv, DailyTypeOK, PlacesInv, RecordByDay, NameRollback, RollbackRefundFails, Move, dayVars
  <2>4. CASE RollbackRefund(c)
    BY <2>4 DEF DailyInv, DailyTypeOK, PlacesInv, RollbackRefund, Move, dayVars
  <2> QED BY <1>1, <2>1, <2>2, <2>3, <2>4, <2>5 DEF Spend
<1>2. CASE Midnight \/ \E d \in Dates : AllowanceExpires(d) \/ RefundsExpire(d)
  BY <1>2 DEF Midnight, AllowanceExpires, RefundsExpire, DailyInv, PlacesInv
<1> QED BY <1>1, <1>2 DEF DailyNext

-----------------------------------------------------------------------------
(***************************************************************************)
(* The allowance.                                                          *)
(***************************************************************************)
LEMMA SameFree ==
    ASSUME DailyInv, expired \subseteq expired',
           \A d \in Dates : FreeOn(d)' = FreeOn(d),
           \A d \in Dates : <<"allowance", d>> \notin expired' => allowUsed'[d] = allowUsed[d]
    PROVE  AllowanceKept'
BY DEF DailyInv, AllowanceKept

LEMMA ChargeKeepsAllowance ==
    ASSUME DailyInv, NEW c \in Spends, ChargeByDay(c)
    PROVE  AllowanceKept'
<1>1. /\ spend[c] = "pricing" /\ c \notin onTime /\ date[c] \in Dates /\ UNCHANGED <<date, expired>>
      /\ allowUsed \in [Dates -> Nat] /\ spend \in [Spends -> SpendState] /\ onTime \subseteq Spends
  BY DEF ChargeByDay, Move, DailyInv, DailyTypeOK, PlacesInv, dayVars
<1>2. CASE ~InAllowance(c)
  <2>1. UNCHANGED <<allowUsed, onTime>> /\ spend' = [spend EXCEPT ![c] = "paid"]
    BY <1>2 DEF ChargeByDay, Move
  <2>2. \A d \in Dates : FreeOn(d)' = FreeOn(d)
    BY <1>1, <2>1 DEF FreeOn
  <2> QED BY <1>1, <2>1, <2>2, SameFree
<1>3. CASE InAllowance(c) /\ <<"allowance", date[c]>> \in expired
  <2>1. /\ UNCHANGED onTime /\ spend' = [spend EXCEPT ![c] = "free"]
        /\ allowUsed' = [allowUsed EXCEPT ![date[c]] = @ + 1]
    BY <1>3 DEF ChargeByDay, Move
  <2>2. \A d \in Dates : FreeOn(d)' = FreeOn(d)
    BY <1>1, <2>1 DEF FreeOn
  <2> QED BY <1>1, <1>3, <2>1, <2>2, SameFree
<1>4. CASE InAllowance(c) /\ <<"allowance", date[c]>> \notin expired
  <2>1. /\ onTime' = onTime \cup {c} /\ spend' = [spend EXCEPT ![c] = "free"]
        /\ allowUsed' = [allowUsed EXCEPT ![date[c]] = @ + 1]
    BY <1>4 DEF ChargeByDay, Move
  <2>2. \A d \in Dates : FreeOn(d)' = IF d = date[c] THEN FreeOn(d) \cup {c} ELSE FreeOn(d)
    BY <1>1, <2>1 DEF FreeOn
  <2>3. c \notin FreeOn(date[c])
    BY <1>1 DEF FreeOn
  <2>4. Cardinality(FreeOn(date[c]) \cup {c}) = Cardinality(FreeOn(date[c])) + 1
    BY <1>1, <2>3, PlacesAreCalls, SpendSizes
  <2>5. Cardinality(FreeOn(date[c])) = allowUsed[date[c]] /\ allowUsed[date[c]] < DailyAllowance
    BY <1>1, <1>4 DEF InAllowance, DailyInv, AllowanceKept
  <2>6. ASSUME NEW d \in Dates
        PROVE  /\ Cardinality(FreeOn(d)') <= DailyAllowance
               /\ <<"allowance", d>> \notin expired => allowUsed'[d] = Cardinality(FreeOn(d)')
    <3>1. CASE d = date[c]
      <4>1. FreeOn(d)' = FreeOn(date[c]) \cup {c} /\ allowUsed'[d] = allowUsed[date[c]] + 1
        BY <1>1, <2>1, <2>2, <3>1
      <4> QED BY <1>1, <2>4, <2>5, <4>1, DailyAssumption
    <3>2. CASE d # date[c]
      BY <1>1, <2>1, <2>2, <3>2 DEF DailyInv, AllowanceKept
    <3> QED BY <3>1, <3>2
  <2> QED BY <1>1, <2>6 DEF AllowanceKept
<1> QED BY <1>2, <1>3, <1>4

LEMMA DailyAllowanceStep == DailyInv /\ DailyNext => AllowanceKept'
<1> SUFFICES ASSUME DailyInv, DailyNext PROVE AllowanceKept'
  OBVIOUS
<1>1. ASSUME NEW c \in Spends, Spend(c), ~ChargeByDay(c) PROVE AllowanceKept'
  <2>1. /\ UNCHANGED <<allowUsed, expired>> /\ spend[c] # "free" /\ spend'[c] # "free"
        /\ \A d \in Spends : d # c => spend'[d] = spend[d] /\ date'[d] = date[d]
        /\ onTime' \in {onTime, onTime \cup {c}}
    BY <1>1 DEF Spend, NameAllowance, BreaksEarly, NameRefund, RefundByDay, RecordByDay, NameRollback,
       RollbackRefund, RollbackRefundFails, Move, dayVars, DailyInv, DailyTypeOK
  <2>2. \A d \in Dates : FreeOn(d)' = FreeOn(d)
    BY <2>1 DEF FreeOn, DailyInv, DailyTypeOK
  <2> QED BY <2>1, <2>2, SameFree
<1>2. CASE Midnight \/ \E d \in Dates : AllowanceExpires(d) \/ RefundsExpire(d)
  <2>1. UNCHANGED <<spend, date, onTime>> /\ expired \subseteq expired'
    BY <1>2 DEF Midnight, AllowanceExpires, RefundsExpire
  <2>2. \A d \in Dates : FreeOn(d)' = FreeOn(d)
    BY <2>1 DEF FreeOn
  <2>3. \A d \in Dates : <<"allowance", d>> \notin expired' => allowUsed'[d] = allowUsed[d]
    BY <1>2 DEF Midnight, AllowanceExpires, RefundsExpire, DailyInv, DailyTypeOK
  <2> QED BY <2>1, <2>2, <2>3, SameFree
<1> QED BY <1>1, <1>2, ChargeKeepsAllowance DEF DailyNext

-----------------------------------------------------------------------------
(***************************************************************************)
(* The cap of refunds.                                                     *)
(***************************************************************************)
LEMMA SameSlots ==
    ASSUME DailyInv, expired \subseteq expired',
           \A d \in Dates : SlotsOn(d)' = SlotsOn(d) /\ TakenFrom(d)' = TakenFrom(d),
           \A d \in Dates : <<"refund", d>> \notin expired' => refundCount'[d] = refundCount[d]
    PROVE  RefundCapKept'
BY DEF DailyInv, RefundCapKept

\* The states in which a call that is not undone holds a place.
Holds == {"recording", "refunded", "undoing", "decreasing", "stuck"}

LEMMA SlotOfCall ==
    ASSUME DailyInv, NEW c \in Spends, spend[c] # "undone"
    PROVE  HoldsSlot(c) <=> spend[c] \in Holds
BY DEF DailyInv, PlacesInv, HoldsSlot, Holds

LEMMA OtherSpendsKeepSlots ==
    ASSUME DailyInv, DailyTypeOK', NEW c \in Spends, Spend(c), ~RefundByDay(c), ~RollbackRefund(c)
    PROVE  RefundCapKept'
<1>1. /\ UNCHANGED <<misplaced, refundCount, expired>>
      /\ \A d \in Spends : d # c => spend'[d] = spend[d] /\ date'[d] = date[d]
      /\ spend[c] # "undone" /\ spend'[c] # "undone"
      /\ spend[c] \in Holds <=> spend'[c] \in Holds
      /\ spend[c] \in Holds => date'[c] = date[c]
      /\ onTime' = onTime \/ (onTime' = onTime \cup {c} /\ spend'[c] \notin Holds)
  BY DEF Spend, NameAllowance, ChargeByDay, BreaksEarly, NameRefund, RecordByDay, NameRollback,
     RollbackRefundFails, Move, dayVars, DailyInv, DailyTypeOK, Holds
<1>2. \A e \in Spends : HoldsSlot(e)' <=> HoldsSlot(e)
  BY <1>1 DEF HoldsSlot, Holds
<1>3. c \in onTime => HoldsSlot(c) \/ spend[c] = "free"
  BY <1>1, SlotOfCall DEF DailyInv, PlacesInv, DailyTypeOK, SpendState, Holds
<1>4. spend[c] # "free"
  BY DEF Spend, NameAllowance, ChargeByDay, BreaksEarly, NameRefund, RecordByDay, NameRollback,
     RollbackRefundFails, RefundByDay, RollbackRefund, Move
<1>5. HoldsSlot(c) <=> spend[c] \in Holds
  BY <1>1, SlotOfCall
<1>6. \A d \in Dates : SlotsOn(d)' = SlotsOn(d) /\ TakenFrom(d)' = TakenFrom(d)
  BY <1>1, <1>2, <1>3, <1>4, <1>5 DEF SlotsOn, TakenFrom, DailyInv, DailyTypeOK
<1> QED BY <1>1, <1>6, SameSlots

LEMMA RefundKeepsCap ==
    ASSUME DailyInv, NEW c \in Spends, RefundByDay(c)
    PROVE  RefundCapKept'
<1>1. /\ spend[c] = "refunding" /\ c \notin onTime /\ date[c] \in Dates
      /\ UNCHANGED <<date, expired, misplaced>> /\ refundCount \in [Dates -> Int]
      /\ spend \in [Spends -> SpendState] /\ onTime \subseteq Spends
  BY DEF RefundByDay, Move, DailyInv, DailyTypeOK, PlacesInv, dayVars
<1>2. \A d \in Dates : TakenFrom(d)' = TakenFrom(d)
  BY <1>1 DEF TakenFrom
<1>3. \A e \in Spends : e # c => (HoldsSlot(e)' <=> HoldsSlot(e))
  BY <1>1 DEF HoldsSlot, RefundByDay, Move
<1>4. CASE refundCount[date[c]] >= DailyRefundCap
  <2>1. UNCHANGED <<refundCount, onTime>>
    BY <1>1, <1>4, DailyAssumption DEF RefundByDay
  <2>2. \A d \in Dates : SlotsOn(d)' = SlotsOn(d)
    BY <1>1, <1>3, <2>1 DEF SlotsOn
  <2> QED BY <1>1, <1>2, <2>1, <2>2, SameSlots
<1>5. CASE refundCount[date[c]] < DailyRefundCap
  <2>1. /\ spend' = [spend EXCEPT ![c] = "recording"]
        /\ refundCount' = [refundCount EXCEPT ![date[c]] = @ + 1]
        /\ onTime' = IF <<"refund", date[c]>> \in expired THEN onTime ELSE onTime \cup {c}
    BY <1>1, <1>5, DailyAssumption DEF RefundByDay, Move
  <2>2. HoldsSlot(c)'
    BY <1>1, <2>1 DEF HoldsSlot
  <2>3. CASE <<"refund", date[c]>> \in expired
    <3>1. \A d \in Dates : SlotsOn(d)' = SlotsOn(d)
      BY <1>1, <1>3, <2>1, <2>3 DEF SlotsOn
    <3> QED BY <1>1, <1>2, <2>1, <2>3, <3>1, SameSlots
  <2>4. CASE <<"refund", date[c]>> \notin expired
    <3>1. \A d \in Dates : SlotsOn(d)' = IF d = date[c] THEN SlotsOn(d) \cup {c} ELSE SlotsOn(d)
      BY <1>1, <1>3, <2>1, <2>2, <2>4 DEF SlotsOn
    <3>2. c \notin SlotsOn(date[c])
      BY <1>1 DEF SlotsOn
    <3>3. Cardinality(SlotsOn(date[c]) \cup {c}) = Cardinality(SlotsOn(date[c])) + 1
      BY <1>1, <3>2, PlacesAreCalls, SpendSizes
    <3>4. refundCount[date[c]] = Cardinality(SlotsOn(date[c])) - Cardinality(TakenFrom(date[c]))
      BY <1>1, <2>4 DEF DailyInv, RefundCapKept
    <3>5. ASSUME NEW d \in Dates
          PROVE  /\ Cardinality(SlotsOn(d)') <= DailyRefundCap + Cardinality(TakenFrom(d))
                 /\ <<"refund", d>> \notin expired =>
                       refundCount'[d] = Cardinality(SlotsOn(d)') - Cardinality(TakenFrom(d))
      <4>1. CASE d = date[c]
        <5>1. Cardinality(SlotsOn(d)') = Cardinality(SlotsOn(d)) + 1 /\ refundCount'[d] = refundCount[d] + 1
          BY <1>1, <2>1, <3>1, <3>3, <4>1
        <5>2. Cardinality(SlotsOn(d)) \in Nat /\ Cardinality(TakenFrom(d)) \in Nat
          BY PlacesAreCalls
        <5> QED BY <1>5, <3>4, <4>1, <5>1, <5>2, DailyAssumption
      <4>2. CASE d # date[c]
        BY <1>1, <2>1, <3>1, <4>2 DEF DailyInv, RefundCapKept
      <4> QED BY <4>1, <4>2
    <3> QED BY <1>1, <1>2, <3>5 DEF RefundCapKept
  <2> QED BY <2>3, <2>4
<1> QED BY <1>1, <1>4, <1>5, DailyAssumption

LEMMA RollbackKeepsCap ==
    ASSUME DailyInv, NEW c \in Spends, RollbackRefund(c)
    PROVE  RefundCapKept'
<1> DEFINE day == undoDate[c]
<1>1. /\ spend[c] = "decreasing" /\ day \in Dates /\ date[c] \in Dates
      /\ UNCHANGED <<date, expired, onTime>> /\ refundCount \in [Dates -> Int]
      /\ spend \in [Spends -> SpendState] /\ onTime \subseteq Spends
      /\ spend' = [spend EXCEPT ![c] = "undone"]
      /\ refundCount' = [refundCount EXCEPT ![day] = @ - 1]
      /\ misplaced' = IF date[c] = day THEN misplaced ELSE misplaced \cup {<<c, day>>}
  BY DEF RollbackRefund, Move, DailyInv, DailyTypeOK, dayVars
<1>2. \A d \in Dates : <<c, d>> \notin misplaced
  BY <1>1 DEF DailyInv, PlacesInv
<1>3. \A e \in Spends : e # c => (HoldsSlot(e)' <=> HoldsSlot(e))
  BY <1>1 DEF HoldsSlot
<1>4. HoldsSlot(c)
  BY <1>1 DEF HoldsSlot
<1>5. \A d \in Dates : refundCount'[d] = IF d = day THEN refundCount[d] - 1 ELSE refundCount[d]
  BY <1>1
<1>6. CASE date[c] = day
  <2>1. ~HoldsSlot(c)' /\ \A d \in Dates : TakenFrom(d)' = TakenFrom(d)
    BY <1>1, <1>2, <1>6 DEF HoldsSlot, TakenFrom
  <2>2. \A d \in Dates : SlotsOn(d)' = IF d = day THEN SlotsOn(d) \ {c} ELSE SlotsOn(d)
    BY <1>1, <1>3, <1>6, <2>1 DEF SlotsOn
  <2>3. <<"refund", day>> \notin expired => c \in SlotsOn(day)
    BY <1>1, <1>4, <1>6 DEF SlotsOn, DailyInv, PlacesInv
  <2>4. ASSUME NEW d \in Dates
        PROVE  /\ Cardinality(SlotsOn(d)') <= DailyRefundCap + Cardinality(TakenFrom(d))
               /\ <<"refund", d>> \notin expired =>
                     refundCount'[d] = Cardinality(SlotsOn(d)') - Cardinality(TakenFrom(d))
    <3>1. /\ Cardinality(SlotsOn(d)) \in Nat /\ Cardinality(TakenFrom(d)) \in Nat
          /\ Cardinality(SlotsOn(d)) <= DailyRefundCap + Cardinality(TakenFrom(d))
          /\ <<"refund", d>> \notin expired =>
                refundCount[d] = Cardinality(SlotsOn(d)) - Cardinality(TakenFrom(d))
      BY PlacesAreCalls DEF DailyInv, RefundCapKept
    <3>2. CASE d = day
      <4>1. Cardinality(SlotsOn(d)') = IF c \in SlotsOn(d) THEN Cardinality(SlotsOn(d)) - 1 ELSE Cardinality(SlotsOn(d))
        BY <2>2, <3>2, PlacesAreCalls, SpendSizes
      <4> QED BY <1>5, <2>3, <3>1, <3>2, <4>1, DailyAssumption
    <3>3. CASE d # day
      BY <1>5, <2>2, <3>1, <3>3
    <3> QED BY <3>2, <3>3
  <2> QED BY <1>1, <2>1, <2>4 DEF RefundCapKept
<1>7. CASE date[c] # day
  <2>1. HoldsSlot(c)' /\ \A d \in Dates : TakenFrom(d)' = IF d = day THEN TakenFrom(d) \cup {c} ELSE TakenFrom(d)
    BY <1>1, <1>7 DEF HoldsSlot, TakenFrom
  <2>2. \A d \in Dates : SlotsOn(d)' = SlotsOn(d)
    BY <1>1, <1>3, <1>4, <2>1 DEF SlotsOn
  <2>3. Cardinality(TakenFrom(day) \cup {c}) = Cardinality(TakenFrom(day)) + 1
    <3>1. c \notin TakenFrom(day)
      BY <1>1, <1>2 DEF TakenFrom
    <3> QED BY <1>1, <3>1, PlacesAreCalls, SpendSizes
  <2>4. ASSUME NEW d \in Dates
        PROVE  /\ Cardinality(SlotsOn(d)) <= DailyRefundCap + Cardinality(TakenFrom(d)')
               /\ <<"refund", d>> \notin expired =>
                     refundCount'[d] = Cardinality(SlotsOn(d)) - Cardinality(TakenFrom(d)')
    <3>1. /\ Cardinality(SlotsOn(d)) \in Nat /\ Cardinality(TakenFrom(d)) \in Nat
          /\ Cardinality(SlotsOn(d)) <= DailyRefundCap + Cardinality(TakenFrom(d))
          /\ <<"refund", d>> \notin expired =>
                refundCount[d] = Cardinality(SlotsOn(d)) - Cardinality(TakenFrom(d))
      BY PlacesAreCalls DEF DailyInv, RefundCapKept
    <3>2. CASE d = day
      <4>1. Cardinality(TakenFrom(d)') = Cardinality(TakenFrom(d)) + 1
        BY <2>1, <2>3, <3>2
      <4> QED BY <1>5, <3>1, <3>2, <4>1, DailyAssumption
    <3>3. CASE d # day
      BY <1>5, <2>1, <3>1, <3>3
    <3> QED BY <3>2, <3>3
  <2> QED BY <1>1, <2>2, <2>4 DEF RefundCapKept
<1> QED BY <1>6, <1>7

LEMMA DailyCapStep == DailyInv /\ DailyNext => RefundCapKept'
<1> SUFFICES ASSUME DailyInv, DailyNext PROVE RefundCapKept'
  OBVIOUS
<1>1. ASSUME NEW c \in Spends, Spend(c) PROVE RefundCapKept'
  BY <1>1, DailyTypes, OtherSpendsKeepSlots, RefundKeepsCap, RollbackKeepsCap
<1>2. CASE Midnight \/ \E d \in Dates : AllowanceExpires(d) \/ RefundsExpire(d)
  <2>1. UNCHANGED <<spend, date, onTime, misplaced>> /\ expired \subseteq expired'
    BY <1>2 DEF Midnight, AllowanceExpires, RefundsExpire
  <2>2. \A d \in Dates : SlotsOn(d)' = SlotsOn(d) /\ TakenFrom(d)' = TakenFrom(d)
    BY <2>1 DEF SlotsOn, TakenFrom, HoldsSlot
  <2>3. \A d \in Dates : <<"refund", d>> \notin expired' => refundCount'[d] = refundCount[d]
    BY <1>2 DEF Midnight, AllowanceExpires, RefundsExpire, DailyInv, DailyTypeOK
  <2> QED BY <2>1, <2>2, <2>3, SameSlots
<1> QED BY <1>1, <1>2 DEF DailyNext

LEMMA DailyStepInv == DailyInv /\ [DailyNext]_dailyVars => DailyInv'
<1>1. DailyInv /\ DailyNext => DailyInv'
  BY DailyTypes, DailyPlaces, DailyAllowanceStep, DailyCapStep DEF DailyInv
<1>2. ASSUME DailyInv, UNCHANGED dailyVars PROVE DailyInv'
  <2>1. DailyTypeOK'
    BY <1>2 DEF dailyVars, DailyInv, DailyTypeOK
  <2>2. PlacesInv'
    BY <1>2 DEF dailyVars, DailyInv, PlacesInv
  <2>3. AllowanceKept'
    BY <1>2 DEF dailyVars, DailyInv, AllowanceKept, FreeOn
  <2>4. \A c \in Spends : HoldsSlot(c)' <=> HoldsSlot(c)
    BY <1>2 DEF dailyVars, HoldsSlot
  <2>5. \A d \in Dates : SlotsOn(d)' = SlotsOn(d) /\ TakenFrom(d)' = TakenFrom(d)
    BY <1>2, <2>4 DEF dailyVars, SlotsOn, TakenFrom, DailyInv, DailyTypeOK
  <2>6. RefundCapKept'
    BY <1>2, <2>5 DEF dailyVars, DailyInv, RefundCapKept
  <2> QED BY <2>1, <2>2, <2>3, <2>6 DEF DailyInv
<1> QED BY <1>1, <1>2

\* The inductive invariant of the counters of a day.
THEOREM DailyInvariant == DailySpec => []DailyInv
BY DailyInitInv, DailyStepInv, PTL DEF DailySpec

\* A day lets no more calls through than its allowance, whatever the delays.
THEOREM AllowanceKeptAlways == DailySpec => []AllowanceKept
<1>1. DailyInv => AllowanceKept
  BY DEF DailyInv
<1> QED BY <1>1, DailyInvariant, PTL

\* A day gives back no more charges than the cap, and one more for each
\* rollback that another day's refund took from its counter.
THEOREM RefundCapKeptAlways == DailySpec => []RefundCapKept
<1>1. DailyInv => RefundCapKept
  BY DEF DailyInv
<1> QED BY <1>1, DailyInvariant, PTL

-----------------------------------------------------------------------------
(***************************************************************************)
(* Subscription.                                                           *)
(*                                                                         *)
(* Two arguments.  An event is in one place, the queue or one hand, so it  *)
(* is over only once.  And as long as no event of a subscription was       *)
(* missed, those that are over are the oldest: the status of the row is    *)
(* what the last of them says, or the next one if an attempt failed after  *)
(* its update, and at the end the last event says what Stripe says.        *)
(***************************************************************************)
\* Each event is in the queue once or in one hand; a handler that has found
\* the row has an event.
OnePlace ==
    /\ \A k, l \in 1 .. Len(queue) : queue[k] = queue[l] => k = l
    /\ \A v, w \in Workers : hand[v] = hand[w] /\ hand[v] # 0 => v = w
    /\ \A w \in Workers, k \in 1 .. Len(queue) : queue[k] # hand[w]
    /\ \A w \in Workers : found[w] => hand[w] # 0

\* The row that a handler has found is the row of its event.
RowFound == \A w \in Workers : found[w] /\ ~crossed => InHandOf(w).sub = row.sub

\* The events of a subscription without a missed one are over oldest first.
InOrder ==
    \A i, j \in 1 .. Len(events) :
        /\ i < j /\ events[i].sub = events[j].sub /\ events[i].sub \notin missed
        /\ i \in pending
        => j \in pending

\* Event i wrote the row: all older events of its subscription are over, all
\* younger ones are not.
Wrote(i) ==
    /\ events[i].sub = row.sub /\ row.status = Meaning(events[i])
    /\ \A j \in 1 .. Len(events) :
          events[j].sub = row.sub /\ j # i => (j \in pending <=> i < j)

RowWritten ==
    row.sub # NoSub /\ row.sub \notin missed /\ ~crossed => \E i \in 1 .. Len(events) : Wrote(i)

\* The last event of a subscription means the status it has at Stripe.
Youngest(i) == \A j \in 1 .. Len(events) : i < j => events[j].sub # events[i].sub
LastSays ==
    \A i \in 1 .. Len(events) : Youngest(i) => Meaning(events[i]) = MapStatus(truth[events[i].sub])

SubPlaced == TypeOK /\ OnePlace
SubInv == SubPlaced /\ RowFound /\ ReplacedHasNoSay
OrderInv == InOrder /\ RowWritten /\ LastSays

LEMMA SubInit == Init => SubInv /\ OrderInv
<1> SUFFICES ASSUME Init PROVE SubInv /\ OrderInv
  OBVIOUS
<1>1. events = <<>> /\ Len(events) = 0 /\ queue = <<>> /\ Len(queue) = 0 /\ pending = {}
  BY DEF Init
<1>2. TypeOK
  <2>1. events \in Seq(Event) /\ queue \in Seq(pending) /\ pending \subseteq 1 .. Len(events)
    BY <1>1
  <2>2. tries \in [Number -> 0 .. Attempts]
    BY SubscriptionAssumption DEF Init
  <2>3. truth \in [Subs -> Truth] /\ row \in [sub : Subs \cup {NoSub}, status : Status]
    BY DEF Init, Truth, Status
  <2>4. /\ Len(events) <= MaxEvents /\ by \in Subs \cup {NoSub} /\ missed \subseteq Subs
    BY <1>1, SubscriptionAssumption DEF Init
  <2>5. /\ hand \in [Workers -> pending \cup {0}] /\ found \in [Workers -> BOOLEAN]
        /\ crossed \in BOOLEAN
    BY DEF Init
  <2> QED BY <2>1, <2>2, <2>3, <2>4, <2>5 DEF TypeOK
<1>3. OnePlace /\ RowFound /\ ReplacedHasNoSay
  BY <1>1 DEF Init, OnePlace, RowFound, ReplacedHasNoSay
<1>4. OrderInv
  BY <1>1 DEF Init, OrderInv, InOrder, RowWritten, LastSays
<1> QED BY <1>2, <1>3, <1>4 DEF SubInv, SubPlaced

\* A sequence may do with the elements it has.
LEMMA Thinner ==
    ASSUME NEW S, NEW T, NEW q \in Seq(S), \A k \in 1 .. Len(q) : q[k] \in T
    PROVE  q \in Seq(T)
  OBVIOUS

LEMMA QueueGrows ==
    ASSUME NEW S, NEW q \in Seq(S), NEW i \in S
    PROVE  /\ Append(q, i) \in Seq(S) /\ Len(q) \in Nat /\ Len(Append(q, i)) = Len(q) + 1
           /\ \A k \in 1 .. Len(q) + 1 : Append(q, i)[k] = IF k <= Len(q) THEN q[k] ELSE i
  OBVIOUS

LEMMA QueueShrinks ==
    ASSUME NEW S, NEW q \in Seq(S), q # <<>>
    PROVE  /\ Tail(q) \in Seq(S) /\ Len(Tail(q)) = Len(q) - 1 /\ Len(q) \in Nat \ {0}
           /\ \A k \in 1 .. Len(q) - 1 : Tail(q)[k] = q[k + 1]
           /\ Head(q) = q[1] /\ Head(q) \in S
  OBVIOUS

LEMMA Joined ==
    ASSUME NEW S, NEW s \in Seq(S), NEW t \in Seq(S)
    PROVE  /\ s \o t \in Seq(S) /\ Len(s \o t) = Len(s) + Len(t) /\ Len(s) \in Nat /\ Len(t) \in Nat
           /\ \A i \in 1 .. Len(s) : (s \o t)[i] = s[i]
           /\ \A i \in Len(s) + 1 .. Len(s) + Len(t) : (s \o t)[i] = t[i - Len(s)]
  OBVIOUS

LEMMA LastJoined ==
    ASSUME NEW S, NEW s \in Seq(S), NEW t \in Seq(S), t # <<>>
    PROVE  (s \o t)[Len(s \o t)] = t[Len(t)]
<1>1. Len(t) \in Nat \ {0} /\ Len(s) \in Nat
  OBVIOUS
<1>2. Len(s \o t) = Len(s) + Len(t) /\ (s \o t)[Len(s) + Len(t)] = t[(Len(s) + Len(t)) - Len(s)]
  BY <1>1
<1>3. (Len(s) + Len(t)) - Len(s) = Len(t)
  BY <1>1
<1> QED BY <1>2, <1>3

\* The parts of TypeOK and OnePlace that speak of jobs, after a step that
\* leaves the events alone.
LEMMA PutDown ==
    ASSUME SubPlaced, NEW w \in Workers, hand[w] # 0, Lay(w), UNCHANGED events
    PROVE  /\ hand[w] \in pending /\ hand[w] \in 1 .. Len(events) /\ hand[w] \in Number
           /\ hand' \in [Workers -> (pending \ {hand[w]}) \cup {0}] /\ found' \in [Workers -> BOOLEAN]
           /\ hand'[w] = 0 /\ ~found'[w]
           /\ \A v \in Workers : v # w => hand'[v] = hand[v] /\ found'[v] = found[v]
           /\ \A v \in Workers : hand'[v] # hand[w]
           /\ \A k \in 1 .. Len(queue) : queue[k] # hand[w]
<1>1. hand[w] \in pending /\ hand[w] \in 1 .. Len(events) /\ Len(events) \in Nat /\ 0 \notin pending
  <2>1. events \in Seq(Event) /\ hand \in [Workers -> pending \cup {0}]
    BY DEF SubPlaced, TypeOK
  <2>2. Len(events) \in Nat
    BY <2>1
  <2>3. hand[w] \in pending
    BY <2>1
  <2>4. pending \subseteq 1 .. Len(events)
    BY DEF SubPlaced, TypeOK
  <2>5. 0 \notin pending
    BY <2>2, <2>4
  <2>6. hand[w] \in 1 .. Len(events)
    BY <2>2, <2>3, <2>4
  <2> QED BY <2>2, <2>3, <2>5, <2>6
<1>2. hand' = [hand EXCEPT ![w] = 0] /\ found' = [found EXCEPT ![w] = FALSE]
  BY DEF Lay
<1>3. hand \in [Workers -> pending \cup {0}] /\ found \in [Workers -> BOOLEAN]
  BY DEF SubPlaced, TypeOK
<1>4. \A v \in Workers : v # w => hand[v] # hand[w]
  BY DEF SubPlaced, OnePlace
<1>5. \A v \in Workers : hand'[v] # hand[w] /\ hand'[v] \in pending \cup {0}
  BY <1>1, <1>2, <1>3, <1>4
<1>6. hand' = [v \in Workers |-> hand'[v]]
  BY <1>2, <1>3
<1>7. hand' \in [Workers -> (pending \ {hand[w]}) \cup {0}]
  BY <1>5, <1>6
<1>8. hand[w] \in Number
  BY <1>1, SubscriptionAssumption DEF SubPlaced, TypeOK, Number
<1>9. found' \in [Workers -> BOOLEAN]
  BY <1>2, <1>3
<1>10. \A k \in 1 .. Len(queue) : queue[k] # hand[w]
  BY DEF SubPlaced, OnePlace
<1>11. /\ hand'[w] = 0 /\ ~found'[w]
       /\ \A v \in Workers : v # w => hand'[v] = hand[v] /\ found'[v] = found[v]
  BY <1>2, <1>3
<1> QED BY <1>1, <1>5, <1>7, <1>8, <1>9, <1>10, <1>11

JobsTyped ==
    /\ pending \subseteq 1 .. Len(events) /\ queue \in Seq(pending)
    /\ tries \in [Number -> 0 .. Attempts]
    /\ hand \in [Workers -> pending \cup {0}] /\ found \in [Workers -> BOOLEAN]

LEMMA DoneKeeps ==
    ASSUME SubPlaced, NEW w \in Workers, hand[w] # 0, Done(w), UNCHANGED events
    PROVE  JobsTyped' /\ OnePlace'
<1>1. Lay(w) /\ pending' = pending \ {hand[w]} /\ queue' = queue /\ tries' = tries
  BY DEF Done
<1>2. \A k \in 1 .. Len(queue) : queue[k] \in pending /\ queue[k] # hand[w]
  BY <1>1, PutDown DEF SubPlaced, TypeOK
<1>3. queue' \in Seq(pending')
  BY <1>1, <1>2, Thinner DEF SubPlaced, TypeOK
<1>4. JobsTyped'
  BY <1>1, <1>3, PutDown DEF SubPlaced, TypeOK, JobsTyped
<1>5. OnePlace'
  <2>1. Len(queue) \in Nat /\ \A k \in 1 .. Len(queue) : queue[k] # 0
    BY DEF SubPlaced, TypeOK
  <2> QED BY <1>1, <2>1, PutDown DEF SubPlaced, OnePlace
<1> QED BY <1>4, <1>5

LEMMA AgainKeeps ==
    ASSUME SubPlaced, NEW w \in Workers, hand[w] # 0, Again(w), UNCHANGED events
    PROVE  JobsTyped' /\ OnePlace' /\ pending' = pending
<1>1. /\ Lay(w) /\ pending' = pending /\ queue' = Append(queue, hand[w])
      /\ tries[hand[w]] + 1 < Attempts /\ tries' = [tries EXCEPT ![hand[w]] = @ + 1]
  BY DEF Again
<1>2. hand[w] \in pending /\ hand[w] \in Number /\ queue \in Seq(pending)
  BY <1>1, PutDown DEF SubPlaced, TypeOK
<1>3. /\ queue' \in Seq(pending') /\ Len(queue') = Len(queue) + 1 /\ Len(queue) \in Nat
      /\ \A k \in 1 .. Len(queue) + 1 : queue'[k] = IF k <= Len(queue) THEN queue[k] ELSE hand[w]
  BY <1>1, <1>2, QueueGrows
<1>4. tries' \in [Number -> 0 .. Attempts]
  <2>1. tries[hand[w]] \in 0 .. Attempts /\ Attempts \in Nat /\ tries \in [Number -> 0 .. Attempts]
    BY <1>2, SubscriptionAssumption DEF SubPlaced, TypeOK
  <2>2. tries[hand[w]] + 1 \in 0 .. Attempts
    BY <1>1, <2>1
  <2> QED BY <1>1, <1>2, <2>1, <2>2
<1>5. hand' \in [Workers -> pending' \cup {0}]
  <2>1. hand' \in [Workers -> (pending \ {hand[w]}) \cup {0}]
    BY <1>1, PutDown
  <2> QED BY <1>1, <2>1
<1>6. JobsTyped'
  BY <1>1, <1>3, <1>4, <1>5, PutDown DEF SubPlaced, TypeOK, JobsTyped
<1>7. /\ \A k, l \in 1 .. Len(queue') : queue'[k] = queue'[l] => k = l
  <2>1. \A k \in 1 .. Len(queue) : queue[k] # hand[w]
    BY <1>1, PutDown
  <2>2. \A k, l \in 1 .. Len(queue) : queue[k] = queue[l] => k = l
    BY DEF SubPlaced, OnePlace
  <2> QED BY <1>3, <2>1, <2>2
<1>8. \A v \in Workers, k \in 1 .. Len(queue') : queue'[k] # hand'[v]
  <2>1. \A v \in Workers : hand'[v] # hand[w] /\ (hand'[v] = hand[v] \/ hand'[v] = 0)
    BY <1>1, PutDown
  <2>2. \A k \in 1 .. Len(queue) : queue[k] # 0 /\ \A v \in Workers : queue[k] # hand[v]
    BY DEF SubPlaced, OnePlace, TypeOK
  <2> QED BY <1>3, <2>1, <2>2
<1>9. /\ \A u, v \in Workers : hand'[u] = hand'[v] /\ hand'[u] # 0 => u = v
      /\ \A v \in Workers : found'[v] => hand'[v] # 0
  BY <1>1, PutDown DEF SubPlaced, OnePlace
<1> QED BY <1>1, <1>6, <1>7, <1>8, <1>9 DEF OnePlace

\* What Stripe reports of a change is about that subscription, and the last
\* of it means the new status.
LEMMA ReportSays ==
    ASSUME NEW s \in Subs, NEW st \in Truth \ {"none"}
    PROVE  /\ Report(s, st) \in Seq(Event) /\ Len(Report(s, st)) \in {1, 2}
           /\ \A i \in 1 .. Len(Report(s, st)) : Report(s, st)[i].sub = s
           /\ Meaning(Report(s, st)[Len(Report(s, st))]) = MapStatus(st)
<1> DEFINE E(kind) == [kind |-> kind, sub |-> s, status |-> st]
<1>1. \A k \in {"checkout", "paid", "failed", "updated", "deleted"} :
          /\ E(k) \in Event /\ E(k).sub = s
          /\ k = "checkout" => Meaning(E(k)) = "ACTIVE"
          /\ k = "updated" => Meaning(E(k)) = MapStatus(st)
          /\ k = "deleted" => Meaning(E(k)) = "CANCELED"
  BY DEF Event, Meaning
<1>2. \/ Report(s, st) = <<E("checkout")>> /\ st = "active"
      \/ Report(s, st) = <<E("paid"), E("updated")>>
      \/ Report(s, st) = <<E("failed"), E("updated")>>
      \/ Report(s, st) = <<E("updated")>>
      \/ Report(s, st) = <<E("deleted")>> /\ st = "canceled"
  BY DEF Report, Truth
<1>3. MapStatus("active") = "ACTIVE" /\ MapStatus("canceled") = "CANCELED"
  BY DEF MapStatus
<1> HIDE DEF E
<1>4. \A a \in Event, b \in Event :
          /\ <<a>> \in Seq(Event) /\ Len(<<a>>) = 1 /\ <<a>>[1] = a
          /\ <<a, b>> \in Seq(Event) /\ Len(<<a, b>>) = 2 /\ <<a, b>>[1] = a /\ <<a, b>>[2] = b
  OBVIOUS
<1>5. CASE Report(s, st) = <<E("checkout")>> /\ st = "active"
  BY <1>1, <1>3, <1>4, <1>5
<1>6. CASE Report(s, st) = <<E("paid"), E("updated")>>
  BY <1>1, <1>4, <1>6
<1>7. CASE Report(s, st) = <<E("failed"), E("updated")>>
  BY <1>1, <1>4, <1>7
<1>8. CASE Report(s, st) = <<E("updated")>>
  BY <1>1, <1>4, <1>8
<1>9. CASE Report(s, st) = <<E("deleted")>> /\ st = "canceled"
  BY <1>1, <1>3, <1>4, <1>9
<1> QED BY <1>2, <1>5, <1>6, <1>7, <1>8, <1>9

LEMMA ChangeEffect ==
    ASSUME TypeOK, NEW s \in Subs, NEW st \in Truth \ {"none"}, Change(s, st)
    PROVE  /\ events' \in Seq(Event) /\ Len(events) \in Nat /\ Len(events') \in Nat
           /\ Len(events) < Len(events') /\ Len(events') <= MaxEvents
           /\ \A i \in 1 .. Len(events) : events'[i] = events[i]
           /\ \A i \in Len(events) + 1 .. Len(events') : events'[i].sub = s
           /\ Meaning(events'[Len(events')]) = MapStatus(st)
           /\ pending' = pending \cup (Len(events) + 1 .. Len(events'))
<1> DEFINE R == Report(s, st)
<1>1. /\ R \in Seq(Event) /\ Len(R) \in {1, 2} /\ \A i \in 1 .. Len(R) : R[i].sub = s
      /\ Meaning(R[Len(R)]) = MapStatus(st)
  BY ReportSays
<1>2. /\ events' = events \o R /\ Len(events) + Len(R) <= MaxEvents
      /\ pending' = pending \cup {i \in Number : Len(events) < i /\ i <= Len(events')}
  BY DEF Change
<1>3. events \in Seq(Event)
  BY DEF TypeOK
<1> HIDE DEF R
<1>4. /\ events' \in Seq(Event) /\ Len(events') = Len(events) + Len(R)
      /\ Len(events) \in Nat /\ Len(R) \in Nat
      /\ \A i \in 1 .. Len(events) : events'[i] = events[i]
      /\ \A i \in Len(events) + 1 .. Len(events) + Len(R) : events'[i] = R[i - Len(events)]
  BY <1>1, <1>2, <1>3, Joined
<1>5. \A i \in Len(events) + 1 .. Len(events') : events'[i].sub = s
  <2>1. \A i \in Len(events) + 1 .. Len(events) + Len(R) : i - Len(events) \in 1 .. Len(R)
    BY <1>4
  <2> QED BY <1>1, <1>4, <2>1
<1>6. \A n \in Nat, m \in {1, 2} :
         n < n + m /\ n + m \in Nat /\ n + m \in n + 1 .. n + m /\ (n + m) - n = m
  OBVIOUS
<1>7. events'[Len(events')] = R[Len(R)]
  <2>1. R # <<>>
    BY <1>1
  <2> QED BY <1>1, <1>2, <1>3, <2>1, LastJoined
<1>8. Len(events) < Len(events') /\ Len(events') <= MaxEvents /\ Len(events') \in Nat
  BY <1>1, <1>2, <1>4, <1>6
<1>9. {i \in Number : Len(events) < i /\ i <= Len(events')} = Len(events) + 1 .. Len(events')
  BY <1>4, <1>8, SubscriptionAssumption DEF Number
<1> QED BY <1>1, <1>2, <1>4, <1>5, <1>6, <1>7, <1>8, <1>9

RowTyped ==
    /\ row \in [sub : Subs \cup {NoSub}, status : Status]
    /\ by \in Subs \cup {NoSub} /\ missed \subseteq Subs /\ crossed \in BOOLEAN
StripeTyped == truth \in [Subs -> Truth] /\ events \in Seq(Event) /\ Len(events) <= MaxEvents

LEMMA TypeParts == TypeOK <=> StripeTyped /\ JobsTyped /\ RowTyped
  BY DEF TypeOK, StripeTyped, JobsTyped, RowTyped

LEMMA ChangeKeeps ==
    ASSUME SubPlaced, NEW s \in Subs, NEW st \in Truth \ {"none"}, Change(s, st)
    PROVE  SubPlaced'
<1>1. /\ TypeOK /\ truth' = [truth EXCEPT ![s] = st]
      /\ UNCHANGED <<queue, tries, hand, found, row, by, missed, crossed>>
  BY DEF SubPlaced, Change, rowVars
<1>2. StripeTyped'
  BY <1>1, ChangeEffect DEF TypeOK, StripeTyped
<1>3. pending \subseteq pending' /\ pending' \subseteq 1 .. Len(events')
  <2>1. /\ Len(events) \in Nat /\ Len(events') \in Nat /\ Len(events) < Len(events')
        /\ pending' = pending \cup (Len(events) + 1 .. Len(events'))
    BY <1>1, ChangeEffect
  <2>2. pending \subseteq 1 .. Len(events)
    BY <1>1 DEF TypeOK
  <2>3. 1 .. Len(events) \subseteq 1 .. Len(events') /\ Len(events) + 1 .. Len(events') \subseteq 1 .. Len(events')
    BY <2>1
  <2> QED BY <2>1, <2>2, <2>3
<1>4. queue' \in Seq(pending')
  <2>1. queue \in Seq(pending)
    BY <1>1 DEF TypeOK
  <2>2. \A k \in 1 .. Len(queue) : queue[k] \in pending
    BY <2>1
  <2> QED BY <1>1, <1>3, <2>1, <2>2, Thinner
<1>5. JobsTyped'
  BY <1>1, <1>3, <1>4 DEF TypeOK, JobsTyped
<1>6. RowTyped' /\ OnePlace'
  BY <1>1 DEF SubPlaced, OnePlace, TypeOK, RowTyped
<1> QED BY <1>2, <1>5, <1>6, TypeParts DEF SubPlaced, TypeOK, StripeTyped, JobsTyped, RowTyped

LEMMA DeliverKeeps == ASSUME SubPlaced, NEW i \in Number, Deliver(i) PROVE SubPlaced'
<1>1. /\ i \in pending /\ (\A w \in Workers : hand[w] # i) /\ (\A k \in 1 .. Len(queue) : queue[k] # i)
      /\ queue' = Append(queue, i)
      /\ UNCHANGED <<truth, events, pending, tries, hand, found, row, by, missed, crossed>>
  BY DEF Deliver, InHand, Queued, rowVars
<1>2. queue \in Seq(pending) /\ TypeOK
  BY DEF SubPlaced, TypeOK
<1>3. /\ queue' \in Seq(pending') /\ Len(queue') = Len(queue) + 1 /\ Len(queue) \in Nat
      /\ \A k \in 1 .. Len(queue) + 1 : queue'[k] = IF k <= Len(queue) THEN queue[k] ELSE i
  BY <1>1, <1>2, QueueGrows
<1>4. TypeOK'
  BY <1>1, <1>2, <1>3 DEF TypeOK
<1>5. OnePlace'
  BY <1>1, <1>3 DEF SubPlaced, OnePlace
<1> QED BY <1>4, <1>5 DEF SubPlaced

LEMMA TakeKeeps == ASSUME SubPlaced, NEW w \in Workers, Take(w) PROVE SubPlaced'
<1>1. /\ hand[w] = 0 /\ queue # <<>> /\ hand' = [hand EXCEPT ![w] = Head(queue)] /\ queue' = Tail(queue)
      /\ UNCHANGED <<truth, events, pending, tries, found, row, by, missed, crossed>>
  BY DEF Take, rowVars
<1>2. queue \in Seq(pending) /\ hand \in [Workers -> pending \cup {0}]
  BY DEF SubPlaced, TypeOK
<1>3. /\ queue' \in Seq(pending') /\ Len(queue') = Len(queue) - 1 /\ Len(queue) \in Nat \ {0}
      /\ \A k \in 1 .. Len(queue) - 1 : queue'[k] = queue[k + 1]
      /\ Head(queue) = queue[1] /\ Head(queue) \in pending
  BY <1>1, <1>2, QueueShrinks
<1>4. hand' \in [Workers -> pending' \cup {0}]
  BY <1>1, <1>2, <1>3
<1>5. /\ hand'[w] = queue[1] /\ hand'[w] # 0
      /\ \A v \in Workers : v # w => hand'[v] = hand[v]
  <2>1. 0 \notin pending
    BY DEF SubPlaced, TypeOK
  <2> QED BY <1>1, <1>2, <1>3, <2>1
<1>6. TypeOK'
  BY <1>1, <1>3, <1>4 DEF SubPlaced, TypeOK
<1>7. /\ \A k, l \in 1 .. Len(queue') : queue'[k] = queue'[l] => k = l
      /\ \A k \in 1 .. Len(queue') : queue'[k] # queue[1]
  <2>1. \A k, l \in 1 .. Len(queue) : queue[k] = queue[l] => k = l
    BY DEF SubPlaced, OnePlace
  <2>2. \A k \in 1 .. Len(queue') :
           /\ k \in Nat /\ k + 1 \in 1 .. Len(queue) /\ 1 \in 1 .. Len(queue) /\ k + 1 # 1
           /\ queue'[k] = queue[k + 1]
    BY <1>3
  <2>3. \A k \in 1 .. Len(queue') : queue'[k] # queue[1]
    BY <2>1, <2>2
  <2>4. \A k, l \in 1 .. Len(queue') : queue'[k] = queue'[l] => k + 1 = l + 1 /\ k \in Nat /\ l \in Nat
    BY <2>1, <2>2
  <2>5. \A k, l \in Nat : k + 1 = l + 1 => k = l
    OBVIOUS
  <2> QED BY <2>3, <2>4, <2>5
<1>8. \A v \in Workers, k \in 1 .. Len(queue') : queue'[k] # hand'[v]
  <2>1. \A v \in Workers, k \in 1 .. Len(queue) : queue[k] # hand[v]
    BY DEF SubPlaced, OnePlace
  <2>2. \A k \in 1 .. Len(queue') : k + 1 \in 1 .. Len(queue) /\ queue'[k] = queue[k + 1]
    BY <1>3
  <2> QED BY <1>5, <1>7, <2>1, <2>2
<1>9. \A u, v \in Workers : hand'[u] = hand'[v] /\ hand'[u] # 0 => u = v
  <2>1. \A v \in Workers : hand[v] # queue[1]
    BY <1>3 DEF SubPlaced, OnePlace
  <2>2. \A u, v \in Workers : hand[u] = hand[v] /\ hand[u] # 0 => u = v
    BY DEF SubPlaced, OnePlace
  <2> QED BY <1>5, <2>1, <2>2
<1>10. \A v \in Workers : found'[v] => hand'[v] # 0
  BY <1>1, <1>5 DEF SubPlaced, OnePlace
<1> QED BY <1>6, <1>7, <1>8, <1>9, <1>10 DEF SubPlaced, OnePlace

\* A handler that ends its attempt, well or badly.
LEMMA EndKeeps ==
    ASSUME SubPlaced, NEW w \in Workers, hand[w] # 0, Done(w) \/ Again(w), UNCHANGED <<truth, events>>
    PROVE  /\ StripeTyped' /\ JobsTyped' /\ OnePlace'
           /\ hand[w] \in pending /\ hand[w] \in 1 .. Len(events) /\ InHandOf(w) \in Event
           /\ pending' \in {pending, pending \ {hand[w]}} /\ ~found'[w]
           /\ \A v \in Workers : v # w => InHandOf(v)' = InHandOf(v) /\ found'[v] = found[v]
<1>1. Lay(w)
  BY DEF Done, Again
<1>2. /\ hand[w] \in pending /\ hand[w] \in 1 .. Len(events) /\ ~found'[w]
      /\ \A v \in Workers : v # w => hand'[v] = hand[v] /\ found'[v] = found[v]
  BY <1>1, PutDown
<1>3. StripeTyped'
  BY DEF SubPlaced, TypeOK, StripeTyped
<1>4. JobsTyped' /\ OnePlace' /\ pending' \in {pending, pending \ {hand[w]}}
  BY DoneKeeps, AgainKeeps DEF Done
<1>5. events[hand[w]] \in Event
  <2>1. events \in Seq(Event)
    BY DEF SubPlaced, TypeOK
  <2> QED BY <1>2, <2>1
<1>6. \A v \in Workers : v # w => InHandOf(v)' = InHandOf(v)
  BY <1>2 DEF InHandOf
<1> QED BY <1>2, <1>3, <1>4, <1>5, <1>6 DEF InHandOf

\* What an event means is a status.
LEMMA MeaningTyped == \A e \in Event : Meaning(e) \in Status /\ e.sub \in Subs
  BY DEF Meaning, MapStatus, Status, Event

LEMMA OrderedTypes ==
    ASSUME NEW w \in Workers, Ordered(w), missed \subseteq Subs, InHandOf(w).sub \in Subs
    PROVE  missed' \subseteq Subs /\ missed \subseteq missed'
  BY DEF Ordered

LEMMA CheckoutKeeps == ASSUME SubInv, NEW w \in Workers, CheckoutCompleted(w) PROVE SubInv'
<1> DEFINE s == InHandOf(w).sub
<1>1. /\ hand[w] # 0 /\ row' = [sub |-> s, status |-> "ACTIVE"] /\ by' = s
      /\ crossed' = (crossed \/ \E v \in Workers : found[v] /\ InHandOf(v).sub # s)
      /\ Done(w) \/ Again(w)
      /\ Ordered(w) /\ UNCHANGED <<truth, events>>
  BY DEF CheckoutCompleted
<1>2. SubPlaced /\ RowFound /\ missed \subseteq Subs
  BY DEF SubInv, SubPlaced, TypeOK
<1>3. /\ StripeTyped' /\ JobsTyped' /\ OnePlace' /\ InHandOf(w) \in Event /\ ~found'[w]
      /\ \A v \in Workers : v # w => InHandOf(v)' = InHandOf(v) /\ found'[v] = found[v]
  BY <1>1, <1>2, EndKeeps
<1>4. s \in Subs
  BY <1>3, MeaningTyped
<1>5. RowTyped'
  BY <1>1, <1>2, <1>4, OrderedTypes DEF RowTyped, Status
<1>6. row'.sub = s
  BY <1>1
<1>7. RowFound'
  BY <1>1, <1>3, <1>6 DEF RowFound
<1>8. ReplacedHasNoSay'
  BY <1>1, <1>6 DEF ReplacedHasNoSay
<1>9. TypeOK'
  BY <1>3, <1>5 DEF TypeOK, StripeTyped, JobsTyped, RowTyped
<1> QED BY <1>3, <1>7, <1>8, <1>9 DEF SubInv, SubPlaced

LEMMA UpdateKeeps == ASSUME SubInv, NEW w \in Workers, Update(w) PROVE SubInv'
<1>1. /\ found[w] /\ row' = [row EXCEPT !.status = Meaning(InHandOf(w))] /\ by' = InHandOf(w).sub
      /\ Done(w) \/ Again(w)
      /\ Ordered(w) /\ UNCHANGED <<truth, events, crossed>>
  BY DEF Update
<1>2. /\ SubPlaced /\ RowFound /\ missed \subseteq Subs /\ row \in [sub : Subs \cup {NoSub}, status : Status]
      /\ hand[w] # 0
  BY <1>1 DEF SubInv, SubPlaced, TypeOK, OnePlace
<1>3. /\ StripeTyped' /\ JobsTyped' /\ OnePlace' /\ InHandOf(w) \in Event /\ ~found'[w]
      /\ \A v \in Workers : v # w => InHandOf(v)' = InHandOf(v) /\ found'[v] = found[v]
  BY <1>1, <1>2, EndKeeps
<1>4. InHandOf(w).sub \in Subs /\ Meaning(InHandOf(w)) \in Status
  BY <1>3, MeaningTyped
<1>5. row' \in [sub : Subs \cup {NoSub}, status : Status] /\ row'.sub = row.sub
  BY <1>1, <1>2, <1>4
<1>6. crossed' \in BOOLEAN
  BY <1>1 DEF SubInv, SubPlaced, TypeOK
<1>7. RowTyped'
  BY <1>1, <1>2, <1>4, <1>5, <1>6, OrderedTypes DEF RowTyped
<1>8. RowFound'
  BY <1>1, <1>2, <1>3, <1>5 DEF RowFound
<1>9. ReplacedHasNoSay'
  BY <1>1, <1>2, <1>5 DEF RowFound, ReplacedHasNoSay
<1>10. TypeOK'
  BY <1>3, <1>7 DEF TypeOK, StripeTyped, JobsTyped, RowTyped
<1> QED BY <1>3, <1>8, <1>9, <1>10 DEF SubInv, SubPlaced

\* The row is left alone.
LEMMA EndWithoutWrite ==
    ASSUME SubInv, NEW w \in Workers, Drop(w) \/ Fails(w) \/ GiveUp(w)
    PROVE  SubInv'
<1>1. /\ hand[w] # 0
      /\ Done(w) \/ Again(w)
      /\ UNCHANGED <<truth, events, row, by, crossed>>
      /\ Ordered(w) \/ missed' = missed \/ missed' = missed \cup {InHandOf(w).sub}
  BY DEF Drop, Fails, GiveUp, rowVars
<1>2. SubPlaced /\ RowFound /\ missed \subseteq Subs
  BY DEF SubInv, SubPlaced, TypeOK
<1>3. /\ StripeTyped' /\ JobsTyped' /\ OnePlace' /\ InHandOf(w) \in Event /\ ~found'[w]
      /\ \A v \in Workers : v # w => InHandOf(v)' = InHandOf(v) /\ found'[v] = found[v]
  BY <1>1, <1>2, EndKeeps
<1>4. missed' \subseteq Subs
  BY <1>1, <1>2, <1>3, MeaningTyped DEF Ordered
<1>5. RowTyped'
  BY <1>1, <1>4 DEF SubInv, SubPlaced, TypeOK, RowTyped
<1>6. RowFound' /\ ReplacedHasNoSay'
  BY <1>1, <1>2, <1>3 DEF SubInv, RowFound, ReplacedHasNoSay
<1>7. TypeOK'
  BY <1>3, <1>5 DEF TypeOK, StripeTyped, JobsTyped, RowTyped
<1> QED BY <1>3, <1>6, <1>7 DEF SubInv, SubPlaced

LEMMA FindKeeps == ASSUME SubInv, NEW w \in Workers, Find(w) PROVE SubInv'
<1>1. /\ hand[w] # 0 /\ row.sub = InHandOf(w).sub /\ found' = [found EXCEPT ![w] = TRUE]
      /\ UNCHANGED <<truth, events, pending, queue, tries, hand, row, by, missed, crossed>>
  BY DEF Find, rowVars
<1>2. found \in [Workers -> BOOLEAN]
  BY DEF SubInv, SubPlaced, TypeOK
<1>3. found' \in [Workers -> BOOLEAN]
  BY <1>1, <1>2
<1>4. TypeOK'
  BY <1>1, <1>3 DEF SubInv, SubPlaced, TypeOK
<1>5. OnePlace' /\ RowFound' /\ ReplacedHasNoSay'
  BY <1>1, <1>2 DEF SubInv, SubPlaced, OnePlace, RowFound, InHandOf, ReplacedHasNoSay
<1> QED BY <1>4, <1>5 DEF SubInv, SubPlaced

LEMMA SubStep == SubInv /\ [SubscriptionNext]_vars => SubInv'
<1> SUFFICES ASSUME SubInv, [SubscriptionNext]_vars PROVE SubInv'
  OBVIOUS
<1>0. SubPlaced /\ TypeOK /\ OnePlace /\ RowFound /\ ReplacedHasNoSay
  BY DEF SubInv, SubPlaced
<1>1. ASSUME NEW s \in Subs, NEW st \in Truth \ {"none"}, Change(s, st) PROVE SubInv'
  <2>1. SubPlaced' /\ UNCHANGED <<hand, found, row, by, crossed>>
    BY <1>0, <1>1, ChangeKeeps DEF Change, rowVars
  <2>2. \A w \in Workers : found[w] => InHandOf(w)' = InHandOf(w)
    <3>1. \A w \in Workers : found[w] => hand[w] \in 1 .. Len(events)
      BY <1>0 DEF TypeOK, OnePlace
    <3> QED BY <1>0, <1>1, <2>1, <3>1, ChangeEffect DEF InHandOf
  <2> QED BY <1>0, <2>1, <2>2 DEF SubInv, RowFound, ReplacedHasNoSay
<1>2. ASSUME NEW i \in Number, Deliver(i) PROVE SubInv'
  BY <1>0, <1>2, DeliverKeeps DEF SubInv, RowFound, InHandOf, ReplacedHasNoSay, Deliver, rowVars
<1>3. ASSUME NEW w \in Workers, Work(w) PROVE SubInv'
  <2>1. CASE Take(w)
    <3>1. SubPlaced' /\ ~found[w] /\ UNCHANGED <<events, found, row, by, crossed>>
      BY <1>0, <2>1, TakeKeeps DEF Take, OnePlace, rowVars
    <3>2. \A v \in Workers : found[v] => InHandOf(v)' = InHandOf(v)
      BY <1>0, <2>1, <3>1 DEF Take, InHandOf, TypeOK
    <3> QED BY <1>0, <3>1, <3>2 DEF SubInv, RowFound, ReplacedHasNoSay
  <2> QED BY <1>3, <2>1, CheckoutKeeps, UpdateKeeps, EndWithoutWrite, FindKeeps DEF Work
<1>4. CASE UNCHANGED vars
  <2>1. TypeOK'
    BY <1>0, <1>4 DEF vars, jobVars, rowVars, TypeOK
  <2> QED BY <1>0, <1>4, <2>1
          DEF vars, jobVars, rowVars, SubInv, SubPlaced, OnePlace, RowFound, InHandOf, ReplacedHasNoSay
<1> QED BY <1>1, <1>2, <1>3, <1>4 DEF SubscriptionNext

\* An event that is over, or will be tried again, keeps the order unless it
\* is missed.
LEMMA OrderKept ==
    ASSUME SubPlaced, InOrder, NEW i \in 1 .. Len(events), pending' \in {pending, pending \ {i}},
           UNCHANGED events, missed \subseteq missed',
           \/ events[i].sub \in missed'
           \/ ~ \E j \in pending : j < i /\ events[j].sub = events[i].sub
    PROVE  InOrder'
<1>1. SUFFICES ASSUME NEW a \in 1 .. Len(events), NEW b \in 1 .. Len(events), a < b,
                      events[a].sub = events[b].sub, events[a].sub \notin missed', a \in pending'
               PROVE  b \in pending'
  BY DEF InOrder
<1>2. a \in pending /\ events[a].sub \notin missed
  BY <1>1
<1>3. b \in pending
  BY <1>1, <1>2 DEF InOrder
<1>4. b # i \/ pending' = pending
  BY <1>1, <1>2
<1> QED BY <1>3, <1>4

\* The event that writes the row is the oldest that is pending, unless its
\* subscription has a missed one.
LEMMA WriteCounts ==
    ASSUME SubPlaced, InOrder, NEW w \in Workers, hand[w] # 0, Done(w) \/ Again(w), Ordered(w),
           UNCHANGED <<truth, events>>, row'.sub = InHandOf(w).sub, row'.status = Meaning(InHandOf(w))
    PROVE  RowWritten'
<1>1. PICK i \in 1 .. Len(events) :
          i = hand[w] /\ i \in pending /\ pending' \in {pending, pending \ {i}} /\ InHandOf(w) = events[i]
  BY EndKeeps DEF InHandOf
<1>2. SUFFICES ASSUME row'.sub \notin missed' PROVE Wrote(i)'
  BY <1>1 DEF RowWritten
<1>3. ~Late(w) /\ events[i].sub \notin missed
  BY <1>1, <1>2 DEF Ordered
<1>4. ASSUME NEW j \in 1 .. Len(events), events[j].sub = events[i].sub, j # i
      PROVE  j \in pending' <=> i < j
  <2>1. j \in pending' <=> j \in pending
    BY <1>1, <1>4
  <2>2. j < i => j \notin pending
    BY <1>1, <1>3, <1>4 DEF Late
  <2>3. i < j => j \in pending
    BY <1>1, <1>3, <1>4 DEF InOrder
  <2>4. j < i \/ i < j
    BY <1>4
  <2> QED BY <2>1, <2>2, <2>3, <2>4
<1>5. events'[i].sub = row'.sub /\ row'.status = Meaning(events'[i])
  BY <1>1
<1> QED BY <1>4, <1>5, <1>1 DEF Wrote

\* An event that is over without a word on the row was of another
\* subscription, or is a missed one.
LEMMA OthersCount ==
    ASSUME RowWritten, UNCHANGED <<events, row, crossed>>, missed \subseteq missed',
           NEW i \in 1 .. Len(events), pending' \in {pending, pending \ {i}},
           events[i].sub # row.sub \/ events[i].sub \in missed'
    PROVE  RowWritten'
<1>1. SUFFICES ASSUME row.sub # NoSub, row.sub \notin missed', ~crossed PROVE \E k \in 1 .. Len(events) : Wrote(k)'
  BY DEF RowWritten
<1>2. PICK k \in 1 .. Len(events) : Wrote(k)
  BY <1>1 DEF RowWritten
<1>3. \A j \in 1 .. Len(events) : events[j].sub = row.sub => (j \in pending' <=> j \in pending)
  BY <1>1
<1>4. Wrote(k)'
  BY <1>2, <1>3 DEF Wrote
<1> QED BY <1>4

LEMMA OrderAfterChange ==
    ASSUME SubPlaced, OrderInv, NEW s \in Subs, NEW st \in Truth \ {"none"}, Change(s, st)
    PROVE  OrderInv'
<1>1. /\ Len(events) \in Nat /\ Len(events') \in Nat /\ Len(events) < Len(events')
      /\ \A i \in 1 .. Len(events) : events'[i] = events[i]
      /\ \A i \in Len(events) + 1 .. Len(events') : events'[i].sub = s
      /\ Meaning(events'[Len(events')]) = MapStatus(st)
      /\ pending' = pending \cup (Len(events) + 1 .. Len(events'))
  BY ChangeEffect DEF SubPlaced
<1>2. /\ truth' = [truth EXCEPT ![s] = st] /\ UNCHANGED <<row, missed, crossed>>
      /\ pending \subseteq 1 .. Len(events) /\ truth \in [Subs -> Truth] /\ events \in Seq(Event)
  BY DEF Change, rowVars, SubPlaced, TypeOK
<1>3. \A i \in 1 .. Len(events') :
          \/ i \in 1 .. Len(events) /\ (i \in pending' <=> i \in pending)
          \/ i \in Len(events) + 1 .. Len(events') /\ i \in pending'
  BY <1>1, <1>2
<1>4. InOrder'
  <2>1. SUFFICES ASSUME NEW a \in 1 .. Len(events'), NEW b \in 1 .. Len(events'), a < b,
                        events'[a].sub = events'[b].sub, events'[a].sub \notin missed, a \in pending'
                 PROVE  b \in pending'
    BY <1>2 DEF InOrder
  <2>2. CASE b \in Len(events) + 1 .. Len(events')
    BY <1>3, <2>2, <1>1
  <2>3. CASE b \in 1 .. Len(events)
    <3>1. a \in 1 .. Len(events) /\ a \in pending
      BY <1>1, <1>3, <2>1, <2>3
    <3>2. events[a].sub = events[b].sub /\ events[a].sub \notin missed
      BY <1>1, <2>1, <2>3, <3>1
    <3>3. b \in pending
      BY <2>1, <2>3, <3>1, <3>2 DEF OrderInv, InOrder
    <3> QED BY <1>1, <3>3
  <2> QED BY <1>3, <2>2, <2>3
<1>5. RowWritten'
  <2>1. SUFFICES ASSUME row.sub # NoSub, row.sub \notin missed, ~crossed
                 PROVE  \E i \in 1 .. Len(events') : Wrote(i)'
    BY <1>2 DEF RowWritten
  <2>2. PICK i \in 1 .. Len(events) : Wrote(i)
    BY <2>1 DEF OrderInv, RowWritten
  <2>3. i \in 1 .. Len(events') /\ events'[i] = events[i]
    BY <1>1
  <2>4. ASSUME NEW j \in 1 .. Len(events'), events'[j].sub = row.sub, j # i
        PROVE  j \in pending' <=> i < j
    <3>1. CASE j \in 1 .. Len(events) /\ (j \in pending' <=> j \in pending)
      BY <1>1, <2>2, <2>4, <3>1 DEF Wrote
    <3>2. CASE j \in Len(events) + 1 .. Len(events') /\ j \in pending'
      BY <1>1, <3>2
    <3> QED BY <1>3, <3>1, <3>2
  <2>5. Wrote(i)'
    BY <1>2, <2>2, <2>3, <2>4 DEF Wrote
  <2> QED BY <2>3, <2>5
<1>6. LastSays'
  <2>1. SUFFICES ASSUME NEW i \in 1 .. Len(events'), Youngest(i)'
                 PROVE  Meaning(events'[i]) = MapStatus(truth'[events'[i].sub])
    BY DEF LastSays
  <2>2. \A j \in 1 .. Len(events') : i < j => events'[j].sub # events'[i].sub
    BY <2>1 DEF Youngest
  <2>3. CASE i \in Len(events) + 1 .. Len(events')
    <3>1. events'[i].sub = s /\ events'[Len(events')].sub = s
      BY <1>1, <2>3
    <3>2. Len(events') \in 1 .. Len(events') /\ (i = Len(events') \/ i < Len(events'))
      BY <1>1, <2>3
    <3>3. i = Len(events')
      BY <2>2, <3>1, <3>2
    <3>4. truth'[s] = st
      BY <1>2
    <3> QED BY <1>1, <3>1, <3>3, <3>4
  <2>4. CASE i \in 1 .. Len(events)
    <3>1. events'[i] = events[i] /\ Youngest(i)
      <4>1. ASSUME NEW j \in 1 .. Len(events), i < j PROVE events[j].sub # events[i].sub
        <5>1. j \in 1 .. Len(events') /\ events'[j] = events[j] /\ events'[i] = events[i]
          BY <1>1, <2>4
        <5> QED BY <2>2, <4>1, <5>1
      <4> QED BY <1>1, <2>4, <4>1 DEF Youngest
    <3>2. events[i].sub # s
      <4>1. Len(events') \in 1 .. Len(events') /\ events'[Len(events')].sub = s /\ i < Len(events')
        BY <1>1, <2>4
      <4> QED BY <2>2, <3>1, <4>1
    <3>3. events[i].sub \in Subs
      BY <1>2, <2>4, MeaningTyped
    <3>4. truth'[events[i].sub] = truth[events[i].sub]
      BY <1>2, <3>2, <3>3
    <3> QED BY <2>4, <3>1, <3>4 DEF OrderInv, LastSays
  <2> QED BY <1>3, <2>3, <2>4
<1> QED BY <1>4, <1>5, <1>6 DEF OrderInv

LEMMA OrderAfterEnd ==
    ASSUME SubInv, OrderInv, NEW w \in Workers,
           CheckoutCompleted(w) \/ Update(w) \/ Drop(w) \/ GiveUp(w)
    PROVE  OrderInv'
<1>1. /\ hand[w] # 0
      /\ Done(w) \/ Again(w)
      /\ UNCHANGED <<truth, events>>
      /\ Ordered(w) \/ missed' = missed \cup {InHandOf(w).sub}
  BY DEF CheckoutCompleted, Update, Drop, GiveUp, SubInv, SubPlaced, OnePlace
<1>2. PICK i \in 1 .. Len(events) :
          i = hand[w] /\ i \in pending /\ pending' \in {pending, pending \ {i}} /\ InHandOf(w) = events[i]
  BY <1>1, EndKeeps DEF InHandOf, SubInv
<1>3. missed \subseteq missed'
  BY <1>1 DEF Ordered
<1>4. events[i].sub \in missed' \/ ~ \E j \in pending : j < i /\ events[j].sub = events[i].sub
  BY <1>1, <1>2 DEF Ordered, Late
<1>5. InOrder'
  BY <1>1, <1>2, <1>3, <1>4, OrderKept DEF SubInv, OrderInv
<1>6. LastSays'
  BY <1>1 DEF OrderInv, LastSays, Youngest
<1>7. RowWritten'
  <2>1. CASE CheckoutCompleted(w)
    <3>1. /\ row' = [sub |-> InHandOf(w).sub, status |-> "ACTIVE"] /\ InHandOf(w).kind = "checkout"
          /\ Ordered(w)
      BY <2>1 DEF CheckoutCompleted
    <3>2. row'.sub = InHandOf(w).sub /\ row'.status = Meaning(InHandOf(w))
      BY <3>1 DEF Meaning
    <3> QED BY <1>1, <3>1, <3>2, WriteCounts DEF SubInv, OrderInv
  <2>2. CASE Update(w)
    <3>1. /\ row' = [row EXCEPT !.status = Meaning(InHandOf(w))] /\ Ordered(w) /\ crossed' = crossed
          /\ (~crossed => row.sub = InHandOf(w).sub)
          /\ row \in [sub : Subs \cup {NoSub}, status : Status]
      BY <2>2 DEF Update, SubInv, SubPlaced, TypeOK, RowFound
    <3>2. CASE crossed
      BY <3>1, <3>2 DEF RowWritten
    <3>3. CASE ~crossed
      <4>1. row'.sub = InHandOf(w).sub /\ row'.status = Meaning(InHandOf(w))
        BY <3>1, <3>3
      <4> QED BY <1>1, <3>1, <4>1, WriteCounts DEF SubInv, OrderInv
    <3> QED BY <3>2, <3>3
  <2>3. CASE Drop(w) \/ GiveUp(w)
    <3>1. UNCHANGED <<events, row, crossed>> /\ (events[i].sub # row.sub \/ events[i].sub \in missed')
      BY <1>2, <2>3 DEF Drop, GiveUp
    <3> QED BY <1>2, <1>3, <3>1, OthersCount DEF OrderInv
  <2> QED BY <2>1, <2>2, <2>3
<1> QED BY <1>5, <1>6, <1>7 DEF OrderInv

LEMMA OrderStays ==
    ASSUME OrderInv, UNCHANGED <<truth, events, pending, row, missed, crossed>>
    PROVE  OrderInv'
  BY DEF OrderInv, InOrder, RowWritten, Wrote, LastSays, Youngest

LEMMA OrderStep == SubInv /\ OrderInv /\ [SubscriptionNext]_vars => OrderInv'
<1> SUFFICES ASSUME SubInv, OrderInv, [SubscriptionNext]_vars PROVE OrderInv'
  OBVIOUS
<1>1. ASSUME NEW s \in Subs, NEW st \in Truth \ {"none"}, Change(s, st) PROVE OrderInv'
  BY <1>1, OrderAfterChange DEF SubInv
<1>2. ASSUME NEW i \in Number, Deliver(i) PROVE OrderInv'
  BY <1>2, OrderStays DEF Deliver, rowVars
<1>3. ASSUME NEW w \in Workers, Work(w) PROVE OrderInv'
  <2>1. CASE Take(w) \/ Find(w) \/ Fails(w)
    BY <2>1, OrderStays DEF Take, Find, Fails, Again, rowVars
  <2> QED BY <1>3, <2>1, OrderAfterEnd DEF Work
<1>4. CASE UNCHANGED vars
  BY <1>4, OrderStays DEF vars, jobVars, rowVars
<1> QED BY <1>1, <1>2, <1>3, <1>4 DEF SubscriptionNext

LEMMA OrderGivesStatus == SubInv /\ OrderInv => StatusFollowsStripe
<1> SUFFICES ASSUME SubInv, OrderInv, row.sub # NoSub, row.sub \notin missed, ~crossed,
                    \A i \in pending : events[i].sub # row.sub
             PROVE  row.status = MapStatus(truth[row.sub])
  BY DEF StatusFollowsStripe
<1>1. PICK i \in 1 .. Len(events) : Wrote(i)
  BY DEF OrderInv, RowWritten
<1>2. Youngest(i)
  BY <1>1 DEF Wrote, Youngest
<1> QED BY <1>1, <1>2 DEF OrderInv, LastSays, Wrote

\* Every reachable state of Subscription is well typed: among others, an
\* event in hand is one whose handling is not over.
THEOREM SubscriptionTypeCorrect == Spec => []TypeOK
<1>1. SubInv => TypeOK
  BY DEF SubInv, SubPlaced
<1> QED BY <1>1, SubInit, SubStep, PTL DEF Spec

\* The update of a handler is for the subscription that the row names, as
\* long as no checkout replaced the row after the handler had found it.
THEOREM ReplacedNeverSays == Spec => []ReplacedHasNoSay
<1>1. SubInv => ReplacedHasNoSay
  BY DEF SubInv
<1> QED BY <1>1, SubInit, SubStep, PTL DEF Spec

\* Whatever the order of deliveries and the number of attempts, the row says
\* what Stripe says once the events of its subscription are over, in the
\* order in which they were sent.
THEOREM StatusAlwaysFollows == Spec => []StatusFollowsStripe
  BY SubInit, SubStep, OrderStep, OrderGivesStatus, PTL DEF Spec
=============================================================================
