-------------------------------- MODULE Customer --------------------------------
(***************************************************************************)
(* One owner at Stripe: the checkouts that StripeService opens, the        *)
(* customer they are charged to, and the disputes of those charges, which  *)
(* the webhook processor traces back to a wallet by the customer alone.    *)
(* How an event reaches its handler, and how a lock reaches Redis, is the  *)
(* matter of StripeWebhook.                                                *)
(***************************************************************************)
CONSTANTS Checkouts, NoCustomer

ASSUME CustomerAssumption == NoCustomer \notin Checkouts

\* A customer is named by the checkout that created it.
Customers == Checkouts \cup {NoCustomer}

VARIABLES
    customer,    \* users or organizations: stripe_customer_id
    locked,      \* wallet_balances: is_locked
    chargebacks, \* wallet_ledger: charges with a CHARGEBACK entry
    checkout,    \* where each checkout is
    charged,     \* Stripe: the customer of its session
    dispute,     \* Stripe: the dispute of its charge
    handled,     \* events of that dispute that were handled
    overlapped,  \* history: checkouts that were creating a customer at once
    released,    \* history: disputes that were open when another was won
    late         \* history: disputes whose closing was handled before their opening

customerVars ==
    <<customer, locked, chargebacks, checkout, charged, dispute, handled, overlapped, released, late>>
disputeVars == <<locked, chargebacks, dispute, handled, released, late>>

CheckoutState == {"new", "reading", "creating", "saving", "session", "open", "paid", "failed"}

\* What Postgres and Stripe may hold.
CustomerTypeOK ==
    /\ customer \in Customers /\ locked \in BOOLEAN /\ chargebacks \subseteq Checkouts
    /\ checkout \in [Checkouts -> CheckoutState] /\ charged \in [Checkouts -> Customers]
    /\ dispute \in [Checkouts -> {"none", "open", "won", "lost"}]
    /\ handled \in [Checkouts -> SUBSET {"created", "closed"}]
    /\ overlapped \subseteq Checkouts /\ released \subseteq Checkouts /\ late \subseteq Checkouts

CustomerInit ==
    /\ customer = NoCustomer /\ locked = FALSE /\ chargebacks = {}
    /\ checkout = [c \in Checkouts |-> "new"] /\ charged = [c \in Checkouts |-> NoCustomer]
    /\ dispute = [c \in Checkouts |-> "none"] /\ handled = [c \in Checkouts |-> {}]
    /\ overlapped = {} /\ released = {} /\ late = {}

-----------------------------------------------------------------------------
(***************************************************************************)
(* createSubscriptionCheckout, createTopupCheckout.                        *)
(***************************************************************************)
Go(c, from, to) == checkout[c] = from /\ checkout' = [checkout EXCEPT ![c] = to]

\* The plan or the package is found, or an amount is given.
Begin(c) ==
    /\ Go(c, "new", "reading")
    /\ UNCHANGED <<customer, charged, overlapped, disputeVars>>

\* Checkouts that found no customer and have not saved theirs.
Creating == {c \in Checkouts : checkout[c] \in {"creating", "saving"}}

\* Mutation: the customer that was saved is not looked at.
GetCustomer_Always(c) ==
    /\ Go(c, "reading", "creating")
    /\ overlapped' = IF Creating = {} THEN overlapped ELSE overlapped \cup Creating \cup {c}
    /\ UNCHANGED <<customer, charged, disputeVars>>

\* getOrCreateCustomerForUser, getOrCreateCustomerForOrg.
GetCustomer(c) ==
    /\ \/ /\ customer # NoCustomer /\ Go(c, "reading", "session")
          /\ charged' = [charged EXCEPT ![c] = customer] /\ UNCHANGED overlapped
       \/ /\ customer = NoCustomer /\ Go(c, "reading", "creating")
          /\ overlapped' = IF Creating = {} THEN overlapped ELSE overlapped \cup Creating \cup {c}
          /\ UNCHANGED charged
    /\ UNCHANGED <<customer, disputeVars>>

CreateCustomer(c) ==
    /\ Go(c, "creating", "saving")
    /\ UNCHANGED <<customer, charged, overlapped, disputeVars>>

SaveCustomer(c) ==
    /\ Go(c, "saving", "session") /\ customer' = c
    /\ charged' = [charged EXCEPT ![c] = c]
    /\ UNCHANGED <<overlapped, disputeVars>>

OpenSession(c) ==
    /\ Go(c, "session", "open")
    /\ UNCHANGED <<customer, charged, overlapped, disputeVars>>

\* Stripe or Postgres fails; a customer that was created is not deleted.
CheckoutFails(c) ==
    /\ \E from \in {"reading", "creating", "saving", "session"} : Go(c, from, "failed")
    /\ UNCHANGED <<customer, charged, overlapped, disputeVars>>

-----------------------------------------------------------------------------
(***************************************************************************)
(* Stripe.                                                                 *)
(***************************************************************************)
Pay(c) ==
    /\ Go(c, "open", "paid") /\ UNCHANGED <<customer, charged, overlapped, disputeVars>>

Disputed(c, from, to) ==
    /\ checkout[c] = "paid" /\ dispute[c] = from /\ dispute' = [dispute EXCEPT ![c] = to]
    /\ UNCHANGED <<customer, locked, chargebacks, checkout, charged, handled, overlapped, released, late>>

OpenDispute(c) == Disputed(c, "none", "open")
CloseDispute(c) == Disputed(c, "open", "won") \/ Disputed(c, "open", "lost")

-----------------------------------------------------------------------------
(***************************************************************************)
(* handleDisputeCreated, handleDisputeClosed: the queue keeps no order.    *)
(***************************************************************************)
\* getCharge, findOwnerByCustomerId.
OwnerFound(c) == charged[c] = customer

Handle(c, event) ==
    /\ event \notin handled[c] /\ handled' = [handled EXCEPT ![c] = @ \cup {event}]
    /\ UNCHANGED <<customer, checkout, charged, dispute, overlapped>>

\* Nobody has that customer: the event is dropped.
DropEvent(c) ==
    /\ ~OwnerFound(c)
    /\ \/ dispute[c] # "none" /\ Handle(c, "created")
       \/ dispute[c] \in {"won", "lost"} /\ Handle(c, "closed")
    /\ UNCHANGED <<locked, chargebacks, released, late>>

DisputeCreated(c) ==
    /\ dispute[c] # "none" /\ OwnerFound(c) /\ Handle(c, "created")
    /\ locked' = TRUE /\ late' = IF "closed" \in handled[c] THEN late \cup {c} ELSE late
    /\ UNCHANGED <<chargebacks, released>>

\* The disputes of which only the opening was handled.
Holding == {c \in Checkouts : "created" \in handled[c] /\ "closed" \notin handled[c]}

\* Mutation: a lost dispute frees the wallet, too.
DisputeClosed_LostUnlocks(c) ==
    /\ OwnerFound(c) /\ Handle(c, "closed") /\ locked' = FALSE
    /\ \/ /\ dispute[c] = "won" /\ released' = released \cup (Holding \ {c}) /\ UNCHANGED chargebacks
       \/ /\ dispute[c] = "lost" /\ chargebacks' = chargebacks \cup {c} /\ UNCHANGED released
    /\ UNCHANGED late

\* The lock is one flag: whatever else is open, a dispute that is won frees the
\* wallet.  A lost one leaves it locked and writes an entry.
DisputeClosed(c) ==
    /\ OwnerFound(c) /\ Handle(c, "closed")
    /\ \/ /\ dispute[c] = "won" /\ locked' = FALSE
          /\ released' = released \cup (Holding \ {c}) /\ UNCHANGED chargebacks
       \/ /\ dispute[c] = "lost" /\ chargebacks' = chargebacks \cup {c}
          /\ UNCHANGED <<locked, released>>
    /\ UNCHANGED late

Checkout(c) ==
    \/ Begin(c) \/ GetCustomer(c) \/ CreateCustomer(c) \/ SaveCustomer(c)
    \/ OpenSession(c) \/ CheckoutFails(c) \/ Pay(c)

Dispute(c) ==
    \/ OpenDispute(c) \/ CloseDispute(c)
    \/ DropEvent(c) \/ DisputeCreated(c) \/ DisputeClosed(c)

CustomerNext == \E c \in Checkouts : Checkout(c) \/ Dispute(c)

CustomerSpec == CustomerInit /\ [][CustomerNext]_customerVars

-----------------------------------------------------------------------------
(***************************************************************************)
(* What holds.                                                             *)
(***************************************************************************)
\* The wallet behind a charge is found by its customer, unless that customer
\* was created while another was being created for the same owner; it need
\* not be the checkout that was charged to it that overlapped
\* (getOrCreateCustomerForUser against findOwnerByCustomerId).
OrphansOverlapped ==
    \A c \in Checkouts :
        charged[c] # NoCustomer /\ ~OwnerFound(c) => charged[c] \in overlapped

\* A dispute whose opening was handled keeps the wallet locked until its
\* closing is, unless another one was won meanwhile or its owner was not found.
LockHeld ==
    \A c \in Holding : locked \/ c \in released \/ charged[c] \in overlapped

\* A wallet is locked for a dispute that is open, lost, whose events came in
\* the wrong order, or whose closing found no owner.
LockExplained ==
    locked => \E c \in Checkouts :
        /\ "created" \in handled[c]
        /\ c \in Holding \/ dispute[c] = "lost" \/ c \in late \/ charged[c] \in overlapped

\* The lock follows the disputes (handleDisputeCreated, handleDisputeClosed).
LockFollowsDisputes == LockHeld /\ LockExplained
=============================================================================
