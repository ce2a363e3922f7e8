------------------------------ MODULE Subscription ------------------------------
(***************************************************************************)
(* The subscription row of ONE owner, next to the owner's subscriptions at *)
(* Stripe: what Stripe reports, in which order the reports reach the       *)
(* workers of StripeWebhookProcessor, and what its handlers write.         *)
(*                                                                         *)
(* StripeWebhook models how one event is stored, queued, retried and       *)
(* marked; here an event is somewhere between Stripe and its end, and its  *)
(* delivery or a failed attempt puts it behind others.  The dates of the   *)
(* period, seats and plan of the row are left out.                         *)
(***************************************************************************)
EXTENDS Integers, Sequences

CONSTANTS
    Subs,        \* subscriptions of the owner at Stripe
    NoSub,       \* stripeSubscriptionId of an owner without a row
    Workers,
    Attempts,    \* of a job
    MaxEvents    \* bound: events that Stripe sends

ASSUME SubscriptionAssumption ==
    /\ NoSub \notin Subs /\ Attempts \in Nat \ {0} /\ MaxEvents \in Nat

VARIABLES
    truth,    \* the status of each subscription at Stripe
    events,   \* all events so far, oldest first
    pending,  \* numbers of the events whose handling is not over
    queue,    \* numbers of the events in the queue
    tries,    \* attempts that failed, by number
    hand,     \* the event each worker has in hand, or 0
    found,    \* the handler has found the row and will update it
    row,      \* Postgres: stripeSubscriptionId and status
    by,       \* history: whose event wrote the status
    missed,   \* history: subscriptions with an event out of order or given up
    crossed   \* history: the row was replaced between a find and an update

jobVars == <<events, pending, queue, tries, hand, found>>
rowVars == <<row, by, missed, crossed>>
vars == <<truth, jobVars, rowVars>>

Truth  == {"none", "active", "past_due", "unpaid", "canceled"}
Status == {"NONE", "ACTIVE", "PAST_DUE", "CANCELED"}
Event  == [kind : {"checkout", "paid", "failed", "updated", "deleted"}, sub : Subs, status : Truth]
Number == 1 .. MaxEvents

\* What Stripe, the queue, the workers and the row may hold.
TypeOK ==
    /\ truth \in [Subs -> Truth] /\ events \in Seq(Event) /\ Len(events) <= MaxEvents
    /\ pending \subseteq 1 .. Len(events) /\ queue \in Seq(pending)
    /\ tries \in [Number -> 0 .. Attempts]
    /\ hand \in [Workers -> pending \cup {0}] /\ found \in [Workers -> BOOLEAN]
    /\ row \in [sub : Subs \cup {NoSub}, status : Status]
    /\ by \in Subs \cup {NoSub} /\ missed \subseteq Subs /\ crossed \in BOOLEAN

Init ==
    /\ truth = [s \in Subs |-> "none"] /\ events = <<>>
    /\ pending = {} /\ queue = <<>> /\ tries = [i \in Number |-> 0]
    /\ hand = [w \in Workers |-> 0] /\ found = [w \in Workers |-> FALSE]
    /\ row = [sub |-> NoSub, status |-> "NONE"]
    /\ by = NoSub /\ missed = {} /\ crossed = FALSE

-----------------------------------------------------------------------------
(***************************************************************************)
(* Stripe.                                                                 *)
(***************************************************************************)
\* What Stripe sends when subscription s gets status st.
Report(s, st) ==
    LET E(kind) == [kind |-> kind, sub |-> s, status |-> st] IN
    CASE st = "active" -> IF truth[s] = "none" THEN <<E("checkout")>>
                          ELSE <<E("paid"), E("updated")>>
      [] st = "past_due" -> <<E("failed"), E("updated")>>
      [] st = "unpaid" -> <<E("updated")>>
      [] st = "canceled" -> <<E("deleted")>>

Change(s, st) ==
    /\ truth[s] # "canceled" /\ st # truth[s] /\ (truth[s] = "none" => st = "active")
    /\ Len(events) + Len(Report(s, st)) <= MaxEvents
    /\ truth' = [truth EXCEPT ![s] = st]
    /\ events' = events \o Report(s, st)
    /\ pending' = pending \cup {i \in Number : Len(events) < i /\ i <= Len(events')}
    /\ UNCHANGED <<queue, tries, hand, found, rowVars>>

InHand == {hand[w] : w \in Workers}
Queued == {queue[k] : k \in 1 .. Len(queue)}

\* Stripe delivers in any order.
Deliver(i) ==
    /\ i \in pending \ (InHand \cup Queued) /\ queue' = Append(queue, i)
    /\ UNCHANGED <<truth, events, pending, tries, hand, found, rowVars>>

-----------------------------------------------------------------------------
(***************************************************************************)
(* The handlers.                                                           *)
(***************************************************************************)
Take(w) ==
    /\ hand[w] = 0 /\ queue # <<>>
    /\ hand' = [hand EXCEPT ![w] = Head(queue)] /\ queue' = Tail(queue)
    /\ UNCHANGED <<truth, events, pending, tries, found, rowVars>>

InHandOf(w) == events[hand[w]]

Lay(w) == hand' = [hand EXCEPT ![w] = 0] /\ found' = [found EXCEPT ![w] = FALSE]

\* The attempt succeeds.
Done(w) == Lay(w) /\ pending' = pending \ {hand[w]} /\ UNCHANGED <<queue, tries>>

\* The attempt fails, and the event waits behind the others.
Again(w) ==
    LET i == hand[w] IN
    /\ Lay(w) /\ tries[i] + 1 < Attempts /\ tries' = [tries EXCEPT ![i] = @ + 1]
    /\ queue' = Append(queue, i) /\ UNCHANGED pending

\* An older event of the same subscription is not over yet.
Late(w) == \E i \in pending : i < hand[w] /\ events[i].sub = InHandOf(w).sub

Ordered(w) == missed' = IF Late(w) THEN missed \cup {InHandOf(w).sub} ELSE missed

\* Mutation: the update of the upsert leaves the status alone.
CheckoutCompleted_KeepsStatus(w) ==
    LET s == InHandOf(w).sub IN
    /\ hand[w] # 0 /\ InHandOf(w).kind = "checkout"
    /\ row' = [sub |-> s, status |-> IF row.sub = NoSub THEN "ACTIVE" ELSE row.status] /\ by' = s
    /\ crossed' = (crossed \/ \E v \in Workers : found[v] /\ InHandOf(v).sub # s)
    /\ Done(w) \/ Again(w)
    /\ Ordered(w) /\ UNCHANGED <<truth, events>>

\* handleSubscriptionCheckoutCompleted: the row of the owner is written,
\* whatever subscription it was of.
CheckoutCompleted(w) ==
    LET s == InHandOf(w).sub IN
    /\ hand[w] # 0 /\ InHandOf(w).kind = "checkout"
    /\ row' = [sub |-> s, status |-> "ACTIVE"] /\ by' = s
    /\ crossed' = (crossed \/ \E v \in Workers : found[v] /\ InHandOf(v).sub # s)
    /\ Done(w) \/ Again(w)
    /\ Ordered(w) /\ UNCHANGED <<truth, events>>

\* Mutation: the row is found by its owner.
Find_ByOwner(w) ==
    /\ hand[w] # 0 /\ InHandOf(w).kind # "checkout" /\ ~found[w]
    /\ row.sub # NoSub
    /\ found' = [found EXCEPT ![w] = TRUE]
    /\ UNCHANGED <<truth, events, pending, queue, tries, hand, rowVars>>

\* The other handlers find the row by the subscription of their event.
Find(w) ==
    /\ hand[w] # 0 /\ InHandOf(w).kind # "checkout" /\ ~found[w]
    /\ row.sub = InHandOf(w).sub
    /\ found' = [found EXCEPT ![w] = TRUE]
    /\ UNCHANGED <<truth, events, pending, queue, tries, hand, rowVars>>

\* No row: the event is dropped.
Drop(w) ==
    /\ hand[w] # 0 /\ InHandOf(w).kind # "checkout" /\ ~found[w]
    /\ row.sub # InHandOf(w).sub
    /\ Done(w) /\ Ordered(w) /\ UNCHANGED <<truth, events, row, by, crossed>>

\* handleSubscriptionUpdated: a status it does not know counts as active.
MapStatus(st) ==
    CASE st = "past_due" -> "PAST_DUE" [] st = "canceled" -> "CANCELED" [] OTHER -> "ACTIVE"

\* What the handler of e writes.
Meaning(e) ==
    CASE e.kind \in {"checkout", "paid"} -> "ACTIVE"
      [] e.kind = "failed" -> "PAST_DUE"
      [] e.kind = "updated" -> MapStatus(e.status)
      [] e.kind = "deleted" -> "CANCELED"

\* The update, by the id of the row; the attempt may still fail after it.
Update(w) ==
    /\ found[w]
    /\ row' = [row EXCEPT !.status = Meaning(InHandOf(w))] /\ by' = InHandOf(w).sub
    /\ Done(w) \/ Again(w)
    /\ Ordered(w) /\ UNCHANGED <<truth, events, crossed>>

\* An attempt fails before it writes.
Fails(w) ==
    /\ hand[w] # 0 /\ Again(w)
    /\ UNCHANGED <<truth, events, rowVars>>

\* The last attempt fails: nobody handles the event any more.
GiveUp(w) ==
    /\ hand[w] # 0 /\ tries[hand[w]] + 1 = Attempts
    /\ Done(w) /\ missed' = missed \cup {InHandOf(w).sub}
    /\ UNCHANGED <<truth, events, row, by, crossed>>

Work(w) ==
    \/ Take(w) \/ CheckoutCompleted(w) \/ Find(w) \/ Drop(w) \/ Update(w) \/ Fails(w) \/ GiveUp(w)

SubscriptionNext ==
    \/ \E s \in Subs, st \in Truth \ {"none"} : Change(s, st)
    \/ \E i \in Number : Deliver(i)
    \/ \E w \in Workers : Work(w)

Spec == Init /\ [][SubscriptionNext]_vars

-----------------------------------------------------------------------------
(***************************************************************************)
(* What holds.                                                             *)
(***************************************************************************)
\* Once every event of the row's subscription is over, in the order in which
\* Stripe sent them and none given up, the row says what Stripe says: no
\* retry, duplicate attempt or event of another subscription leaves it behind
\* (the handlers of checkout, invoice and subscription events together).
StatusFollowsStripe ==
    (/\ row.sub # NoSub /\ row.sub \notin missed /\ ~crossed
     /\ \A i \in pending : events[i].sub # row.sub)
        => row.status = MapStatus(truth[row.sub])

\* The end of a subscription that was replaced does not end its successor:
\* unless the row was replaced between the find and the update of a handler,
\* its status was written for the subscription it names.
ReplacedHasNoSay == ~crossed => by = row.sub
=============================================================================
