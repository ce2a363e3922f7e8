----------------------------- MODULE StripeWebhook -----------------------------
(***************************************************************************)
(* A Stripe event on its way to the wallet: the deliveries of an event to  *)
(* StripeWebhookController, its row in Postgres, its job in BullMQ, and    *)
(* the workers that run StripeWebhookProcessor.process, which may be       *)
(* several (the API process and the dedicated worker).                     *)
(*                                                                         *)
(* Every handler that touches a wallet commits one entry of wallet_ledger  *)
(* and then, but for a lost dispute, updates Redis; only after that is the *)
(* event marked as processed, and only after that does the job complete.   *)
(* A step that fails sends the whole job back to the queue.                *)
(***************************************************************************)
EXTENDS Integers, FiniteSets

CONSTANTS
    Events,
    Kind,        \* [Events -> {"topup", "lock", "unlock", "chargeback", "none"}]
    Deliveries,  \* requests of Stripe, its retries and duplicates among them
    EventOf,     \* [Deliveries -> Events]
    Batches,     \* the sets of deliveries that Stripe may come to make
    Workers,
    NoEvent,
    Attempts,    \* of a job (5)
    MaxStalls    \* how often a job survives the death of its worker (1)

ASSUME StripeAssumption ==
    /\ Kind \in [Events -> {"topup", "lock", "unlock", "chargeback", "none"}]
    /\ EventOf \in [Deliveries -> Events] /\ Batches \subseteq SUBSET Deliveries
    /\ NoEvent \notin Events
    /\ Attempts \in Nat \ {0} /\ MaxStalls \in Nat

VARIABLES
    stored,     \* Postgres stripe_events: "absent", "stored" or "processed"
    job,        \* BullMQ, by event: jobId is the id of the event
    attempts,   \* attempts of that job that failed
    stalls,     \* attempts of that job whose worker died
    at,         \* where each delivery is
    run,        \* the event each worker has in hand
    step,       \* what it does next
    entries,    \* Postgres wallet_ledger: entries written for each event
    cached,     \* Redis: how often the amount of a top-up was added
    locked,     \* Postgres: wallet_balances.is_locked
    flag,       \* Redis: the lock flag
    repeats,    \* history: attempts that wrote an entry and did not complete
    crossed     \* history: a lock and an unlock were between their two halves at once

vars == <<stored, job, attempts, stalls, at, run, step, entries, cached, locked, flag, repeats, crossed>>
deliveryVars == <<stored, job, attempts, stalls, at>>
walletVars == <<entries, cached, locked, flag, repeats, crossed>>

JobState == {"absent", "waiting", "active", "completed", "failed"}
WorkerStep == {"idle", "handle", "redis", "mark", "complete", "catch"}

\* What Postgres, Redis, the queue, the deliveries and the workers may hold.
TypeOK ==
    /\ stored \in [Events -> {"absent", "stored", "processed"}] /\ job \in [Events -> JobState]
    /\ attempts \in [Events -> 0 .. Attempts] /\ stalls \in [Events -> 0 .. MaxStalls + 1]
    /\ at \in [Deliveries -> {"unsent", "sent", "creating", "adding", "acked", "refused"}]
    /\ run \in [Workers -> Events \cup {NoEvent}] /\ step \in [Workers -> WorkerStep]
    /\ entries \in [Events -> Nat] /\ cached \in [Events -> Nat] /\ repeats \in [Events -> Nat]
    /\ locked \in BOOLEAN /\ flag \in BOOLEAN /\ crossed \in BOOLEAN

Init ==
    /\ stored = [e \in Events |-> "absent"] /\ job = [e \in Events |-> "absent"]
    /\ attempts = [e \in Events |-> 0] /\ stalls = [e \in Events |-> 0]
    /\ \E b \in Batches : at = [d \in Deliveries |-> IF d \in b THEN "sent" ELSE "unsent"]
    /\ run = [w \in Workers |-> NoEvent] /\ step = [w \in Workers |-> "idle"]
    /\ entries = [e \in Events |-> 0] /\ cached = [e \in Events |-> 0]
    /\ repeats = [e \in Events |-> 0]
    /\ locked = FALSE /\ flag = FALSE /\ crossed = FALSE

-----------------------------------------------------------------------------
(***************************************************************************)
(* StripeWebhookController.handleWebhook, for a signed delivery.           *)
(***************************************************************************)
Deliver(d, from, to) == at[d] = from /\ at' = [at EXCEPT ![d] = to]

\* Mutation: an event that was stored before is acknowledged, not queued.
Find_KnownAcked(d) ==
    /\ \/ stored[EventOf[d]] # "absent" /\ Deliver(d, "sent", "acked")
       \/ stored[EventOf[d]] = "absent" /\ Deliver(d, "sent", "creating")
    /\ UNCHANGED <<stored, job, attempts, stalls, run, step, walletVars>>

Find(d) ==
    /\ \/ stored[EventOf[d]] = "processed" /\ Deliver(d, "sent", "acked")
       \/ stored[EventOf[d]] = "stored" /\ Deliver(d, "sent", "adding")
       \/ stored[EventOf[d]] = "absent" /\ Deliver(d, "sent", "creating")
    /\ UNCHANGED <<stored, job, attempts, stalls, run, step, walletVars>>

\* The id is unique: a delivery that lost the race is answered 500.
Create(d) ==
    LET e == EventOf[d] IN
    /\ \/ /\ stored[e] = "absent" /\ Deliver(d, "creating", "adding")
          /\ stored' = [stored EXCEPT ![e] = "stored"]
       \/ stored[e] # "absent" /\ Deliver(d, "creating", "refused") /\ UNCHANGED stored
    /\ UNCHANGED <<job, attempts, stalls, run, step, walletVars>>

\* Mutation: no jobId, a delivery always adds a job.
Add_NoJobId(d) ==
    LET e == EventOf[d] IN
    /\ Deliver(d, "adding", "acked")
    /\ job' = [job EXCEPT ![e] = IF @ = "active" THEN @ ELSE "waiting"]
    /\ UNCHANGED <<stored, attempts, stalls, run, step, walletVars>>

\* queue.add ignores an id that has a job, also a completed or a failed one.
Add(d) ==
    LET e == EventOf[d] IN
    /\ Deliver(d, "adding", "acked")
    /\ \/ /\ job[e] = "absent" /\ job' = [job EXCEPT ![e] = "waiting"]
          /\ attempts' = [attempts EXCEPT ![e] = 0] /\ stalls' = [stalls EXCEPT ![e] = 0]
       \/ job[e] # "absent" /\ UNCHANGED <<job, attempts, stalls>>
    /\ UNCHANGED <<stored, run, step, walletVars>>

\* Postgres or the queue fails: answered 500, and Stripe sends it again.
Refuse(d) ==
    /\ \E from \in {"sent", "creating", "adding"} : Deliver(d, from, "refused")
    /\ UNCHANGED <<stored, job, attempts, stalls, run, step, walletVars>>

-----------------------------------------------------------------------------
(***************************************************************************)
(* StripeWebhookProcessor.process.                                         *)
(***************************************************************************)
IsLock(e) == Kind[e] \in {"lock", "unlock"}
BetweenHalves(w) == step[w] = "redis" /\ IsLock(run[w])

Take(w, e) ==
    /\ step[w] = "idle" /\ job[e] = "waiting" /\ job' = [job EXCEPT ![e] = "active"]
    /\ run' = [run EXCEPT ![w] = e] /\ step' = [step EXCEPT ![w] = "handle"]
    /\ UNCHANGED <<stored, attempts, stalls, at, walletVars>>

Goto(w, from, to) == step[w] = from /\ step' = [step EXCEPT ![w] = to]

\* The transaction of addBalance, lockWallet or unlockWallet, or the entry of
\* a lost dispute.
Commit(w) ==
    LET e == run[w] IN
    /\ step[w] = "handle" /\ Kind[e] # "none"
    /\ step' = [step EXCEPT ![w] = IF Kind[e] = "chargeback" THEN "mark" ELSE "redis"]
    /\ entries' = [entries EXCEPT ![e] = @ + 1]
    /\ locked' = CASE Kind[e] = "lock" -> TRUE [] Kind[e] = "unlock" -> FALSE [] OTHER -> locked
    /\ crossed' = (crossed \/ (IsLock(e) /\ \E v \in Workers : BetweenHalves(v)))
    /\ UNCHANGED <<deliveryVars, run, cached, flag, repeats>>

\* No owner, no amount, or an event that no handler writes for.
HandleNothing(w) ==
    /\ Goto(w, "handle", "mark") /\ Kind[run[w]] = "none"
    /\ UNCHANGED <<deliveryVars, run, walletVars>>

\* Stripe or Postgres fails, or the wallet would exceed its maximum.
HandlerThrows(w) ==
    /\ Goto(w, "handle", "catch") /\ UNCHANGED <<deliveryVars, run, walletVars>>

\* INCRBY of the balance, SET or DEL of the lock flag.
UpdateRedis(w) ==
    LET e == run[w] IN
    /\ Goto(w, "redis", "mark")
    /\ cached' = [cached EXCEPT ![e] = IF Kind[e] = "topup" THEN @ + 1 ELSE @]
    /\ flag' = CASE Kind[e] = "lock" -> TRUE [] Kind[e] = "unlock" -> FALSE [] OTHER -> flag
    /\ UNCHANGED <<deliveryVars, run, entries, locked, repeats, crossed>>

\* Mutation: lockWallet and unlockWallet swallow the error as addBalance does.
RedisFails_Swallowed(w) ==
    /\ Goto(w, "redis", "mark") /\ UNCHANGED <<deliveryVars, run, walletVars>>

\* addBalance swallows the error, lockWallet and unlockWallet do not.
RedisFails(w) ==
    /\ step[w] = "redis" /\ Goto(w, "redis", IF IsLock(run[w]) THEN "catch" ELSE "mark")
    /\ repeats' = [repeats EXCEPT ![run[w]] = IF IsLock(run[w]) THEN @ + 1 ELSE @]
    /\ UNCHANGED <<deliveryVars, run, entries, cached, locked, flag, crossed>>

Mark(w) ==
    /\ Goto(w, "mark", "complete") /\ stored' = [stored EXCEPT ![run[w]] = "processed"]
    /\ UNCHANGED <<job, attempts, stalls, at, run, walletVars>>

Wrote(e) == Kind[e] # "none"

MarkFails(w) ==
    /\ Goto(w, "mark", "catch")
    /\ repeats' = [repeats EXCEPT ![run[w]] = IF Wrote(run[w]) THEN @ + 1 ELSE @]
    /\ UNCHANGED <<deliveryVars, run, entries, cached, locked, flag, crossed>>

Idle(w) == run' = [run EXCEPT ![w] = NoEvent] /\ step' = [step EXCEPT ![w] = "idle"]

\* Mutation: a failed attempt is put back without being counted.
Rethrow_Uncounted(w) ==
    /\ step[w] = "catch" /\ Idle(w) /\ job' = [job EXCEPT ![run[w]] = "waiting"]
    /\ UNCHANGED <<stored, attempts, stalls, at, walletVars>>

\* The error is noted in the row, whether or not that works, and thrown again.
Rethrow(w) ==
    LET e == run[w] IN
    /\ step[w] = "catch" /\ Idle(w) /\ attempts' = [attempts EXCEPT ![e] = @ + 1]
    /\ job' = [job EXCEPT ![e] = IF attempts'[e] < Attempts THEN "waiting" ELSE "failed"]
    /\ UNCHANGED <<stored, stalls, at, walletVars>>

Complete(w) ==
    /\ step[w] = "complete" /\ Idle(w) /\ job' = [job EXCEPT ![run[w]] = "completed"]
    /\ UNCHANGED <<stored, attempts, stalls, at, walletVars>>

\* The process of the worker dies and is started again; its job stays active.
Crash(w) ==
    LET e == run[w] IN
    /\ step[w] # "idle" /\ Idle(w)
    /\ repeats' = [repeats EXCEPT ![e] =
                      IF Wrote(e) /\ step[w] \in {"redis", "mark", "complete"} THEN @ + 1 ELSE @]
    /\ UNCHANGED <<deliveryVars, entries, cached, locked, flag, crossed>>

-----------------------------------------------------------------------------
(***************************************************************************)
(* BullMQ.                                                                 *)
(***************************************************************************)
\* An active job that no worker renews the lock of.
Stalled(e) ==
    /\ job[e] = "active" /\ \A w \in Workers : run[w] # e
    /\ stalls' = [stalls EXCEPT ![e] = @ + 1]
    /\ job' = [job EXCEPT ![e] =
                  IF stalls[e] < MaxStalls THEN "waiting" ELSE "failed"]
    /\ UNCHANGED <<stored, attempts, at, run, step, walletVars>>

\* A completed job is kept for a day, a failed one for a week: longer than a
\* delivery takes from reading the row to adding the job.
Forget(e) ==
    /\ job[e] \in {"completed", "failed"} /\ job' = [job EXCEPT ![e] = "absent"]
    /\ \A d \in Deliveries : EventOf[d] = e => at[d] \notin {"creating", "adding"}
    /\ UNCHANGED <<stored, attempts, stalls, at, run, step, walletVars>>

Controller(d) == Find(d) \/ Create(d) \/ Add(d) \/ Refuse(d)

Process(w) ==
    \/ Commit(w) \/ HandleNothing(w) \/ HandlerThrows(w)
    \/ UpdateRedis(w) \/ RedisFails(w) \/ Mark(w) \/ MarkFails(w)
    \/ Rethrow(w) \/ Complete(w)

Next ==
    \/ \E d \in Deliveries : Controller(d)
    \/ \E w \in Workers : Process(w) \/ Crash(w) \/ \E e \in Events : Take(w, e)
    \/ \E e \in Events : Stalled(e) \/ Forget(e)

Spec == Init /\ [][Next]_vars

\* Workers run, and BullMQ finds the jobs of dead workers.
FairSpec ==
    /\ Spec
    /\ \A w \in Workers : WF_vars(Process(w)) /\ WF_vars(\E e \in Events : Take(w, e))
    /\ WF_vars(\E e \in Events : Stalled(e))

-----------------------------------------------------------------------------
(***************************************************************************)
(* What holds.                                                             *)
(***************************************************************************)
\* An event that is marked as processed has been written to the ledger, if
\* it is of a kind that is (process: the mark comes after the handler).
ProcessedIsWritten ==
    \A e \in Events : stored[e] = "processed" /\ Wrote(e) => entries[e] > 0

\* Duplicate and concurrent deliveries alone never write an event twice: each
\* entry after the first is that of an attempt that failed or died after it.
EntriesExplained == \A e \in Events : entries[e] <= repeats[e] + 1

\* Redis is never ahead of the ledger: no crash or retry adds to the cached
\* balance what was not committed (addBalance).
CacheBehindLedger == \A e \in Events : cached[e] <= entries[e]

\* The job of e has used up its attempts.
GaveUp(e) == attempts[e] = Attempts \/ stalls[e] > MaxStalls

\* An event that Stripe was told is received, and so never sends again, has a
\* job until it is processed or its job has failed for good (handleWebhook).
ReceivedIsKept ==
    \A d \in Deliveries : at[d] = "acked" =>
        LET e == EventOf[d] IN job[e] # "absent" \/ stored[e] = "processed" \/ GaveUp(e)

\* A received event is processed or given up after finitely many attempts.
ReceivedIsSettled ==
    \A e \in Events :
        (\E d \in Deliveries : EventOf[d] = e /\ at[d] = "acked")
            ~> (stored[e] = "processed" \/ GaveUp(e))

Past(w) == step[w] \in {"redis", "mark", "complete"} /\ Wrote(run[w])

\* A worker's event has an active job of which it is the only worker; a job
\* that is not over has attempts left; what is complete is processed.
QueueInv ==
    /\ \A w \in Workers : (step[w] = "idle") = (run[w] = NoEvent)
    /\ \A w \in Workers : run[w] # NoEvent => job[run[w]] = "active"
    /\ \A w, v \in Workers : run[w] = run[v] /\ run[w] # NoEvent => w = v
    /\ \A w \in Workers : step[w] = "complete" => stored[run[w]] = "processed"
    /\ \A e \in Events : job[e] \in {"waiting", "active"} => ~GaveUp(e)
    /\ \A e \in Events : job[e] = "failed" => GaveUp(e)
    /\ \A e \in Events : job[e] = "completed" => stored[e] = "processed"
    /\ \A d \in Deliveries :
          at[d] = "adding" => /\ stored[EventOf[d]] # "absent"
                              /\ stored[EventOf[d]] = "processed" => job[EventOf[d]] # "absent"

\* An event has one entry more than failed attempts only while a worker is
\* past its transaction, or when it is done for good.
LedgerInv ==
    /\ \A w \in Workers : Past(w) => entries[run[w]] > 0
    /\ \A w \in Workers : step[w] = "redis" => Wrote(run[w]) /\ cached[run[w]] < entries[run[w]]
    /\ \A e \in Events :
          \/ entries[e] <= repeats[e] \/ job[e] = "completed"
          \/ job[e] = "absent" /\ stored[e] = "processed"
          \/ \E w \in Workers : run[w] = e /\ Past(w)

Unfinished(e) == IsLock(e) /\ repeats[e] > 0 /\ job[e] # "completed"

\* The lock in Postgres and the flag in Redis agree, unless some lock or
\* unlock is between its two halves or is still to be retried, has failed for
\* good, or two of them crossed (lockWallet, unlockWallet, retried by the job).
LockFlagAgrees ==
    \/ locked = flag \/ crossed
    \/ \E w \in Workers : BetweenHalves(w)
    \/ \E e \in Events : Unfinished(e)

\* Unless two of them crossed, one lock or unlock at most is between its
\* halves, and the next thing it does is right; what disagrees is the doing of
\* one that is there or that an attempt did not finish and none repeated yet.
LockInv == ~crossed =>
    /\ \A w, v \in Workers : BetweenHalves(w) /\ BetweenHalves(v) => w = v
    /\ \A w \in Workers : BetweenHalves(w) => locked = (Kind[run[w]] = "lock")
    /\ \/ locked = flag
       \/ \E w \in Workers : BetweenHalves(w)
       \/ \E e \in Events :
             Unfinished(e) /\ \A w \in Workers : run[w] = e => step[w] \notin {"mark", "complete"}

\* The inductive invariant.
PipelineInv ==
    /\ TypeOK /\ QueueInv /\ LedgerInv
    /\ ProcessedIsWritten /\ EntriesExplained /\ CacheBehindLedger /\ ReceivedIsKept

IInv == PipelineInv /\ LockInv
=============================================================================
