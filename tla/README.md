# Omniway gateway: TLA+ models, checks and proofs

Omniway is a gateway to LLM providers, written in TypeScript on NestJS. Clients
call `/v1/chat/completions` and `/v1/messages` with an API key; the gateway
authenticates, limits, charges, forwards to an upstream provider, and records
usage. Hot state lives in Redis, the books in Postgres (Prisma), slow work in
BullMQ queues, and money comes in through Stripe. This directory holds the TLA+
models of that logic, the TLC configurations that check them, and TLAPS proofs.

Paths below are relative to `src/src/modules/` unless they start with `src/`.

## 1. Inventory

| Component | State | Operations | Interacts with |
|---|---|---|---|
| billing (`billing/`) | Redis `allow:used`, `wallet:balance_cents`, `wallet:locked`, `idem:billing`, `idem:refund`, `refund:{date}`, `idem:response`; Postgres `wallet_balances`, `wallet_ledger` | `chargeBilling` (billing.lua), `recordCharge`, `rollbackRedis`, `processRefund` (refund.lua), `rollbackRefund`, `addBalance`, `lockWallet`, `unlockWallet`, `getBalance`, `reconcile` | guard pipeline, gateway controller, Stripe processor, admin |
| pricing (`billing/model-pricing.service.ts`) | memory cache (5 min), Redis (10 min), Postgres | `getModelPricing`, invalidate, preload | charge, admin |
| gateway pipeline (`gateway/gateway.controller.ts`, guards) | fields on the request | guards Auth, RateLimit, Concurrency, ModelAccess, Billing, then proxy | everything |
| proxy and stream (`gateway/proxy.service.ts`, `gateway/stream/`) | stream status, first-byte flag, timer | forward, stream transform, metrics callback | circuit breaker, refund |
| circuit breaker (`gateway/circuit-breaker.service.ts`) | one Redis value for each provider (`status`, `failures`, `nextRetry`) with a TTL | `isOpen`, `recordSuccess`, `recordFailure` | proxy |
| rate limiting (`rate-limit/`) | Redis counters per minute, hour, day; concurrency counter | `checkRateLimit`, `acquireConcurrency`, `releaseConcurrency` (Lua) | pipeline |
| Stripe (`stripe/`) | Postgres `stripe_events`, `subscriptions`, `stripe_customer_id` of an owner; BullMQ job | webhook controller, processor and its handlers; checkouts and customers | wallet, policy cache |
| usage (`usage/`) | BullMQ jobs; Postgres `request_events`, `usage_daily` | `emitRequestCompleted`, insert, aggregate | gateway |
| auth (`auth/`) | Redis API-key and policy caches; Postgres keys, plans, subscriptions | `validateApiKey`, `getPolicy`, revoke, invalidate | pipeline, admin, account, Stripe |
| model registry (`gateway/model.service.ts`) | memory and Redis caches | `getModel`, invalidate | guard, proxy, admin |
| admin (`admin/`) | Postgres; writes the wallet caches | adjust wallet, plans, models, pricing, keys | billing, auth |
| account (`account/`) | Postgres organisations, members, keys | invite, role, remove, create, revoke | auth |
| request-count guards (`admin/guards`, `account/guards`) | Redis counter | `INCR` then `EXPIRE` | admin, account |
| platform (`prisma`, `redis`, `health`, `config`, `common`) | none of its own | wrappers, probes, filters | all |

### How the parts interact

A call passes the guards in the order `Auth → RateLimit → Concurrency →
ModelAccess → Billing` (`gateway/gateway.controller.ts:68-75`), and then the
handler, which forwards it through the proxy. Each guard leaves its result on
the request; the controller uses these fields later, when the reply is over, to
release the slot, cache the answer and decide on a refund. There is no lock and
no shared memory between processes: what is atomic is one Lua script, one Redis
command or one Postgres transaction, and everything between two `await`s. The
two stores are never written in one step. Stripe's events reach the wallet
through a row, a BullMQ job and a worker.

### What is hard, and what correctness means

| Part | Hard because | Correct when |
|---|---|---|
| billing | Redis decides and Postgres records, in two awaited steps, each of which fails on its own; retries carry the same request id; a rollback has three steps of its own | no money appears or vanishes in one store only; one payment per request id; a refund gives back one payment; nothing is forwarded before it is paid |
| wallet cache | the copy is filled from a row read earlier, expires, and is overwritten by adjustments; several workers fill, credit and lock it at once | the copy differs from the row by the steps in flight, and by those that were in flight during a fill, once each; a lock is undone only by a job that was overtaken between its reading and its writing of the flag |
| circuit breaker | its value is read and written in separate commands, by all instances | no failures are invented; it opens with cause, and does not stay half-open |
| streams | reader, timer, client and controller end one stream in any order | one report; a refund exactly for an upstream that failed before the first byte; every stream ends |
| limits | keys named before the script runs; slots lost and expired | a window never admits more than its limit; the excess over the maximum is explained; slots come back |
| Stripe events | duplicated, concurrent and late deliveries; attempts that fail after they wrote; workers that die | what is acknowledged is kept and settled; what is processed was written; duplicates alone write nothing twice |
| subscriptions | events of one subscription come out of order and are retried behind others | handled in order they leave Stripe's status; a replaced subscription has no say |
| caches of keys and policies | invalidation races with filling, fails, or never comes | what is stale has a cause, and is gone a TTL and a call later |
| caches of models and prices | copies of copies, three lookups by one call, nobody invalidates | a catalogue left alone refuses no paid call; no old price stays alive |
| Stripe's customers | two checkouts of one owner each create one; disputes of several charges share one lock | the wallet behind a charge is found, unless customers were created at once; the lock follows the disputes |
| counters of a day | keys named by the clock of each command, midnight in between | a day's allowance and refund cap hold for the day that was named |
| usage | retried jobs, two writes, a request id that anyone may choose | a day counts what is stored, what was skipped, and each repeated attempt |
| membership | permission read before the write | the last owner goes only by leaving or past a stale check; members come in by invitation |

## 2. Modules

Every module says at its head what it abstracts. One action is one awaited
command, script or transaction, or one turn of the event loop; a failing
command is an action too. A process that dies between two awaits is a process
that takes no further step, which every `Spec` allows.

| Module | Models | State and actions |
|---|---|---|
| `WalletContract` | what the books of one wallet promise | `Pay`, `GiveBack`, `TopUp`: each id is paid at most once and given back at most once, each top-up counts once |
| `Billing` | `chargeBilling`, `billing.lua`, `recordCharge`, `rollbackRedis`, `processRefund`, `refund.lua`, `rollbackRefund`, the Redis half of `addBalance` and its transaction, and the parts of the controller that replay, forward and refund | the Redis keys, the row and the ledger, `pc` of each call; implements `WalletContract` |
| `WalletCache` | the same balance when its Redis key may be absent: `getBalance`, `bootstrapWalletCache`, `addBalance`, `lockWallet`, `unlockWallet` at any number of Stripe workers, admin adjustments, expiry and loss of the keys | the key or `Absent`, lock flag, row, one program counter for each actor; histories of what was on its way during a fill or an adjustment |
| `CircuitBreaker` | `isOpen`, `recordSuccess`, `recordFailure` with their separate reads and writes, TTLs as `Tick` | `circuit`, `saw` (what a call has read and will act on) |
| `StreamWrapper` | `StreamMetricsWrapper`: first byte, `_flush`, `_destroy`, `handleUpstreamError`, `handleTimeout`, `isRefundEligible` | `phase`, `status`, `reported`, `refund` |
| `Proxy` | `ProxyService`, composing the two above: check, forward, record; what a stream reports is what the breaker hears | adds the calls' routes between the two |
| `Limits` | `checkRateLimit`, `acquireConcurrency`, `releaseConcurrency`, their scripts, later guards that throw, the controller's release | counters by window and index, slots and their TTL, the clock |
| `StripeWebhook` | `handleWebhook`, BullMQ's job, `process` and its wallet handlers, crashes, stalled jobs | row, job, attempts, workers; ledger entries by event; lock and flag |
| `Subscription` | the handlers of checkout, invoice and subscription events over the one row of an owner, events in any order, attempts that fail | `truth` at Stripe, `pending` and `queue` of events, `row`; a handler finds its row and updates it in two steps |
| `Access` | `AuthService.authenticate`: `validateApiKey` and `getPolicy` with their caches, revocation and invalidation by admin and account services, changes by Stripe | Postgres rows, TTLs of two Redis keys, a program counter for each call and each administrator's request |
| `Organization` | `AccountService`: `createOrganization`, `inviteMember`, `updateMemberRole`, `removeMember`, `createProject`, each as checks and one transaction | `founder`, `role`, `invited`, `project`; what each request asks and where it is |
| `Customer` | `StripeService`: `getOrCreateCustomerForUser`, `getOrCreateCustomerForOrg`, both checkouts; the processor's `handleDisputeCreated`, `handleDisputeClosed` for several disputes of one owner | `customer` and lock in Postgres; sessions, charges and disputes at Stripe |
| `Daily` | the two counters that are named by the UTC date: the allowance of `chargeBilling`, and the refund cap with `rollbackRefund` | counters, TTLs and clock; where each call is and which date it has named |
| `Usage` | what the controller emits after a reply, the BullMQ job, `UsageEventsProcessor.process` with its two writes, deaths of workers | job, attempts, `row` by request id, `requests` by owner and day |
| `Catalogue` | `getModel`, `getModelOrThrow`, `getModelPricing` with their caches in Redis and memory, the three lookups of a call, admin's writes | rows, copies with TTLs, stage and step of each call |
| `MC*` | instances for TLC | |
| `BillingProofs`, `WalletCacheProofs`, `ProxyProofs`, `LimitsProofs`, `StripeProofs`, `AccessProofs`, `CatalogueProofs`, `OwnerProofs` | theorems and proofs; `LimitsProofs` is about `Limits` and `Usage`, `OwnerProofs` about `Organization`, `Customer`, `Daily` and `Subscription` | |

The names follow the source (`RecordCharge` is `recordCharge`, and so on); the
map in `PROJECT.json` gives the lines of each definition. A definition with a
suffix (`Add_NoJobId`, `Under_OrAt`) and the comment "Mutation" is not part of
any specification: it is a plausible bug, put in place of the definition it is
named for to see that a property notices.

Assumptions of the models, each of which hides something real:

- A command or transaction that reports failure had no effect, and one that
  succeeds was carried out once. `WalletCache` alone goes beyond that: there a
  charge may be recorded and reported as failed, and an `INCRBY` be sent again by
  the Redis client (`maxRetriesPerRequest`, `src/src/redis/redis.module.ts:19`)
  and count twice. Lost replies that make the code do nothing more need no action
  of their own: they leave what a process leaves that dies there.
- `Billing` covers one owner, one price and one UTC day; the calls that a policy
  lets pay, and those that stream, are constants. `WalletCache` supplies the
  cold cache.
- In `WalletCache`, `CircuitBreaker` and the slots of `Limits` a TTL is an
  expiry that comes at some time after it was set; `Limits` keeps a window's key
  to the end of its window. `Access` and `Catalogue` measure TTLs in ticks,
  since their properties are bounds on time, and assume that a call gets through
  within `Hold` ticks: a call that waited longer between a load and its fill
  would add its delay to the bound, which is why `Hold` is part of the bound.
- `Access` reads a subscription and its plan in one step, and models the rows of
  a key, an owner and a plan only as far as the cached values depend on them.
- In `Catalogue` an instance has one cache in memory; the run has one instance,
  as what a second one would do to the first (fill Redis before or after it) a
  second call of the same instance does too once its memory expired or the
  process restarted. (TLC also finishes with two instances and a TTL of 2 in
  Redis: 6.9 million states, too slow to keep.)
- Postgres transactions are taken to be serialised by the row they update
  (`increment` and `decrement`). Where the code reads a row outside its
  transaction (adjustments), the model reads and writes in two steps.
- `Organization` has one organization and one project slug. An invitation is
  accepted as its row says, by an external action: the repository creates
  invitations and does not accept them yet. `Throw` covers a failed check, a row
  that has gone and a Postgres error: none of them writes.
- `Customer` takes an event to be handled once and whole; its attempts, and the
  two halves of a lock, are in `StripeWebhook`. A customer is named by the
  checkout that created it. The two checkouts differ in what they sell, which
  `Begin` leaves out.
- In `Usage` one job carries one event, as `emitRequestCompleted` sends it, and
  tokens and costs are added exactly as the count is. The day of an event is that
  of its own time stamp, so midnight changes nothing.
- A worker that is alive keeps the BullMQ lock of its job. A completed or failed
  job is not removed while a delivery of its event is between its steps (days
  against milliseconds).

## 3. What the runs show

All passing runs finish their whole state space. Bounds are in the `.cfg` files.

| Run | Instance | Shows |
|---|---|---|
| `billing` | 4 calls: one and its retry with the same id, a stream that the wallet pays for, a stream without wallet access; 1 top-up; allowance 1, refund cap 1, balance for one payment and a half | the balances differ by exactly the steps in flight or abandoned (`StoresReconcile`), and agree in the end if nothing was abandoned (`StoresConverge`); one charge per id; refunds match charges; overdraft only by refunds spent before their rollback; replays have an origin; Postgres implements `WalletContract` |
| `wallet` | two workers, cold start, credits that pass the maximum together, one loss of the keys or of a reply; one of eight casts of up to 2 calls, 3 top-ups, 2 disputes and 1 adjustment | the filled balance agrees but for what was on its way during a fill, each charge or top-up once; an adjustment takes from the row, or gives back, exactly what was recorded between its reading and its writing; only what was on its way during a fill, or left by a lost reply, is spent twice; the maximum is exceeded by one credit of the other worker, by what a fill forgot and by charges in flight, at most; the flag differs from the lock only if a job that another had overtaken wrote it last |
| `proxy` | 4 calls, one a stream, threshold 2 | the breaker invents no failures; each stream calls `onMetrics` once, is refunded exactly when due, and ends; half-open ends |
| `limits` | `Limits`: 3 calls, 2 windows, limits 1 and 2, one slot. `Usage`: two owners who send the same request id, two events, two attempts, one stall | the limit of each window, the bound on slots, slots come back; a day of usage counts the events stored, those skipped, and once more for each attempt that died after it had counted; what is queued is settled |
| `owner` | `Organization`: three users, two requests at a time, two seats. `Customer`: three checkouts and their disputes. `Daily`: four calls, two days, allowance and cap 1 | the last owner goes only by leaving or past a stale check; members come in as founder or invited; a charge without a wallet belongs to a customer that was created beside another; the lock follows the disputes; allowance and cap of a day hold whatever midnight does |
| `stripe` | one of three batches of deliveries: a top-up twice, an event without handler, or a dispute that is opened and won; two workers, two attempts, one stall | duplicates alone write nothing twice; what is acknowledged is kept and settled; lock and flag agree unless an attempt is under way, unfinished or crossed |
| `subscription` | two subscriptions of one owner, four events, two workers, two attempts | events handled in Stripe's order leave Stripe's status; a replaced subscription does not write the row, unless the row is replaced between a find and an update |
| `access` | 2 calls, 2 administrators, one key, two versions of the plan, TTL 2, `Hold` 1 | a stale key or policy is about to be dropped, or one of three things went wrong: the drop failed, a call filled the cache late, Stripe made the change; in any case it is gone a TTL and a call after the change |
| `catalogue` | 2 calls, 1 instance, TTLs 2 (model), 3 (price in Redis), 2 (in memory), `Hold` 1 | a paid call is refused for want of its model only after a recent change; an old price is gone after both TTLs and two calls |

Why the bounds are enough to matter: a retry needs a second call with its id;
the overdraft needs three calls (a refund, a spender, a rollback); the cap of
one needs two refundable streams; a second call reads the breaker while a first
is between its read and its write and a third is counted; one slot and three
calls give a holder, a call without a slot that frees the holder's, and one that
comes in on it; two workers
and two deliveries let attempts overlap in every way; at two workers a fill can
overlap another fill, a credit, a lock or an unlock, and two checks of the
maximum each other, and a third top-up comes after two that crossed; four events are the least
in which a checkout, the change after it and the end of another subscription can
all be reordered; a TTL of 2 with calls of 1 lets a copy expire before, during
and after the call that made it, and a TTL in Redis longer than the one in
memory, as in the code (600 and 300 seconds), lets memory be filled from a copy
about to expire. Three users are an owner, a second one and an invited third;
a request that is over makes room for another, so two at a time are every pair
that can race. Three checkouts are the two whose customers overlap and one that
comes after them. Four calls and two days let a day fill its allowance, have a
refund at its cap and take a rollback from the day before. For `Usage` two owners
with one request id are the least of which one is skipped, and two events of one
call the case of an emission that fails after the job was added; the attempts of
a job are those of the code less one.

`MCOwner` and `MCLimits` hold several modules that share no state. One of them
moves while the others are where they begin, so TLC goes through each state
space once and not through their product. In `MCWalletCache` all actors at once
are too many: a behaviour begins with the choice of a cast, and the casts bring
every kind of actor together with every other. Symmetry is used only for names
that nothing distinguishes; where liveness rules it out (`MCLimits`), such calls
come in the order of their names.

The proofs below remove the bounds from every safety property of the passing
runs. Their inductive invariants have been checked on these instances too; the
configurations leave them out for what they cost.

### Disagreements the runs exhibit

Each is a run whose one property states what a document, comment or test says,
and for which TLC finds a behaviour of the code that does otherwise.

| Run | Property | The code |
|---|---|---|
| `billing_misread` | `RefundResultUnambiguous` | an overdrawn balance of -1 or -2 cents looks like a refusal |
| `wallet_race` | `TopupsAllCount` | two workers lose or double a top-up in a cold cache |
| `proxy_streams` | `StreamFailuresHeard` | `_destroy` writes `ERROR` over `UPSTREAM_ERROR` and `TIMEOUT`, so the breaker never hears of a broken stream |

Others were met while modelling. The models contain them, and no run is spent on
them:

- A policy without wallet access gives price 0, which the script lets through
  uncounted after the allowance is used up (`ChargeFree`), against "soft-block"
  (`src/plans/IMPLEMENTATION_GUIDE.md:65`).
- Only a stream that began can be refunded: an upstream that refuses or fails at
  once keeps the charge (`UpstreamThrows`), against `IMPLEMENTATION_GUIDE.md:78`.
- A call refused by a guard after the concurrency guard keeps its slot until the
  counter expires (`LaterGuardThrows`), against `IMPLEMENTATION_GUIDE.md:3678`.
- Policies, prices and models have functions to drop their copies, meant to be
  called on a change (`auth/policy.service.ts:213`,
  `billing/model-pricing.service.ts:168`); Stripe's handlers and the writes of
  models and prices do not call them, so these changes wait for the TTL.
- The failed drop of a revoked key cannot be repeated: a second revocation is a
  conflict, and the key lives until its TTL (`DropKeyFails`).
- A late checkout or invoice makes a canceled subscription active again, and an
  update that comes before its checkout is dropped.
- An attempt that fails between the credit and the mark is repeated and credits
  again, since `process` does not look at the row; `EntriesExplained` is exact
  about it. `src/plans/COMPARISON_REPORT.md:54` counts on webhook idempotency.
- A job that failed for good blocks its id for a week, while later deliveries
  of its event are answered 200.
- After a charge was rolled back, a call can have been answered 409 "already
  processed" (`billing/guards/billing.guard.ts:128`, `:159`) for nothing.
- Several calls become probes, against "Allow one request through"
  (`gateway/circuit-breaker.service.ts:40`); the breaker is asked after billing.
- The processor of Stripe's events runs in the API and in the worker process
  (`src/src/app.module.ts:55`, `src/src/workers/worker.module.ts:33`), and its
  jobs of one owner are not serialised. A fill that read the row before a lock
  writes its flag after it, and calls are charged to a locked wallet until the
  next write (`TopupFlag`; `overtaken` is the exception in `LockAgrees` and
  `LockedNeverCharged`); the flag of a lock that is written after another
  process has unlocked leaves Redis locked. Two top-ups that check the maximum before either credits exceed it,
  against "Validate max balance constraint" (`billing/wallet.service.ts:190`).
- One lock serves all disputes of an owner: the first that is won unlocks, and
  one whose opening is handled after its closing locks for good (`LockHeld`,
  `LockExplained`).
- Two checkouts of a new owner create two customers, and the charges of the one
  that is overwritten have no owner: their disputes are dropped (`DropEvent`).
- The last owner of an organization can leave it (`RemoveMember`), and two who
  demote each other leave it without any. A member made owner meanwhile is
  removed all the same. Invitations do not count against the seats.
- After midnight a rollback takes from the new day's counter, which lets that
  day refund once more than the cap, against `IMPLEMENTATION_GUIDE.md:85` ("Max
  10 refunds per owner per day"); a counter that was absent is left at -1 without
  a TTL (`RollbackRefund`).
- "skipDuplicates handles idempotency" (`usage/usage-events.processor.ts:90`)
  is true of the events only: the aggregates are incremented again by an attempt
  after a death, and by a request id that was used before.
- If queueing the event of an answered call fails, the catch reports the call
  again, as failed (`EmitThrows`); if the job was added all the same there are
  two.
- The status `unpaid` of a subscription becomes `ACTIVE`.

## 4. Fairness

Only the liveness properties use it, and only steps that the runtime owes.

- `Billing`: a handler that was entered runs to its end, since every await is
  answered, with success or failure. No client, buyer or dispute is obliged.
- `Proxy`: commands are answered; the request's abort timer and the stream's
  duration timer go off (`setTimeout`); Redis expires keys (`Tick`). An upstream
  that answers, or ends its stream, is not assumed.
- `Limits`: Redis expires a key that has a TTL. Nothing else is fair, so
  `SlotsComeBack` does not count on any call to release.
- `Usage`: a worker takes a waiting job and its steps, and BullMQ's check finds
  the jobs of dead workers, as for Stripe's events; deaths are bounded for each
  job in the same way. No controller is obliged to emit.
- `StripeWebhook`: a worker takes a waiting job and takes its steps; BullMQ's
  check finds stalled jobs. Crashes are not fair and are bounded for each job by
  its `attempts` and stalls, after which it fails.

`Subscription`, `Access` and `Catalogue` state no liveness: what they promise in
time is a bound in ticks, which is a safety property. Nor do `Organization`,
`Customer` and `Daily`: what they wait for is a client, Stripe or the clock.

Deadlock is not checked where the modelled system may come to rest: calls end,
deliveries stop, jobs complete (`limits`, `stripe`, `subscription` and the
like). In `Billing` the lock flag can always change, so its runs leave the check
on, and it says little.

## 5. Proofs

The theorems hold for every number of calls, ids, workers, events and limits,
from the named assumptions on the constants. These ask that sets which are
counted be finite, and that limits, prices and TTLs be numbers; beside that
`Access` has at least one version of the plan, `Usage` at least one day, and
actors of different kinds in `WalletCache` have different names.

- `BillingProofs`. `StoresReconcile` is not inductive: a refund is written only
  for a call whose charge is in the ledger, an id is freed only by its owner,
  and the cap is kept by a counter that failed undos leave too high. `IInv`
  joins the two balance equations and the overdraft bound with where ledger
  entries are (`LedgerFollowsHandlers`), which call owns an id (`IdsAreTaken`)
  and what the counter counts (`CountFollowsRefunds`). Balances change by one
  price when one call enters or leaves a set, so most of the argument is a lemma
  on cardinalities of `At(S)` (`MoveCents`), and one lemma for each handler.
  `LedgerImplementsContract` maps each step to a step of `WalletContract` or a
  stutter. `ReplayHasOrigin` needs besides that a call that was let through
  carries the source its id was billed to, and that a cached answer is one a
  call completed with (`AnswersFollowKeys`); that call stays completed
  (`AnsweredStays`).
- `WalletCacheProofs`. `CacheInv` bounds a balance in Redis from both sides by
  the row less what is in flight, and the slack is what was on its way while a
  fill was between its reading and its SET (`crossed`, a history). The same
  bounds hold of what each fill has read, which is why its SET keeps them;
  `CrossInv` says that whoever is uneven during a fill is in `crossed`. How many
  workers there are does not matter to it. `MaximumKept` is where their number
  counts: `BusyInv` bounds the jobs under way by `Workers`, and `LimitInv` says
  that the bound on the row has room for the credits of all top-ups that passed
  the check and have not credited. It starts from a balance within the maximum.
  `SpendInv` is for keys that get lost: whatever Redis may still be charged, or
  will be after a fill, is in the row, crossed a fill, or was left by a lost
  reply (`Covered`). `LockInv` says that what a fresh job knows of the lock is
  what the row says, so that only a job that was overtaken leaves a difference.
  `MissedInv` and `EraseInv` relate the row to its ledger and to the reading of
  each adjustment: what is missing is what was recorded since. Several disputes
  share the flag, and the first that is won unlocks it for all:
  `LockedNeverCharged` promises nothing after the first unlock.
- `ProxyProofs`. `CallsExplained` says of a call between its read and its write
  that what it carries is covered by the failures counted so far, and that its
  own is already among them when it writes. `StreamShape` ties phase, status and
  cause. Breaker and streams are proved apart (`Halves`).
- `LimitsProofs`. The slots lie between two cardinalities: calls in progress
  less the untracked, and those in progress that took a slot plus the leaked. A release at zero
  is where both are needed. The rate half is an equality between a counter and
  the calls that named it, kept by a call's fixed stamp. For `Usage`, `JobInv`
  says where a job, its queue entry and its row are by the step of its worker,
  and `RowsAdd` that a day's count is the size of two sets: the events counted,
  and the attempts that died after counting (a history variable). An event that
  was counted has a row under its request id, its own or another's (`RowFirst`):
  it is stored or skipped.
- `StripeProofs`. The job id makes the worker of an event unique; a worker past
  its transaction accounts for the one entry that failed attempts do not, until
  the job is completed or forgotten after it was processed (`LedgerInv`).
  `LockInv` says who is to blame when lock and flag differ.
- `AccessProofs`. A copy with a cause is inductive as it stands, given that what
  a call holds was right when the call came (`FreshKeys`, `FreshPolicies`): a
  call that is about to fill is then itself the cause. The bounds are sums: the
  age of a fact plus the TTL of its copy never exceeds `Ttl + Hold`, since a
  copy is made when the fact is at most `Hold` old and loses a tick of TTL with
  each of age.
- `CatalogueProofs`. The same with one more hand. What each copy or call holds
  has an age of at most what the hands before it allow (`ModelAges`,
  `PriceAges`): a copy in memory made from one in Redis that was about to expire
  is the worst. For a call that is refused at its third lookup only the age of
  the copy that let it pass the first counts, which is why three lookups need
  one TTL.
- `OwnerProofs`. `Organization` needs its types only: what it promises is about
  single steps, and `StillPermitted` puts the blame on a check that has gone
  stale. `Customer` rests on `CreatorsOverlap` and `SavedOverlaps`: whoever is
  creating a customer beside another is marked, and so is a saved customer that
  someone is about to overwrite; the lock needs besides that only charged
  checkouts are disputed. `Daily` adds `PlacesInv`, which says of each state of
  a call whether it has been counted; each script then moves one call into or
  out of one of the two sets whose sizes the counter stands for. `Subscription`
  needs that an event is in the queue or in one hand, never two (`OnePlace`), or
  it could be over twice; `InOrder`, that the events of a subscription none of
  whose events was missed are over oldest first; and `RowWritten`, that the row
  says what the youngest of them means, or the one after it if an attempt failed
  after its update. Both hold in the middle of retries, where
  `StatusFollowsStripe` itself says nothing.

Only model-checked: liveness (`StoresConverge`, `StreamsEnd`, `HalfOpenEnds`,
`SlotsComeBack`, `ReceivedIsSettled`, `QueuedIsSettled`), since the prover has
no rules for fairness here. Every other property of a passing run is a theorem.
`LedgerBalances`, `RefundsWithinCap`, `PaidBeforeProxied`, `ProcessedIsWritten`
and `CacheBehindLedger` are proved and no longer have runs of their own. The
Stripe kind `chargeback` is covered by the proofs and by no run.

## 6. Not modelled, and the plan

The order follows what matters most. Each line is one module, with its instance
and, where it says so, its proofs.

1. That `Billing` with a warm cache is what remains of `WalletCache` when nothing
expires and no reply is lost: a refinement, with the calls of one mapped to those
of the other.
2. What a usage day or a limit promises, as a specification of its own that
`Usage` and `Limits` implement, in the way `WalletContract` is for `Billing`.
3. The lost replies of `WalletCache` in `Billing`, where they take one more
payment per request id out of the ledger.
4. The attempts of `StripeWebhook` under the disputes of `Customer`.

New runs take the place of those whose question a proof has settled. Not planned:
validation and mapping of bodies, JWT and key hashing, listings and reports,
profiles and preferences, `reconcile` and `forceReset` (which nothing calls), the
counters that limit admin and account requests (`INCR` on a key that names its
window, so a missed `EXPIRE` changes no decision), health checks, logging and
start-up, which have no state that a model could get wrong,
and the Stripe API itself.
