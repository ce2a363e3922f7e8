----------------------------- MODULE WalletCache -----------------------------
(***************************************************************************)
(* How the Redis copy of one owner's wallet (balance and lock flag) is     *)
(* filled, changed and lost, next to the Postgres row it copies.           *)
(*                                                                         *)
(* Billing takes the copy as given; here it may be absent (a cold start, a *)
(* flush, the TTL that an admin adjustment puts on it).  Four kinds of     *)
(* actors meet: top-up jobs (addBalance with its getBalance and            *)
(* bootstrapWalletCache), dispute jobs (lockWallet, unlockWallet), admin   *)
(* adjustments (adjustUserWallet, adjustOrgWallet) and paid calls.  Top-up *)
(* and dispute jobs are run by the Stripe queue's workers, one in each API *)
(* and worker process, each of which takes one job at a time.  Every       *)
(* action is one awaited command or transaction.                           *)
(***************************************************************************)
EXTENDS Integers, FiniteSets

CONSTANTS
    Calls,        \* calls that the wallet has to pay for
    Topups,       \* addBalance jobs
    Disputes,     \* disputes, each opened and later closed
    Adjustments,  \* admin adjustments
    Price, Credit,
    Amount,       \* [Adjustments -> Int], amountCents of each
    Opening,      \* balance_cents at the start
    Warm,         \* whether Redis holds the balance at the start
    MaxBalance,   \* BILLING_CONSTANTS.MAX_WALLET_BALANCE_CENTS
    Workers,      \* Stripe workers: jobs in progress at once
    MaxFaults,    \* bound: how often Redis loses its keys, or a reply is lost
    Absent        \* the key does not exist

ASSUME WalletCacheAssumption ==
    /\ IsFiniteSet(Calls) /\ IsFiniteSet(Topups) /\ IsFiniteSet(Disputes)
    /\ IsFiniteSet(Adjustments) /\ Amount \in [Adjustments -> Int]
    /\ Calls \cap Topups = {} /\ Topups \cap (Disputes \cup Adjustments) = {}
    /\ Price \in Nat \ {0} /\ Credit \in Nat \ {0}
    /\ Opening \in Nat /\ MaxBalance \in Nat /\ Warm \in BOOLEAN
    /\ Workers \in Nat \ {0} /\ MaxFaults \in Nat /\ Absent \notin Int

VARIABLES
    key,         \* Redis: wallet:{owner}:balance_cents, or Absent
    expiring,    \* Redis: the key has a TTL
    lockFlag,    \* Redis: wallet:{owner}:locked
    db,          \* Postgres: balance_cents
    dbLocked,    \* Postgres: is_locked
    ledger,      \* Postgres: sum of the amounts in wallet_ledger
    cpc, tpc, dpc, apc,   \* where each call, top-up, dispute, adjustment is
    seen,        \* what each top-up or adjustment has read of the row
    redisFailed, \* history: a Redis command failed and was not repeated
    flushes,     \* history: losses of the Redis keys
    unheard,     \* history: calls whose charge was recorded and reported as failed
    repeated,    \* history: calls and top-ups whose INCRBY was carried out twice
    crossed,     \* history: calls and top-ups uneven during a fill
    missed,      \* history: calls and top-ups recorded while an adjustment was
                 \* between its reading and its writing
    fresh,       \* history: jobs whose value of the lock is still the row's
    overtaken    \* history: the last write of the flag was by a job not fresh

redis == <<key, expiring, lockFlag>>
rows  == <<db, dbLocked, ledger>>
pcs   == <<cpc, tpc, dpc, apc>>
lost  == <<unheard, repeated>>
marks == <<crossed, missed>>
turns == <<fresh, overtaken>>
past  == <<redisFailed, flushes, lost, marks, turns>>
vars  == <<redis, rows, pcs, seen, past>>

CallState    == {"arrived", "recording", "unwinding", "charged", "rejected", "undone", "leaked"}
TopupState   == {"queued", "loading", "fallback", "filling", "flagging", "checked",
                 "crediting", "done", "tooMuch"}
DisputeState == {"opened", "locking", "locked", "unlocking", "unlockAgain", "closed"}
AdjustState  == {"asked", "read", "written", "reloaded", "done", "refused"}

\* What Redis, Postgres and the handlers may hold.
TypeOK ==
    /\ key \in Int \cup {Absent} /\ expiring \in BOOLEAN /\ lockFlag \in BOOLEAN
    /\ db \in Int /\ dbLocked \in BOOLEAN /\ ledger \in Int
    /\ cpc \in [Calls -> CallState] /\ tpc \in [Topups -> TopupState]
    /\ dpc \in [Disputes -> DisputeState] /\ apc \in [Adjustments -> AdjustState]
    /\ seen \in [Topups \cup Adjustments -> [cents : Int, locked : BOOLEAN]]
    /\ redisFailed \in BOOLEAN /\ flushes \in 0 .. MaxFaults
    /\ unheard \subseteq Calls /\ repeated \subseteq Calls \cup Topups
    /\ crossed \subseteq Calls \cup Topups /\ missed \subseteq Calls \cup Topups
    /\ fresh \subseteq Topups \cup Disputes /\ overtaken \in BOOLEAN

Init ==
    /\ key = IF Warm THEN Opening ELSE Absent
    /\ expiring = FALSE /\ lockFlag = FALSE
    /\ db = Opening /\ dbLocked = FALSE /\ ledger = 0
    /\ cpc = [c \in Calls |-> "arrived"] /\ tpc = [t \in Topups |-> "queued"]
    /\ dpc = [d \in Disputes |-> "opened"] /\ apc = [a \in Adjustments |-> "asked"]
    /\ seen = [j \in Topups \cup Adjustments |-> [cents |-> 0, locked |-> FALSE]]
    /\ redisFailed = FALSE /\ flushes = 0 /\ unheard = {} /\ repeated = {}
    /\ crossed = {} /\ missed = {} /\ fresh = {} /\ overtaken = FALSE

\* INCRBY creates an absent key, without a TTL, and keeps the TTL of another.
IncrBy(n) ==
    /\ key' = IF key = Absent THEN n ELSE key + n
    /\ UNCHANGED <<expiring, lockFlag>>
\* SET replaces the value and the TTL.
SetKey(n, ttl) == key' = n /\ expiring' = ttl

\* billing.lua takes an absent balance for '0'.
Balance == IF key = Absent THEN 0 ELSE key

Row == [cents |-> db, locked |-> dbLocked]

MayFail == flushes + Cardinality(unheard) + Cardinality(repeated) < MaxFaults

\* Calls and top-ups whose amount Redis and the row count differently.
InFlight == {c \in Calls : cpc[c] \in {"recording", "unwinding"}}
Owed     == {t \in Topups : tpc[t] = "crediting"}
Uneven   == InFlight \cup Owed \cup unheard \cup repeated

\* Fills that have read the row and not yet written its balance to Redis.
Filling == {t \in Topups : tpc[t] = "filling"}
Cross(x) == crossed' = IF Filling = {} THEN crossed ELSE crossed \cup {x}

\* One transaction on the row and the ledger, of a call or a top-up.
Record(x, amount) ==
    /\ db' = db + amount /\ ledger' = ledger + amount /\ UNCHANGED dbLocked
    /\ missed' = IF \E a \in Adjustments : apc[a] = "read" THEN missed \cup {x} ELSE missed

\* A job reads the row's lock, or sets it, which outdates what others know; and
\* it writes what it knows to Redis.
Know(j, locked)      == fresh' = (IF locked = dbLocked THEN fresh ELSE {}) \cup {j}
WriteFlag(j, locked) ==
    /\ lockFlag' = locked /\ UNCHANGED <<key, expiring>>
    /\ overtaken' = (j \notin fresh) /\ fresh' = fresh \ {j}

-----------------------------------------------------------------------------
(***************************************************************************)
(* Paid calls: billing.lua, recordCharge, rollbackRedis.                   *)
(***************************************************************************)
CallMove(c, from, to) ==
    cpc[c] = from /\ cpc' = [cpc EXCEPT ![c] = to] /\ UNCHANGED <<tpc, dpc, apc>>

\* Mutation: the script does not look at the lock flag.
Charge_IgnoresLock(c) ==
    /\ Balance >= Price
    /\ CallMove(c, "arrived", "recording")
    /\ IncrBy(-Price) /\ Cross(c)
    /\ UNCHANGED <<rows, seen, redisFailed, flushes, lost, missed, turns>>

Charge(c) ==
    /\ ~lockFlag /\ Balance >= Price
    /\ CallMove(c, "arrived", "recording")
    /\ IncrBy(-Price) /\ Cross(c)
    /\ UNCHANGED <<rows, seen, redisFailed, flushes, lost, missed, turns>>

\* Locked, or the balance is too low.
Reject(c) ==
    /\ lockFlag \/ Balance < Price
    /\ CallMove(c, "arrived", "rejected")
    /\ UNCHANGED <<redis, rows, seen, past>>

\* Mutation: the row is changed without an entry.
RecordCharge_NoEntry(c) ==
    /\ CallMove(c, "recording", "charged")
    /\ db' = db - Price
    /\ UNCHANGED <<redis, dbLocked, ledger, seen, past>>

RecordCharge(c) ==
    /\ CallMove(c, "recording", "charged")
    /\ Record(c, -Price)
    /\ UNCHANGED <<redis, seen, redisFailed, flushes, lost, crossed, turns>>

RecordChargeFails(c) ==
    /\ CallMove(c, "recording", "unwinding")
    /\ UNCHANGED <<redis, rows, seen, past>>

RollbackRedis(c) ==
    /\ \/ CallMove(c, "unwinding", "undone") /\ IncrBy(Price) /\ UNCHANGED redisFailed
       \/ CallMove(c, "unwinding", "leaked") /\ UNCHANGED redis /\ redisFailed' = TRUE
    /\ UNCHANGED <<rows, seen, flushes, lost, marks, turns>>

-----------------------------------------------------------------------------
(***************************************************************************)
(* The Stripe queue's jobs.                                                *)
(***************************************************************************)
Busy ==
    {t \in Topups : tpc[t] \notin {"queued", "done", "tooMuch"}}
        \cup {d \in Disputes : dpc[d] \in {"locking", "unlocking"}}
WorkerFree == Cardinality(Busy) < Workers

TopupMove(t, from, to) ==
    tpc[t] = from /\ tpc' = [tpc EXCEPT ![t] = to] /\ UNCHANGED <<cpc, dpc, apc>>

\* The check of MAX_WALLET_BALANCE_CENTS against what was read.
\* Mutation: the check compares the balance before the top-up.
Checked_Current(balance) == IF balance > MaxBalance THEN "tooMuch" ELSE "checked"
Checked(balance) == IF balance + Credit > MaxBalance THEN "tooMuch" ELSE "checked"

\* getBalance: GET hits, misses, or throws.
TopupRead(t) ==
    /\ WorkerFree
    /\ \/ key # Absent /\ TopupMove(t, "queued", Checked(key))
       \/ key = Absent /\ TopupMove(t, "queued", "loading")
       \/ TopupMove(t, "queued", "fallback")
    /\ redisFailed' = (redisFailed \/ tpc'[t] = "fallback")
    /\ UNCHANGED <<redis, rows, seen, flushes, lost, marks, turns>>

\* loadWalletFromDb, on a miss (to fill the cache) or as the fallback.
TopupLoad(t) ==
    /\ \/ TopupMove(t, "loading", "filling")
       \/ TopupMove(t, "fallback", Checked(db))
    /\ seen' = [seen EXCEPT ![t] = Row] /\ Know(t, dbLocked)
    /\ crossed' = IF tpc[t] = "loading" THEN crossed \cup Uneven ELSE crossed
    /\ UNCHANGED <<redis, rows, redisFailed, flushes, lost, missed, overtaken>>

\* bootstrapWalletCache: SET of the balance ...
\* Mutation: INCRBY instead.
TopupFill_Adds(t) ==
    /\ TopupMove(t, "filling", "flagging")
    /\ IncrBy(seen[t].cents)
    /\ UNCHANGED <<rows, seen, past>>

TopupFill(t) ==
    /\ TopupMove(t, "filling", "flagging")
    /\ SetKey(seen[t].cents, FALSE)
    /\ UNCHANGED <<lockFlag, rows, seen, past>>

\* ... then SET or DEL of the lock flag.
\* Mutation: DEL in any case.
TopupFlag_Clears(t) ==
    /\ TopupMove(t, "flagging", Checked(seen[t].cents))
    /\ WriteFlag(t, FALSE)
    /\ UNCHANGED <<rows, seen, redisFailed, flushes, lost, marks>>

TopupFlag(t) ==
    /\ TopupMove(t, "flagging", Checked(seen[t].cents))
    /\ WriteFlag(t, seen[t].locked)
    /\ UNCHANGED <<rows, seen, redisFailed, flushes, lost, marks>>

\* One of the two throws: logged, the top-up goes on.  The first may have taken
\* effect all the same, which is what TopupFill and the second one do.
TopupFillFails(t) ==
    /\ TopupMove(t, "filling", Checked(seen[t].cents))
         \/ TopupMove(t, "flagging", Checked(seen[t].cents))
    /\ redisFailed' = TRUE
    /\ UNCHANGED <<redis, rows, seen, flushes, lost, marks, turns>>

TopupDb(t) ==
    /\ TopupMove(t, "checked", "crediting")
    /\ Record(t, Credit) /\ Cross(t)
    /\ UNCHANGED <<redis, seen, redisFailed, flushes, lost, turns>>

\* Mutation: Redis is given the new balance instead of the increment.
TopupRedis_SetsRow(t) ==
    /\ TopupMove(t, "crediting", "done")
    /\ key' = db
    /\ UNCHANGED <<expiring, lockFlag, rows, seen, past>>

TopupRedis(t) ==
    /\ TopupMove(t, "crediting", "done")
    /\ \/ IncrBy(Credit) /\ UNCHANGED redisFailed
       \/ UNCHANGED redis /\ redisFailed' = TRUE
    /\ UNCHANGED <<rows, seen, flushes, lost, marks, turns>>

DisputeMove(d, from, to) ==
    dpc[d] = from /\ dpc' = [dpc EXCEPT ![d] = to] /\ UNCHANGED <<cpc, tpc, apc>>

\* lockWallet and unlockWallet: the transaction, then the flag.
LockDb(d) ==
    /\ WorkerFree /\ DisputeMove(d, "opened", "locking")
    /\ dbLocked' = TRUE /\ Know(d, TRUE)
    /\ UNCHANGED <<redis, db, ledger, seen, redisFailed, flushes, lost, marks, overtaken>>

LockRedis(d) ==
    /\ DisputeMove(d, "locking", "locked")
    /\ WriteFlag(d, TRUE)
    /\ UNCHANGED <<rows, seen, redisFailed, flushes, lost, marks>>

UnlockDb(d) ==
    /\ WorkerFree
    /\ DisputeMove(d, "locked", "unlocking") \/ DisputeMove(d, "unlockAgain", "unlocking")
    /\ dbLocked' = FALSE /\ Know(d, FALSE)
    /\ UNCHANGED <<redis, db, ledger, seen, redisFailed, flushes, lost, marks, overtaken>>

UnlockRedis(d) ==
    /\ DisputeMove(d, "unlocking", "closed")
    /\ WriteFlag(d, FALSE)
    /\ UNCHANGED <<rows, seen, redisFailed, flushes, lost, marks>>

\* The flag command throws, having taken effect or not, and with it the job,
\* which is retried.
FlagFails(d) ==
    /\ \/ DisputeMove(d, "locking", "opened") /\ WriteFlag(d, TRUE)
       \/ DisputeMove(d, "unlocking", "unlockAgain") /\ WriteFlag(d, FALSE)
       \/ DisputeMove(d, "locking", "opened") /\ UNCHANGED <<redis, turns>>
       \/ DisputeMove(d, "unlocking", "unlockAgain") /\ UNCHANGED <<redis, turns>>
    /\ UNCHANGED <<rows, seen, redisFailed, flushes, lost, marks>>

-----------------------------------------------------------------------------
(***************************************************************************)
(* Admin adjustments: read the row, write what was read plus the amount,   *)
(* read again, and SET the cache with a TTL of one hour.                   *)
(***************************************************************************)
AdjustMove(a, from, to) ==
    apc[a] = from /\ apc' = [apc EXCEPT ![a] = to] /\ UNCHANGED <<cpc, tpc, dpc>>

AdjustRead(a) ==
    /\ AdjustMove(a, "asked", "read")
    /\ seen' = [seen EXCEPT ![a] = Row]
    /\ UNCHANGED <<redis, rows, past>>

AdjustWrite(a) ==
    LET newBalance == seen[a].cents + Amount[a]
    IN  /\ newBalance >= 0
        /\ AdjustMove(a, "read", "written")
        /\ db' = newBalance /\ ledger' = ledger + Amount[a]
        /\ UNCHANGED <<redis, dbLocked, seen, past>>

AdjustRefused(a) ==
    /\ seen[a].cents + Amount[a] < 0
    /\ AdjustMove(a, "read", "refused")
    /\ UNCHANGED <<redis, rows, seen, past>>

AdjustReload(a) ==
    /\ AdjustMove(a, "written", "reloaded")
    /\ seen' = [seen EXCEPT ![a] = Row]
    /\ UNCHANGED <<redis, rows, past>>

AdjustSet(a) ==
    /\ AdjustMove(a, "reloaded", "done")
    /\ \/ SetKey(seen[a].cents, TRUE) /\ UNCHANGED redisFailed
       \/ UNCHANGED <<key, expiring>> /\ redisFailed' = TRUE
    /\ UNCHANGED <<lockFlag, rows, seen, flushes, lost, marks, turns>>

-----------------------------------------------------------------------------
(***************************************************************************)
(* Redis loses the key: its TTL ends, or Redis is restarted empty.         *)
(***************************************************************************)
Expire ==
    /\ expiring /\ key # Absent
    /\ key' = Absent /\ expiring' = FALSE
    /\ UNCHANGED <<lockFlag, rows, pcs, seen, past>>

Flush ==
    /\ MayFail
    /\ key' = Absent /\ expiring' = FALSE /\ lockFlag' = FALSE
    /\ flushes' = flushes + 1
    /\ UNCHANGED <<rows, pcs, seen, redisFailed, lost, marks, turns>>

-----------------------------------------------------------------------------
(***************************************************************************)
(* Replies that are lost on the way back.  A transaction that committed is *)
(* reported as failed; a Redis command is sent once more by the client     *)
(* (maxRetriesPerRequest), so that an INCRBY may count twice.  When the    *)
(* reply of billing.lua, or of an adjustment's transaction, is lost, the   *)
(* code does nothing more, like a process that dies there.                 *)
(***************************************************************************)
RecordChargeUnheard(c) ==
    /\ MayFail /\ CallMove(c, "recording", "unwinding")
    /\ Record(c, -Price) /\ unheard' = unheard \cup {c}
    /\ UNCHANGED <<redis, seen, redisFailed, flushes, repeated, crossed, turns>>

RollbackRedisTwice(c) ==
    /\ MayFail /\ CallMove(c, "unwinding", "undone")
    /\ IncrBy(2 * Price) /\ repeated' = repeated \cup {c}
    /\ UNCHANGED <<rows, seen, redisFailed, flushes, unheard, marks, turns>>

TopupRedisTwice(t) ==
    /\ MayFail /\ TopupMove(t, "crediting", "done")
    /\ IncrBy(2 * Credit) /\ repeated' = repeated \cup {t}
    /\ UNCHANGED <<rows, seen, redisFailed, flushes, unheard, marks, turns>>

-----------------------------------------------------------------------------
Call(c) ==
    \/ Charge(c) \/ Reject(c) \/ RecordCharge(c) \/ RecordChargeFails(c)
    \/ RecordChargeUnheard(c) \/ RollbackRedis(c) \/ RollbackRedisTwice(c)
Topup(t) ==
    \/ TopupRead(t) \/ TopupLoad(t) \/ TopupFill(t) \/ TopupFlag(t) \/ TopupFillFails(t)
    \/ TopupDb(t) \/ TopupRedis(t) \/ TopupRedisTwice(t)
Dispute(d) == LockDb(d) \/ LockRedis(d) \/ UnlockDb(d) \/ UnlockRedis(d) \/ FlagFails(d)
Adjust(a) ==
    \/ AdjustRead(a) \/ AdjustWrite(a) \/ AdjustRefused(a) \/ AdjustReload(a) \/ AdjustSet(a)

Next ==
    \/ \E c \in Calls : Call(c)
    \/ \E t \in Topups : Topup(t)
    \/ \E d \in Disputes : Dispute(d)
    \/ \E a \in Adjustments : Adjust(a)
    \/ Expire \/ Flush

Spec == Init /\ [][Next]_vars

-----------------------------------------------------------------------------
(***************************************************************************)
(* What holds, with any number of workers.                                 *)
(***************************************************************************)
Adjusted == \E a \in Adjustments : apc[a] \in {"written", "reloaded", "done"}

\* What the calls, and the top-ups, of a set amount to.
PriceOf(S)  == Price * Cardinality(S \cap Calls)
CreditOf(S) == Credit * Cardinality(S \cap Topups)

\* What lost replies, but for those of S, have put into Redis, or will when the
\* call is rolled back, and not into the row.
Surplus(S) == PriceOf(unheard \ S) + PriceOf(repeated \ S) + CreditOf(repeated \ S)

\* The balance that Redis should show.
Even == db - PriceOf(InFlight) - CreditOf(Owed)

\* Until an adjustment is written, a command fails or the keys are lost, a
\* balance in Redis is the row's, less the charges and top-ups in flight, plus
\* the money of lost replies, however calls and fills of the cold cache
\* interleave (bootstrapWalletCache against billing.lua and addBalance), but
\* for those in flight during a fill: a charge may be forgotten, and a top-up
\* forgotten or counted twice, once each however many the fills.
CacheAgrees ==
    (key # Absent /\ ~redisFailed /\ flushes = 0 /\ ~Adjusted)
        => /\ key <= Even + Surplus({}) + PriceOf(crossed) + CreditOf(crossed)
           /\ key >= Even + Surplus(crossed) - CreditOf(crossed)

\* The row is its ledger until an adjustment is written; a single adjustment
\* takes from the row, or gives back, exactly what top-ups and calls recorded
\* after it had read the row and before it wrote (adjustUserWallet writes the
\* balance that it had read, plus the amount).
AdjustmentErases ==
    LET erased == Opening + ledger - db
    IN  /\ ~Adjusted => erased = 0
        /\ Cardinality(Adjustments) = 1 /\ Adjusted
              => erased = CreditOf(missed) - PriceOf(missed)

\* Whatever is lost, and however often, money is spent that is not there only if
\* it was on its way during a fill (a charge forgotten, a top-up counted twice:
\* bootstrapWalletCache) or left in Redis by a lost reply.  A loss of the keys
\* alone, which catches calls in flight, costs nothing.  An adjustment that was
\* written takes this bound away: it may bring back what was spent.
OverspendBound ==
    ~Adjusted => db + PriceOf(crossed) + CreditOf(crossed) + Surplus({}) >= 0

\* Unless a dispute job is under way or to be retried, a command failed or the
\* flag was lost, Redis and Postgres agree on whether the wallet is locked, or
\* else the last to write the flag was a job overtaken by another: the lock in
\* the row was changed after that job had read or written it (a fill, or the
\* two steps of lockWallet and unlockWallet).
LockAgrees ==
    ((\A d \in Disputes : dpc[d] \in {"locked", "closed"}) /\ ~redisFailed /\ flushes = 0)
        => lockFlag = dbLocked \/ overtaken

\* Until Redis loses the flag, or a job that was overtaken writes it, no call is
\* charged between the end of a lock job and the first unlock, of whichever
\* dispute (lockWallet, billing.lua): a fill that read the row after the lock
\* keeps it, and so does an adjustment.
Unlocked == \E d \in Disputes : dpc[d] \in {"unlocking", "unlockAgain", "closed"}
LockedNeverCharged ==
    [][\A c \in Calls : cpc[c] = "arrived" /\ cpc'[c] = "recording" /\ flushes = 0
          => Unlocked \/ overtaken \/ \A d \in Disputes : dpc[d] # "locked"]_vars

\* The limit on the balance is checked against a reading of Redis or the row,
\* before the transaction (addBalance): the row exceeds it at most by one credit
\* for every other worker, one for every top-up on its way during a fill, which
\* Redis may have forgotten, and charges that Redis has made and Postgres has
\* not, or that were taken back.
MaxBalanceBound ==
    (~redisFailed /\ flushes = 0 /\ ~Adjusted) =>
        db <= MaxBalance + Credit * (Workers - 1) + CreditOf(crossed)
                + PriceOf({c \in Calls : cpc[c] \in {"recording", "unwinding", "undone"}})

-----------------------------------------------------------------------------
(***************************************************************************)
(* What the repository says and the code does not do.                      *)
(***************************************************************************)
\* "Multiple concurrent top-ups: final balance = initial + ... (no lost
\* updates)" (implementation guide), "race-safe" (addBalance): top-ups that
\* all succeeded are all in the Redis balance, once each.
TopupsAllCount ==
    ((\A t \in Topups : tpc[t] = "done") /\ ~redisFailed)
        => key = Opening + Credit * Cardinality(Topups)
=============================================================================
