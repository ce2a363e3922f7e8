------------------------------- MODULE Billing -------------------------------
(***************************************************************************)
(* Charging, refunding and topping up the wallet of ONE owner (a user or   *)
(* an organisation) within one UTC day, by gateway calls that run          *)
(* concurrently.                                                           *)
(*                                                                         *)
(* The balance lives twice: in Redis (wallet), where Lua scripts decide    *)
(* and charge, and in Postgres (db) with an append-only ledger, the source *)
(* of truth.  Every handler touches the two stores in separate awaited     *)
(* steps, so an action below is one such step: a Lua script, one Redis     *)
(* command, or one database transaction.  A step that fails is an action   *)
(* too.  A process that dies between two awaits is a call that never takes *)
(* its next step, which Spec always allows.                                *)
(*                                                                         *)
(* Abstractions: one price for every paid call; the Redis balance key is   *)
(* present (WalletCache models how it is filled); a transaction or command *)
(* that reports failure has had no effect.                                 *)
(***************************************************************************)
EXTENDS Integers, FiniteSets

CONSTANTS
    Calls,           \* HTTP calls to /v1/chat/completions and /v1/messages
    Ids,             \* request ids (x-request-id / idempotency-key)
    IdOf,            \* the request id each call carries; a retry repeats it
    Streaming,       \* the calls whose body asks for stream: true
    WalletAccess,    \* the calls whose policy has hasWalletAccess
    Topups,          \* credits applied by addBalance
    Price,           \* priceCents of a call
    Credit,          \* amountCents of a top-up
    Opening,         \* balance both stores start with
    DailyAllowance,  \* policy.dailyAllowance
    RefundCap        \* BILLING_CONSTANTS.DAILY_REFUND_CAP

ASSUME BillingAssumption ==
    /\ IsFiniteSet(Calls) /\ IsFiniteSet(Topups)
    /\ IdOf \in [Calls -> Ids]
    /\ Streaming \subseteq Calls /\ WalletAccess \subseteq Calls
    /\ Price \in Nat \ {0} /\ Credit \in Nat \ {0}
    /\ Opening \in Nat /\ DailyAllowance \in Nat /\ RefundCap \in Nat

VARIABLES
    wallet,       \* Redis: wallet:{owner}:balance_cents
    used,         \* Redis: allow:used:{owner}:{date}
    billIdem,     \* Redis: idem:billing:{owner}:{id}, its source part
    refundIdem,   \* Redis: ids with a key idem:refund:{owner}:{id}
    refundCount,  \* Redis: refund:{owner}:{date}
    respCache,    \* Redis: ids with a key idem:response:{owner}:{id}
    lockFlag,     \* Redis: wallet:{owner}:locked
    db,           \* Postgres: wallet_balances.balance_cents
    charges,      \* Postgres: calls with a CHARGE ledger entry
    refunds,      \* Postgres: calls with a REFUND ledger entry
    credits,      \* Postgres: top-ups with a TOPUP ledger entry
    source,       \* billingResult.source attached to each request
    pc,           \* where each call is
    tpc           \* where each top-up is

redisVars  == <<wallet, used, billIdem, refundIdem, refundCount, respCache, lockFlag>>
ledgerVars == <<db, charges, refunds, credits>>
vars == <<redisVars, ledgerVars, source, pc, tpc>>

InCharge  == {"recording", "unwinding", "leaked"}
InUndo    == {"undoIdem", "undoCount", "undoWallet"}
UndoStuck == {"stuckIdem", "stuckCount", "stuckWallet"}
InRefund  == {"refundRecording", "misread"} \cup InUndo \cup UndoStuck
Answered  == {"rejected", "conflict", "replayed", "unavailable", "completed", "refused",
              "errored", "broken", "refunded", "refundRefused", "refundUndone"}
CallState  == {"arrived", "proxying", "refundable"} \cup InCharge \cup InRefund \cup Answered
TopupState == {"requested", "crediting", "credited", "lost"}

\* The Redis keys and the in-memory fields have the types the code gives them.
TypeOK ==
    /\ wallet \in Int /\ db \in Int
    /\ used \in Nat /\ refundCount \in Int
    /\ billIdem \in [Ids -> {"none", "allowance", "wallet"}]
    /\ refundIdem \subseteq Ids /\ respCache \subseteq Ids
    /\ lockFlag \in BOOLEAN
    /\ charges \subseteq Calls /\ refunds \subseteq Calls /\ credits \subseteq Topups
    /\ source \in [Calls -> {"none", "allowance", "wallet"}]
    /\ pc \in [Calls -> CallState]
    /\ tpc \in [Topups -> TopupState]

Init ==
    /\ wallet = Opening /\ db = Opening
    /\ used = 0 /\ refundCount = 0
    /\ billIdem = [i \in Ids |-> "none"]
    /\ refundIdem = {} /\ respCache = {}
    /\ lockFlag = FALSE
    /\ charges = {} /\ refunds = {} /\ credits = {}
    /\ source = [c \in Calls |-> "none"]
    /\ pc = [c \in Calls |-> "arrived"]
    /\ tpc = [t \in Topups |-> "requested"]

Move(c, from, to) == pc[c] = from /\ pc' = [pc EXCEPT ![c] = to]

-----------------------------------------------------------------------------
(***************************************************************************)
(* billing.lua, run by chargeBilling.  The script is atomic; its tests are *)
(* made in this order: lock, idempotency, allowance, price, balance.       *)
(***************************************************************************)
\* Mutation: the idempotency key is not looked up.
AlreadyBilled_Ignored(c) == FALSE
AlreadyBilled(c) == billIdem[IdOf[c]] # "none"
AllowanceLeft == used < DailyAllowance
\* Mutation: the balance test is off by one.
CanAfford_OffByOne == wallet >= Price - 1
CanAfford == wallet >= Price

\* Code 0 'locked' (billing.lua 33-37): the guard answers 402.
ChargeLocked(c) ==
    /\ lockFlag
    /\ Move(c, "arrived", "rejected")
    /\ UNCHANGED <<redisVars, ledgerVars, source, tpc>>

\* Mutation: a retry is replayed without asking whether a response was cached.
ChargeReplay_Unchecked(c) ==
    /\ ~lockFlag /\ AlreadyBilled(c)
    /\ Move(c, "arrived", IF c \in Streaming THEN "conflict" ELSE "replayed")
    /\ source' = [source EXCEPT ![c] = billIdem[IdOf[c]]]
    /\ UNCHANGED <<redisVars, ledgerVars, tpc>>

\* Code 2 (billing.lua 40-49): the guard refuses a streaming retry and a
\* retry whose response was not cached, and replays the response otherwise.
ChargeReplay(c) ==
    LET replay == c \notin Streaming /\ IdOf[c] \in respCache
    IN  /\ ~lockFlag /\ AlreadyBilled(c)
        /\ Move(c, "arrived", IF replay THEN "replayed" ELSE "conflict")
        /\ source' = IF replay THEN [source EXCEPT ![c] = billIdem[IdOf[c]]] ELSE source
        /\ UNCHANGED <<redisVars, ledgerVars, tpc>>

\* Code 1 'allowance' (billing.lua 56-71): the daily counter is incremented.
ChargeAllowance(c) ==
    /\ ~lockFlag /\ ~AlreadyBilled(c) /\ AllowanceLeft
    /\ Move(c, "arrived", "proxying")
    /\ used' = used + 1
    /\ billIdem' = [billIdem EXCEPT ![IdOf[c]] = "allowance"]
    /\ source' = [source EXCEPT ![c] = "allowance"]
    /\ UNCHANGED <<wallet, refundIdem, refundCount, respCache, lockFlag, ledgerVars, tpc>>

\* Code 1 'allowance' with price 0 (billing.lua 74-79): chargeBilling passes
\* price 0 when the policy has no wallet access, and nothing is counted.
ChargeFree(c) ==
    /\ ~lockFlag /\ ~AlreadyBilled(c) /\ ~AllowanceLeft
    /\ c \notin WalletAccess
    /\ Move(c, "arrived", "proxying")
    /\ billIdem' = [billIdem EXCEPT ![IdOf[c]] = "allowance"]
    /\ source' = [source EXCEPT ![c] = "allowance"]
    /\ UNCHANGED <<wallet, used, refundIdem, refundCount, respCache, lockFlag, ledgerVars, tpc>>

\* Code 0 'insufficient_wallet' (billing.lua 84-88): 402, and no idempotency key.
ChargeInsufficient(c) ==
    /\ ~lockFlag /\ ~AlreadyBilled(c) /\ ~AllowanceLeft
    /\ c \in WalletAccess /\ ~CanAfford
    /\ Move(c, "arrived", "rejected")
    /\ UNCHANGED <<redisVars, ledgerVars, source, tpc>>

\* Code 1 'wallet' (billing.lua 91-99).
ChargeWallet(c) ==
    /\ ~lockFlag /\ ~AlreadyBilled(c) /\ ~AllowanceLeft
    /\ c \in WalletAccess /\ CanAfford
    /\ Move(c, "arrived", "recording")
    /\ wallet' = wallet - Price
    /\ billIdem' = [billIdem EXCEPT ![IdOf[c]] = "wallet"]
    /\ UNCHANGED <<used, refundIdem, refundCount, respCache, lockFlag, ledgerVars, source, tpc>>

\* The script cannot be run (Redis down): the guard answers 503.
ChargeUnavailable(c) ==
    /\ Move(c, "arrived", "unavailable")
    /\ UNCHANGED <<redisVars, ledgerVars, source, tpc>>

-----------------------------------------------------------------------------
(***************************************************************************)
(* The database half of a wallet charge: recordCharge, and rollbackRedis   *)
(* when it throws.  The billing idempotency key is not deleted.            *)
(***************************************************************************)
RecordCharge(c) ==
    /\ Move(c, "recording", "proxying")
    /\ db' = db - Price
    /\ charges' = charges \cup {c}
    /\ source' = [source EXCEPT ![c] = "wallet"]
    /\ UNCHANGED <<redisVars, refunds, credits, tpc>>

RecordChargeFails(c) ==
    /\ Move(c, "recording", "unwinding")
    /\ UNCHANGED <<redisVars, ledgerVars, source, tpc>>

\* Mutation: the error is rethrown without giving the money back.
RollbackRedis_Skipped(c) ==
    /\ Move(c, "unwinding", "unavailable")
    /\ UNCHANGED <<redisVars, ledgerVars, source, tpc>>

RollbackRedis(c) ==
    /\ Move(c, "unwinding", "unavailable")
    /\ wallet' = wallet + Price
    /\ UNCHANGED <<used, billIdem, refundIdem, refundCount, respCache, lockFlag,
                   ledgerVars, source, tpc>>

\* The INCRBY fails too; the error is logged and the money stays deducted.
RollbackRedisFails(c) ==
    /\ Move(c, "unwinding", "leaked")
    /\ UNCHANGED <<redisVars, ledgerVars, source, tpc>>

-----------------------------------------------------------------------------
(***************************************************************************)
(* The upstream call.                                                      *)
(***************************************************************************)

\* The answer is delivered.  A non-streaming one is cached for replays,
\* unless it is too large or Redis fails (cacheResponse swallows the error).
UpstreamCompletes(c) ==
    /\ Move(c, "proxying", "completed")
    /\ \/ c \notin Streaming /\ respCache' = respCache \cup {IdOf[c]}
       \/ UNCHANGED respCache
    /\ UNCHANGED <<wallet, used, billIdem, refundIdem, refundCount, lockFlag,
                   ledgerVars, source, tpc>>

\* proxyChatCompletion throws before it has sent anything (unknown model, open
\* circuit, invalid request): the catch block answers.
ProxyRefuses(c) ==
    /\ Move(c, "proxying", "refused")
    /\ UNCHANGED <<redisVars, ledgerVars, source, tpc>>

\* Upstream fails before a response exists (5xx, connection refused, timeout):
\* proxyChatCompletion throws, streaming or not, and the catch block answers.
UpstreamThrows(c) ==
    /\ Move(c, "proxying", "errored")
    /\ UNCHANGED <<redisVars, ledgerVars, source, tpc>>

\* Mutation: the refund is not limited to calls the wallet paid for.
StreamBreaks_AnySource(c) ==
    /\ c \in Streaming
    /\ Move(c, "proxying", "broken") \/ Move(c, "proxying", "refundable")
    /\ UNCHANGED <<redisVars, ledgerVars, source, tpc>>

\* A stream that had begun ends badly.  It is eligible for a refund when no
\* chunk was received, and refunded only if the wallet paid.
StreamBreaks(c) ==
    /\ c \in Streaming
    /\ \/ Move(c, "proxying", "broken")
       \/ source[c] = "wallet" /\ Move(c, "proxying", "refundable")
    /\ UNCHANGED <<redisVars, ledgerVars, source, tpc>>

-----------------------------------------------------------------------------
(***************************************************************************)
(* refund.lua and processRefund.                                           *)
(***************************************************************************)
AlreadyRefunded(c) == IdOf[c] \in refundIdem
CapReached == refundCount >= RefundCap

\* -1, -2, or an error from Redis: processRefund returns, nothing changes.
RefundRefused(c) ==
    /\ Move(c, "refundable", "refundRefused")
    /\ UNCHANGED <<redisVars, ledgerVars, source, tpc>>

\* The script credits the wallet and returns the new balance.  processRefund
\* takes a returned -1 for "already refunded" and -2 for "cap exceeded", also
\* when it is the new balance.
RefundLua(c) ==
    /\ ~AlreadyRefunded(c) /\ ~CapReached
    /\ wallet' = wallet + Price
    /\ Move(c, "refundable", IF wallet' \in {-1, -2} THEN "misread" ELSE "refundRecording")
    /\ refundIdem' = refundIdem \cup {IdOf[c]}
    /\ refundCount' = refundCount + 1
    /\ UNCHANGED <<used, billIdem, respCache, lockFlag, ledgerVars, source, tpc>>

RecordRefund(c) ==
    /\ Move(c, "refundRecording", "refunded")
    /\ db' = db + Price
    /\ refunds' = refunds \cup {c}
    /\ UNCHANGED <<redisVars, charges, credits, source, tpc>>

RecordRefundFails(c) ==
    /\ Move(c, "refundRecording", "undoIdem")
    /\ UNCHANGED <<redisVars, ledgerVars, source, tpc>>

\* rollbackRefund: three Redis commands, awaited one after the other.
UndoRefundIdem(c) ==
    /\ Move(c, "undoIdem", "undoCount")
    /\ refundIdem' = refundIdem \ {IdOf[c]}
    /\ UNCHANGED <<wallet, used, billIdem, refundCount, respCache, lockFlag,
                   ledgerVars, source, tpc>>

UndoRefundCount(c) ==
    /\ Move(c, "undoCount", "undoWallet")
    /\ refundCount' = refundCount - 1
    /\ UNCHANGED <<wallet, used, billIdem, refundIdem, respCache, lockFlag,
                   ledgerVars, source, tpc>>

UndoRefundWallet(c) ==
    /\ Move(c, "undoWallet", "refundUndone")
    /\ wallet' = wallet - Price
    /\ UNCHANGED <<used, billIdem, refundIdem, refundCount, respCache, lockFlag,
                   ledgerVars, source, tpc>>

\* One of the three commands throws: the rest is skipped, the error logged.
UndoRefundFails(c) ==
    /\ \/ Move(c, "undoIdem", "stuckIdem")
       \/ Move(c, "undoCount", "stuckCount")
       \/ Move(c, "undoWallet", "stuckWallet")
    /\ UNCHANGED <<redisVars, ledgerVars, source, tpc>>

-----------------------------------------------------------------------------
(***************************************************************************)
(* addBalance (the wallet is warm, so its getBalance changes nothing) and  *)
(* the lock flag, which disputes set and clear.                            *)
(***************************************************************************)
TopupMove(t, from, to) == tpc[t] = from /\ tpc' = [tpc EXCEPT ![t] = to]

TopupDb(t) ==
    /\ TopupMove(t, "requested", "crediting")
    /\ db' = db + Credit
    /\ credits' = credits \cup {t}
    /\ UNCHANGED <<redisVars, charges, refunds, source, pc>>

TopupRedis(t) ==
    /\ TopupMove(t, "crediting", "credited")
    /\ wallet' = wallet + Credit
    /\ UNCHANGED <<used, billIdem, refundIdem, refundCount, respCache, lockFlag,
                   ledgerVars, source, pc>>

\* The INCRBY fails; the error is logged and the top-up reported as done.
TopupRedisFails(t) ==
    /\ TopupMove(t, "crediting", "lost")
    /\ UNCHANGED <<redisVars, ledgerVars, source, pc>>

SetLockFlag ==
    /\ ~lockFlag /\ lockFlag' = TRUE
    /\ UNCHANGED <<wallet, used, billIdem, refundIdem, refundCount, respCache,
                   ledgerVars, source, pc, tpc>>

ClearLockFlag ==
    /\ lockFlag /\ lockFlag' = FALSE
    /\ UNCHANGED <<wallet, used, billIdem, refundIdem, refundCount, respCache,
                   ledgerVars, source, pc, tpc>>

-----------------------------------------------------------------------------
Charge(c) ==
    \/ ChargeLocked(c) \/ ChargeReplay(c) \/ ChargeAllowance(c) \/ ChargeFree(c)
    \/ ChargeInsufficient(c) \/ ChargeWallet(c) \/ ChargeUnavailable(c)

Record(c) ==
    \/ RecordCharge(c) \/ RecordChargeFails(c) \/ RollbackRedis(c) \/ RollbackRedisFails(c)

Upstream(c) ==
    UpstreamCompletes(c) \/ ProxyRefuses(c) \/ UpstreamThrows(c) \/ StreamBreaks(c)

Refund(c) ==
    \/ RefundRefused(c) \/ RefundLua(c) \/ RecordRefund(c) \/ RecordRefundFails(c)
    \/ UndoRefundIdem(c) \/ UndoRefundCount(c) \/ UndoRefundWallet(c) \/ UndoRefundFails(c)

Topup(t) == TopupDb(t) \/ TopupRedis(t) \/ TopupRedisFails(t)

Next ==
    \/ \E c \in Calls : Charge(c) \/ Record(c) \/ Upstream(c) \/ Refund(c)
    \/ \E t \in Topups : Topup(t)
    \/ SetLockFlag \/ ClearLockFlag

Spec == Init /\ [][Next]_vars

\* A handler that was entered is run to its end by the Node event loop: every
\* await it makes is answered, with success or failure.  Nothing obliges a
\* client to call, a top-up to be bought or a dispute to be settled.
Fairness ==
    /\ \A c \in Calls : WF_vars(Record(c) \/ Upstream(c) \/ Refund(c))
    /\ \A t \in Topups : WF_vars(TopupRedis(t) \/ TopupRedisFails(t))

FairSpec == Spec /\ Fairness

-----------------------------------------------------------------------------
(***************************************************************************)
(* Properties.                                                             *)
(***************************************************************************)
At(states) == {c \in Calls : pc[c] \in states}

\* Wallet charges Redis has made and Postgres has not.
Unrecorded == At(InCharge)
\* Refunds Redis has made and Postgres has not.
Advanced == At(InRefund)
\* Top-ups Postgres has made and Redis has not.
Owed == {t \in Topups : tpc[t] \in {"crediting", "lost"}}

Cents(S) == Price * Cardinality(S)

\* The two stores differ by exactly the steps in flight, or abandoned half
\* way, and by nothing else: no interleaving of calls, failed writes,
\* rollbacks and top-ups creates or destroys money in one store only
\* (chargeBilling, processRefund, rollbackRefund, addBalance together).
StoresReconcile ==
    wallet = db - Cents(Unrecorded) + Cents(Advanced) - Credit * Cardinality(Owed)

\* The Postgres balance is the opening balance plus its ledger: every
\* transaction that moves balance_cents writes the matching entry.
LedgerBalances ==
    db = Opening - Cents(charges) + Cents(refunds) + Credit * Cardinality(credits)

\* Retries never pay twice: two calls with one request id never both have a
\* CHARGE entry, however their scripts, writes and rollbacks interleave.
OneChargePerId ==
    \A c, d \in charges : IdOf[c] = IdOf[d] => c = d

\* A REFUND entry gives back a payment: its call has a CHARGE entry, its
\* stream was not delivered, and no other refund has the same request id.
RefundsMatchCharges ==
    /\ refunds \subseteq charges \cap At({"refunded"})
    /\ \A c, d \in refunds : IdOf[c] = IdOf[d] => c = d

\* The script's balance test holds back every overdraft but one kind: the
\* balance in Redis is below zero only by refunds that were spent by another
\* call before rollbackRefund took them back.
OverdraftBound ==
    wallet + Cents(At({"refundUndone"})) >= 0

\* A call is answered from the replay cache only with the answer that an
\* earlier call with its request id got from upstream.
ReplayHasOrigin ==
    \A c \in At({"replayed"}) :
        \E d \in At({"completed"}) : IdOf[d] = IdOf[c] /\ d # c /\ source[d] = source[c]

\* No paid call reaches upstream before its charge is in Postgres
\* ("record to database SYNCHRONOUSLY"): a call that was forwarded without
\* a CHARGE entry was let through on the allowance.
PaidBeforeProxied ==
    \A c \in At({"proxying", "completed", "refused", "errored", "broken", "refundable"}
               \cup InRefund) :
        c \in charges \/ source[c] = "allowance"

\* Postgres never shows more refunds in a day than the cap, also when
\* refunds race, fail to be recorded and are rolled back half way.
RefundsWithinCap ==
    Cardinality(refunds) <= RefundCap

\* Once every handler has run to its end the two stores agree, and keep
\* agreeing, unless a step was abandoned because Redis refused a correction.
Abandoned == At({"leaked", "misread"} \cup UndoStuck) \cup {t \in Topups : tpc[t] = "lost"}
StoresConverge == <>[](Abandoned = {} => wallet = db)

\* The Postgres side of this module implements the wallet's contract.
paymentStatus ==
    [i \in Ids |-> IF \E c \in refunds : IdOf[c] = i THEN "refunded"
                   ELSE IF \E c \in charges : IdOf[c] = i THEN "paid" ELSE "unpaid"]
Contract == INSTANCE WalletContract
    WITH balance <- db, status <- paymentStatus, credited <- credits
ImplementsContract == Contract!Spec

-----------------------------------------------------------------------------
(***************************************************************************)
(* The inductive strengthening of the safety properties above.             *)
(***************************************************************************)
\* States of a call that billing let through on its own account.
Through == {"proxying", "completed", "refused", "errored", "broken", "refundable",
            "refunded", "refundRefused", "refundUndone"} \cup InRefund
Refundable == {"refundable", "refunded", "refundRefused", "refundUndone"} \cup InRefund
\* States in which a call counts against the daily refund cap.
Counted == {"refundRecording", "undoIdem", "undoCount", "stuckIdem", "stuckCount",
            "refunded", "misread"}

\* Ledger entries are where the handlers are: a CHARGE only for a call past
\* recordCharge, a REFUND exactly for the refunded calls, a TOPUP exactly for
\* the top-ups whose transaction has run.
LedgerFollowsHandlers ==
    /\ charges \subseteq At(Through)
    /\ \A c \in At(Through) : source[c] \in {"allowance", "wallet"}
    /\ \A c \in At(Through) : source[c] = "wallet" => c \in charges
    /\ At(Refundable) \subseteq charges
    /\ refunds = At({"refunded"})
    /\ credits = {t \in Topups : tpc[t] # "requested"}

\* A request id whose key is set belongs to one call: that one may pay.
IdsAreTaken ==
    /\ \A c \in At(Through \cup InCharge) : billIdem[IdOf[c]] # "none"
    /\ \A c, d \in At(Through \cup InCharge) : IdOf[c] = IdOf[d] => c = d

\* The refund counter is the number of refunds not taken back.
CountFollowsRefunds ==
    /\ refundCount = Cardinality(At(Counted))
    /\ refundCount <= RefundCap

\* The inductive invariant: what each Redis key and ledger entry says of the
\* handlers, joined with the balance equations.
IInv ==
    /\ TypeOK
    /\ LedgerFollowsHandlers
    /\ IdsAreTaken
    /\ CountFollowsRefunds
    /\ StoresReconcile /\ LedgerBalances /\ OverdraftBound

-----------------------------------------------------------------------------
(***************************************************************************)
(* What the repository says of billing, and the code does not do.          *)
(***************************************************************************)

\* "-1 = already refunded", "positive = new wallet balance": a refund the
\* script made is never taken for one it refused.
RefundResultUnambiguous == At({"misread"}) = {}
=============================================================================
