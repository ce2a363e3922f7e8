--------------------------------- MODULE Daily ---------------------------------
(***************************************************************************)
(* The two counters of one owner that are kept by day, in keys named by    *)
(* the UTC date: the calls let through on the allowance, and the refunds.  *)
(* Each step names its key by the clock as it reads it, and the script     *)
(* runs later; so does midnight, and the rollback of a refund names the    *)
(* key once more.  Idempotency, prices and balances are in Billing.        *)
(***************************************************************************)
EXTENDS Integers, FiniteSets

CONSTANTS
    Spends,        \* calls that reach BillingGuard
    DailyAllowance,\* policy.dailyAllowance
    DailyRefundCap,\* DAILY_REFUND_CAP
    LastDay        \* bound: the clock stops here

ASSUME DailyAssumption ==
    /\ IsFiniteSet(Spends) /\ DailyAllowance \in Nat /\ DailyRefundCap \in Nat \ {0}
    /\ LastDay \in Nat

Dates == 0 .. LastDay

VARIABLES
    today,      \* the UTC date
    allowUsed,  \* Redis: allow:used:{owner}:{date}, 0 when absent
    refundCount,\* Redis: refund:{owner}:{date}, 0 when absent
    perishing,  \* Redis: the keys of refunds that have a TTL
    expired,    \* history: keys that have expired, <<"allowance" or "refund", date>>
    spend,      \* where each call is
    date,       \* the date by which it has named its key
    undoDate,   \* the date by which rollbackRefund has named it
    onTime,     \* history: calls whose key had not expired when its script ran
    misplaced   \* history: <<call, date>>, the refund of another day that was taken
                \* back from the counter of that date

dailyVars == <<today, allowUsed, refundCount, perishing, expired, spend, date, undoDate, onTime, misplaced>>
dayVars == <<today, expired>>

SpendState ==
    {"arrived", "pricing", "free", "paid", "broken", "refunding", "kept",
     "recording", "refunded", "undoing", "decreasing", "undone", "stuck"}

\* What Redis and the calls may hold.
DailyTypeOK ==
    /\ today \in Dates /\ allowUsed \in [Dates -> Nat] /\ refundCount \in [Dates -> Int]
    /\ perishing \subseteq Dates /\ expired \subseteq {"allowance", "refund"} \X Dates
    /\ spend \in [Spends -> SpendState]
    /\ date \in [Spends -> Dates] /\ undoDate \in [Spends -> Dates]
    /\ onTime \subseteq Spends /\ misplaced \subseteq Spends \X Dates

DailyInit ==
    /\ today = 0 /\ allowUsed = [d \in Dates |-> 0] /\ refundCount = [d \in Dates |-> 0]
    /\ perishing = {} /\ expired = {}
    /\ spend = [c \in Spends |-> "arrived"] /\ date = [c \in Spends |-> 0]
    /\ undoDate = [c \in Spends |-> 0] /\ onTime = {} /\ misplaced = {}

Move(c, from, to) == spend[c] = from /\ spend' = [spend EXCEPT ![c] = to]

-----------------------------------------------------------------------------
(***************************************************************************)
(* chargeBilling and billing.lua.                                          *)
(***************************************************************************)
\* getUtcDateString, before the price is looked up.
NameAllowance(c) ==
    /\ Move(c, "arrived", "pricing") /\ date' = [date EXCEPT ![c] = today]
    /\ UNCHANGED <<dayVars, allowUsed, refundCount, perishing, undoDate, onTime, misplaced>>

\* Mutation: one call more than the allowance.
InAllowance_OffByOne(c) == DailyAllowance > 0 /\ allowUsed[date[c]] <= DailyAllowance
InAllowance(c) == DailyAllowance > 0 /\ allowUsed[date[c]] < DailyAllowance

\* The first one sets the TTL, which was computed after the price was looked up:
\* the key goes at midnight, or a day later if midnight came before that.
ChargeByDay(c) ==
    /\ \/ /\ InAllowance(c) /\ Move(c, "pricing", "free")
          /\ allowUsed' = [allowUsed EXCEPT ![date[c]] = @ + 1]
          /\ onTime' = IF <<"allowance", date[c]>> \in expired THEN onTime ELSE onTime \cup {c}
       \/ ~InAllowance(c) /\ Move(c, "pricing", "paid") /\ UNCHANGED <<allowUsed, onTime>>
    /\ UNCHANGED <<dayVars, refundCount, perishing, date, undoDate, misplaced>>

-----------------------------------------------------------------------------
(***************************************************************************)
(* processRefund, refund.lua and rollbackRefund, for a stream that the     *)
(* wallet paid for and that broke before its first byte.                   *)
(***************************************************************************)
BreaksEarly(c) ==
    /\ Move(c, "paid", "broken")
    /\ UNCHANGED <<dayVars, allowUsed, refundCount, perishing, date, undoDate, onTime, misplaced>>

\* executeRefundLua names the key and then loads the script.
NameRefund(c) ==
    /\ Move(c, "broken", "refunding") /\ date' = [date EXCEPT ![c] = today]
    /\ UNCHANGED <<dayVars, allowUsed, refundCount, perishing, undoDate, onTime, misplaced>>

RefundByDay(c) ==
    LET d == date[c] IN
    /\ \/ /\ refundCount[d] < DailyRefundCap /\ Move(c, "refunding", "recording")
          /\ refundCount' = [refundCount EXCEPT ![d] = @ + 1]
          /\ perishing' = IF refundCount[d] = 0 THEN perishing \cup {d} ELSE perishing
          /\ onTime' = IF <<"refund", d>> \in expired THEN onTime ELSE onTime \cup {c}
       \/ /\ refundCount[d] >= DailyRefundCap /\ Move(c, "refunding", "kept")
          /\ UNCHANGED <<refundCount, perishing, onTime>>
    /\ UNCHANGED <<dayVars, allowUsed, date, undoDate, misplaced>>

\* recordRefundToDb succeeds, or throws.
RecordByDay(c) ==
    /\ Move(c, "recording", "refunded") \/ Move(c, "recording", "undoing")
    /\ UNCHANGED <<dayVars, allowUsed, refundCount, perishing, date, undoDate, onTime, misplaced>>

\* rollbackRefund names the key once more and then deletes the idempotency key.
NameRollback(c) ==
    /\ Move(c, "undoing", "decreasing") /\ undoDate' = [undoDate EXCEPT ![c] = today]
    /\ UNCHANGED <<dayVars, allowUsed, refundCount, perishing, date, onTime, misplaced>>

\* Mutation: the slot of the day is not given back.
RollbackRefund_KeepsSlot(c) ==
    /\ Move(c, "decreasing", "undone")
    /\ UNCHANGED <<dayVars, allowUsed, refundCount, perishing, date, undoDate, onTime, misplaced>>

\* DECR; a counter that is absent becomes -1 and has no TTL.
RollbackRefund(c) ==
    LET d == undoDate[c] IN
    /\ Move(c, "decreasing", "undone") /\ refundCount' = [refundCount EXCEPT ![d] = @ - 1]
    /\ misplaced' = IF date[c] = d THEN misplaced ELSE misplaced \cup {<<c, d>>}
    /\ UNCHANGED <<dayVars, allowUsed, perishing, date, undoDate, onTime>>

\* Redis fails before the DECR.
RollbackRefundFails(c) ==
    /\ Move(c, "decreasing", "stuck")
    /\ UNCHANGED <<dayVars, allowUsed, refundCount, perishing, date, undoDate, onTime, misplaced>>

-----------------------------------------------------------------------------
Midnight ==
    /\ today < LastDay /\ today' = today + 1
    /\ UNCHANGED <<allowUsed, refundCount, perishing, expired, spend, date, undoDate, onTime, misplaced>>

AllowanceExpires(d) ==
    /\ d < today /\ allowUsed[d] > 0 /\ allowUsed' = [allowUsed EXCEPT ![d] = 0]
    /\ expired' = expired \cup {<<"allowance", d>>}
    /\ UNCHANGED <<today, refundCount, perishing, spend, date, undoDate, onTime, misplaced>>

RefundsExpire(d) ==
    /\ d < today /\ d \in perishing /\ perishing' = perishing \ {d}
    /\ refundCount' = [refundCount EXCEPT ![d] = 0] /\ expired' = expired \cup {<<"refund", d>>}
    /\ UNCHANGED <<today, allowUsed, spend, date, undoDate, onTime, misplaced>>

Spend(c) ==
    \/ NameAllowance(c) \/ ChargeByDay(c) \/ BreaksEarly(c) \/ NameRefund(c) \/ RefundByDay(c)
    \/ RecordByDay(c) \/ NameRollback(c) \/ RollbackRefund(c) \/ RollbackRefundFails(c)

DailyNext ==
    \/ \E c \in Spends : Spend(c)
    \/ Midnight \/ \E d \in Dates : AllowanceExpires(d) \/ RefundsExpire(d)

DailySpec == DailyInit /\ [][DailyNext]_dailyVars

-----------------------------------------------------------------------------
(***************************************************************************)
(* What holds.                                                             *)
(***************************************************************************)
FreeOn(d) == {c \in onTime : spend[c] = "free" /\ date[c] = d}

\* A day lets no more calls through on the allowance than it has, those among
\* them that were named before midnight and charged after it, unless the key of
\* that day had expired when the script ran (chargeBilling names the key,
\* billing.lua counts).
AllowanceKept ==
    \A d \in Dates :
        /\ Cardinality(FreeOn(d)) <= DailyAllowance
        /\ <<"allowance", d>> \notin expired => allowUsed[d] = Cardinality(FreeOn(d))

\* The refunds that count against day d: given and not taken back, or taken
\* back without reaching the counter of d.
HoldsSlot(c) ==
    \/ spend[c] \in {"recording", "refunded", "undoing", "decreasing", "stuck"}
    \/ \E d \in Dates : <<c, d>> \in misplaced
SlotsOn(d) == {c \in onTime : HoldsSlot(c) /\ date[c] = d}
TakenFrom(d) == {c \in Spends : <<c, d>> \in misplaced}

\* A day gives back no more charges than the cap, and one more for each refund
\* of an earlier day that failed to be recorded and was taken from the counter
\* of this one (executeRefundLua and rollbackRefund each ask the clock).
RefundCapKept ==
    \A d \in Dates :
        /\ Cardinality(SlotsOn(d)) <= DailyRefundCap + Cardinality(TakenFrom(d))
        /\ <<"refund", d>> \notin expired =>
              refundCount[d] = Cardinality(SlotsOn(d)) - Cardinality(TakenFrom(d))
=============================================================================
