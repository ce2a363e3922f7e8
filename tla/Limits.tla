-------------------------------- MODULE Limits --------------------------------
(***************************************************************************)
(* RateLimitGuard and ConcurrencyGuard of one owner, with the guards and   *)
(* the controller behind them: a call is counted in every window, takes a  *)
(* slot, and gives it back when its reply is over.                         *)
(*                                                                         *)
(* Both Lua scripts are atomic; what interleaves are their callers, the    *)
(* clock (the keys are named before the script runs), the expiry of the    *)
(* keys, and failures of Redis, after which both guards let the call pass. *)
(***************************************************************************)
EXTENDS Integers, FiniteSets

CONSTANTS
    Calls,
    Windows,   \* "minute", "hour", "day"
    Size,      \* [Windows -> Nat], the length of each, in ticks
    Limit,     \* [Windows -> Nat], policy.limitPerMinute, ...
    Max,       \* policy.maxConcurrent
    MaxTime    \* bound: the clock stops here

ASSUME LimitsAssumption ==
    /\ IsFiniteSet(Calls) /\ Max \in Nat /\ MaxTime \in Nat
    /\ Size \in [Windows -> Nat \ {0}] /\ Limit \in [Windows -> Nat]

VARIABLES
    now,
    hits,       \* Redis: rl:{owner}:{window}:{index}, 0 when absent
    slots,      \* Redis: concurrency:{owner}, 0 when absent
    expiring,   \* Redis: that key has a TTL
    at,         \* where each call is
    stamp,      \* the time a call has named its keys by
    counted,    \* history: calls that the rate limit script admitted
    lapsed,     \* history: windows whose key has expired
    untracked,  \* history: calls that were in progress without a slot counted
    leaked      \* history: calls that ended and whose slot is still counted

vars == <<now, hits, slots, expiring, at, stamp, counted, lapsed, untracked, leaked>>

CallState == {"arrived", "named", "limited", "metered", "denied", "guarded", "handling", "ended"}
Index == 0 .. MaxTime

\* What Redis and the calls may hold.
TypeOK ==
    /\ now \in Index /\ hits \in [Windows -> [Index -> Nat]]
    /\ slots \in 0 .. Max /\ expiring \in BOOLEAN
    /\ at \in [Calls -> CallState] /\ stamp \in [Calls -> Index]
    /\ counted \subseteq Calls /\ lapsed \subseteq Windows \X Index
    /\ untracked \subseteq Calls /\ leaked \subseteq Calls

Init ==
    /\ now = 0 /\ hits = [w \in Windows |-> [i \in Index |-> 0]]
    /\ slots = 0 /\ expiring = FALSE
    /\ at = [c \in Calls |-> "arrived"] /\ stamp = [c \in Calls |-> 0]
    /\ counted = {} /\ lapsed = {} /\ untracked = {} /\ leaked = {}

Step(c, from, to) == at[c] = from /\ at' = [at EXCEPT ![c] = to]

-----------------------------------------------------------------------------
(***************************************************************************)
(* checkRateLimit.                                                         *)
(***************************************************************************)
\* The index of window w in the names of the keys of call c.
KeyIndex(w, c) == stamp[c] \div Size[w]

NameKeys(c) ==
    /\ Step(c, "arrived", "named") /\ stamp' = [stamp EXCEPT ![c] = now]
    /\ UNCHANGED <<now, hits, slots, expiring, counted, lapsed, untracked, leaked>>

\* Mutation: one call more than the limit.
Under_OrAt(c) == \A w \in Windows : hits[w][KeyIndex(w, c)] <= Limit[w]
Under(c) == \A w \in Windows : hits[w][KeyIndex(w, c)] < Limit[w]

\* rate-limit.lua: no window is incremented unless all of them are under.
CheckRate(c) ==
    /\ \/ /\ Under(c) /\ Step(c, "named", "metered")
          /\ hits' = [w \in Windows |-> [hits[w] EXCEPT ![KeyIndex(w, c)] = @ + 1]]
          /\ counted' = counted \cup {c}
       \/ ~Under(c) /\ Step(c, "named", "limited") /\ UNCHANGED <<hits, counted>>
    /\ UNCHANGED <<now, slots, expiring, stamp, lapsed, untracked, leaked>>

\* Redis fails: the call passes uncounted.
CheckRateFails(c) ==
    /\ Step(c, "named", "metered")
    /\ UNCHANGED <<now, hits, slots, expiring, stamp, counted, lapsed, untracked, leaked>>

-----------------------------------------------------------------------------
(***************************************************************************)
(* acquireConcurrency, releaseConcurrency.                                 *)
(***************************************************************************)
\* Mutation: the slot is taken before it is compared with the maximum.
Acquire_First(c) ==
    /\ slots' = slots + 1 /\ expiring' = TRUE
    /\ Step(c, "metered", IF slots < Max THEN "guarded" ELSE "denied")
    /\ UNCHANGED <<now, hits, stamp, counted, lapsed, untracked, leaked>>

\* Mutation: the key is given no TTL.
Acquire_NoTtl(c) ==
    /\ \/ /\ slots < Max /\ Step(c, "metered", "guarded") /\ slots' = slots + 1
       \/ slots >= Max /\ Step(c, "metered", "denied") /\ UNCHANGED slots
    /\ UNCHANGED <<now, hits, expiring, stamp, counted, lapsed, untracked, leaked>>

\* Mutation: one slot more than the maximum.
Acquire_OneMore(c) ==
    /\ \/ /\ slots <= Max /\ Step(c, "metered", "guarded") /\ slots' = slots + 1
          /\ expiring' = (expiring \/ slots = 0)
       \/ slots > Max /\ Step(c, "metered", "denied") /\ UNCHANGED <<slots, expiring>>
    /\ UNCHANGED <<now, hits, stamp, counted, lapsed, untracked, leaked>>

\* concurrency.lua; the TTL is set by the first slot only.
Acquire(c) ==
    /\ \/ /\ slots < Max /\ Step(c, "metered", "guarded") /\ slots' = slots + 1
          /\ expiring' = (expiring \/ slots = 0)
       \/ slots >= Max /\ Step(c, "metered", "denied") /\ UNCHANGED <<slots, expiring>>
    /\ UNCHANGED <<now, hits, stamp, counted, lapsed, untracked, leaked>>

\* Redis fails: the call passes without a slot, and will release one.
AcquireFails(c) ==
    /\ Step(c, "metered", "guarded") /\ untracked' = untracked \cup {c}
    /\ UNCHANGED <<now, hits, slots, expiring, stamp, counted, lapsed, leaked>>

\* The call ends without a release: its slot, if one is counted for it, stays.
Leak(c) == leaked' = IF c \in untracked THEN leaked ELSE leaked \cup {c}

\* ModelAccessGuard or BillingGuard throws: the controller, which registers
\* the release, is never reached.
LaterGuardThrows(c) ==
    /\ Step(c, "guarded", "ended") /\ Leak(c)
    /\ UNCHANGED <<now, hits, slots, expiring, stamp, counted, lapsed, untracked>>

\* registerConcurrencyCleanup.
Handle(c) ==
    /\ Step(c, "guarded", "handling")
    /\ UNCHANGED <<now, hits, slots, expiring, stamp, counted, lapsed, untracked, leaked>>

\* 'finish' or 'close' of the reply, whichever is first.
Release(c) ==
    /\ Step(c, "handling", "ended")
    /\ slots' = IF slots > 0 THEN slots - 1 ELSE 0
    /\ UNCHANGED <<now, hits, expiring, stamp, counted, lapsed, untracked, leaked>>

ReleaseFails(c) ==
    /\ Step(c, "handling", "ended") /\ Leak(c)
    /\ UNCHANGED <<now, hits, slots, expiring, stamp, counted, lapsed, untracked>>

-----------------------------------------------------------------------------
(***************************************************************************)
(* Time and the expiry of keys.                                            *)
(***************************************************************************)
InProgress == {c \in Calls : at[c] \in {"guarded", "handling"}}
Tracked == InProgress \ untracked

Tick ==
    /\ now < MaxTime /\ now' = now + 1
    /\ UNCHANGED <<hits, slots, expiring, at, stamp, counted, lapsed, untracked, leaked>>

\* The key of a window that is over.
WindowExpires(w, i) ==
    /\ i < now \div Size[w] /\ hits[w][i] > 0
    /\ hits' = [hits EXCEPT ![w][i] = 0] /\ lapsed' = lapsed \cup {<<w, i>>}
    /\ UNCHANGED <<now, slots, expiring, at, stamp, counted, untracked, leaked>>

\* The key of the slots, five minutes after its first slot was taken, whatever
\* is in progress.
SlotsExpire ==
    /\ expiring /\ slots' = 0 /\ expiring' = FALSE
    /\ untracked' = untracked \cup InProgress /\ leaked' = {}
    /\ UNCHANGED <<now, hits, at, stamp, counted, lapsed>>

Call(c) ==
    \/ NameKeys(c) \/ CheckRate(c) \/ CheckRateFails(c)
    \/ Acquire(c) \/ AcquireFails(c) \/ LaterGuardThrows(c)
    \/ Handle(c) \/ Release(c) \/ ReleaseFails(c)

Next ==
    \/ \E c \in Calls : Call(c)
    \/ Tick \/ SlotsExpire
    \/ \E w \in Windows, i \in Index : WindowExpires(w, i)

Spec == Init /\ [][Next]_vars

\* Redis expires a key that has a TTL.
FairSpec == Spec /\ WF_vars(SlotsExpire)

-----------------------------------------------------------------------------
(***************************************************************************)
(* What holds.                                                             *)
(***************************************************************************)
CountedIn(w, i) == {c \in counted : KeyIndex(w, c) = i}

\* Until its key expires, a window shows the calls that named it, no more of
\* them than its limit, also when they arrive late, after the clock has moved
\* on to the next window (rate-limit.lua against checkRateLimit's keys).
RateLimitKept ==
    \A w \in Windows, i \in Index : <<w, i>> \notin lapsed =>
        /\ hits[w][i] = Cardinality(CountedIn(w, i))
        /\ Cardinality(CountedIn(w, i)) <= Limit[w]

\* The number of calls in progress exceeds the maximum at most by those that
\* were ever in progress without a slot: let through when Redis failed, or
\* caught by the expiry of the key.
SlotBound == Cardinality(InProgress) <= Max + Cardinality(untracked)

\* No slot is counted but for a call in progress that took one, or for one that
\* ended without giving it back since the key last expired (acquire and release
\* in concurrency.lua, the release registered by the controller).
SlotsAccounted == slots <= Cardinality(Tracked) + Cardinality(leaked)

\* Slots that nobody gives back come back with the TTL: an owner is not shut
\* out for ever.
SlotsComeBack == (slots > 0) ~> (slots = 0)

\* The inductive invariant.
IInv ==
    /\ TypeOK /\ RateLimitKept /\ SlotsAccounted
    /\ Cardinality(InProgress) <= slots + Cardinality(untracked)
    /\ slots > 0 => expiring
    /\ \A c \in leaked : at[c] = "ended"
    /\ \A c \in untracked : at[c] \in {"guarded", "handling", "ended"}
    /\ \A c \in counted : at[c] \notin {"arrived", "named"}
=============================================================================
