--------------------------------- MODULE Access ---------------------------------
(***************************************************************************)
(* Who is let in: AuthService.authenticate reads an API key and then the   *)
(* policy of its owner through two caches in Redis, while administrators   *)
(* and owners revoke the key and change the plan, and Stripe changes the   *)
(* subscription.  One key, one owner, one plan.                            *)
(*                                                                         *)
(* Of a key only what Postgres says of it is kept (a revoked one is never  *)
(* cached; the date of expiry is looked at after the cache), of a policy   *)
(* the version of the plan it was made from.                               *)
(***************************************************************************)
EXTENDS Integers

CONSTANTS
    Calls,
    Admins,    \* requests to the admin and account endpoints
    MaxPlan,   \* bound: versions of the plan
    Ttl,       \* AUTH_CACHE_TTL, in ticks
    Hold       \* ticks that a call needs at most to get in

ASSUME AccessAssumption == MaxPlan \in Nat \ {0} /\ Ttl \in Nat \ {0} /\ Hold \in Nat

VARIABLES
    key,         \* Postgres: the key is "absent", "valid" or "revoked"
    sub,         \* Postgres: status of the owner's subscription
    plan,        \* Postgres: version of its plan
    keyTtl,      \* Redis: time left of the key, 0 if it is not cached
    policy,      \* Redis: the policy, or NoPolicy
    policyTtl,
    pc, got,     \* where a call is, and the policy it has in hand
    held,        \* ticks since it arrived
    task,        \* what an administrator's request does next
    keyLost,     \* history: nobody is going to drop the stale key
    policyLost,  \* history: nobody is going to drop the stale policy
    gone,        \* history: ticks since the key was revoked
    since        \* history: ticks since a policy was in force

db == <<key, sub, plan>>
keyVars == <<keyTtl, keyLost>>
policyVars == <<policy, policyTtl, policyLost>>
callVars == <<pc, got, held>>
vars == <<db, keyVars, policyVars, callVars, task, gone, since>>

Policies == 0 .. MaxPlan   \* 0 is defaultPolicy
NoPolicy == -1
Long == Ttl + Hold         \* ages beyond are not told apart

\* isSubscriptionActive and the rest of loadPolicyFromDb.
Loaded(s, p) == IF s \in {"active", "past_due"} THEN p ELSE 0

InForce == Loaded(sub, plan)

\* What rows, caches and callers may hold; nothing is cached for ever.
TypeOK ==
    /\ key \in {"absent", "valid", "revoked"}
    /\ sub \in {"none", "active", "past_due", "ended"} /\ plan \in 1 .. MaxPlan
    /\ keyTtl \in 0 .. Ttl /\ policyTtl \in 0 .. Ttl
    /\ policy \in Policies \cup {NoPolicy} /\ (policy = NoPolicy <=> policyTtl = 0)
    /\ pc \in [Calls -> {"idle", "loadKey", "fillKey", "policy", "loadPolicy", "fillPolicy"}]
    /\ got \in [Calls -> Policies] /\ held \in [Calls -> 0 .. Hold]
    /\ task \in [Admins -> {"none", "revoke", "delKey", "find", "delPolicy"}]
    /\ keyLost \in BOOLEAN /\ policyLost \in BOOLEAN
    /\ gone \in 0 .. Long /\ since \in [Policies -> 0 .. Long]

Init ==
    /\ key = "absent" /\ sub = "none" /\ plan = 1
    /\ keyTtl = 0 /\ policy = NoPolicy /\ policyTtl = 0
    /\ pc = [c \in Calls |-> "idle"] /\ got = [c \in Calls |-> 0] /\ held = [c \in Calls |-> 0]
    /\ task = [a \in Admins |-> "none"]
    /\ keyLost = FALSE /\ policyLost = FALSE
    /\ gone = 0 /\ since = [p \in Policies |-> IF p = 0 THEN 0 ELSE Long]

-----------------------------------------------------------------------------
(***************************************************************************)
(* A call.  Whatever query of it fails, the call is over.                  *)
(***************************************************************************)
Goto(c, from, to) == pc[c] = from /\ pc' = [pc EXCEPT ![c] = to]

\* The call is let in or refused.
End(c) == got' = [got EXCEPT ![c] = 0] /\ held' = [held EXCEPT ![c] = 0]

\* Mutation: reading a cached key renews its TTL.
ReadKey_Renews(c) ==
    /\ Goto(c, "idle", IF keyTtl > 0 THEN "policy" ELSE "loadKey")
    /\ keyTtl' = IF keyTtl > 0 THEN Ttl ELSE 0
    /\ UNCHANGED <<db, keyLost, policyVars, got, held, task, gone, since>>

\* validateApiKey: a cached key is not looked up.
ReadKey(c) ==
    /\ Goto(c, "idle", IF keyTtl > 0 THEN "policy" ELSE "loadKey")
    /\ UNCHANGED <<db, keyVars, policyVars, got, held, task, gone, since>>

\* fetchApiKeyFromDb: no key or a revoked one ends the call.
LoadKey(c) ==
    /\ \/ key = "valid" /\ Goto(c, "loadKey", "fillKey") /\ UNCHANGED <<got, held>>
       \/ key # "valid" /\ Goto(c, "loadKey", "idle") /\ End(c)
    /\ UNCHANGED <<db, keyVars, policyVars, task, gone, since>>

FillKey(c) ==
    /\ Goto(c, "fillKey", "policy")
    /\ keyTtl' = Ttl /\ keyLost' = (key = "revoked")
    /\ UNCHANGED <<db, policyVars, got, held, task, gone, since>>

\* getPolicy: a cached policy is not looked up.
ReadPolicy(c) ==
    /\ \/ policy # NoPolicy /\ Goto(c, "policy", "idle") /\ End(c)
       \/ policy = NoPolicy /\ Goto(c, "policy", "loadPolicy") /\ UNCHANGED <<got, held>>
    /\ UNCHANGED <<db, keyVars, policyVars, task, gone, since>>

LoadPolicy(c) ==
    /\ Goto(c, "loadPolicy", "fillPolicy") /\ got' = [got EXCEPT ![c] = InForce]
    /\ UNCHANGED <<db, keyVars, policyVars, held, task, gone, since>>

\* cachePolicy: the default policy is cached like any other.
FillPolicy(c) ==
    /\ Goto(c, "fillPolicy", "idle") /\ End(c)
    /\ policy' = got[c] /\ policyTtl' = Ttl /\ policyLost' = (got[c] # InForce)
    /\ UNCHANGED <<db, keyVars, task, gone, since>>

\* A query of the call fails.
Fails(c) ==
    /\ pc[c] # "idle" /\ Goto(c, pc[c], "idle") /\ End(c)
    /\ UNCHANGED <<db, keyVars, policyVars, task, gone, since>>

Authenticate(c) ==
    \/ ReadKey(c) \/ LoadKey(c) \/ FillKey(c) \/ ReadPolicy(c) \/ LoadPolicy(c) \/ FillPolicy(c)
    \/ Fails(c)

-----------------------------------------------------------------------------
(***************************************************************************)
(* Administrators, owners and Stripe.                                      *)
(***************************************************************************)
Do(a, from, to) == task[a] = from /\ task' = [task EXCEPT ![a] = to]

Enforce(p) == since' = [since EXCEPT ![p] = 0]

CreateKey ==
    /\ key = "absent" /\ key' = "valid"
    /\ UNCHANGED <<sub, plan, keyVars, policyVars, callVars, task, gone, since>>

\* A key that is revoked already is refused.
CheckKey(a) ==
    /\ key = "valid" /\ Do(a, "none", "revoke")
    /\ UNCHANGED <<db, keyVars, policyVars, callVars, gone, since>>

\* The transaction; it does not check again.
Revoke(a) ==
    /\ Do(a, "revoke", "delKey") /\ key' = "revoked"
    /\ gone' = IF key = "valid" THEN 0 ELSE gone
    /\ UNCHANGED <<sub, plan, keyVars, policyVars, callVars, since>>

\* invalidateApiKeyCache.
DropKey(a) ==
    /\ Do(a, "delKey", "none") /\ keyTtl' = 0 /\ keyLost' = FALSE
    /\ UNCHANGED <<db, policyVars, callVars, gone, since>>

\* The DEL fails or its process dies; the key cannot be revoked again.
DropKeyFails(a) ==
    /\ Do(a, "delKey", "none") /\ keyLost' = (keyTtl > 0)
    /\ UNCHANGED <<db, keyTtl, policyVars, callVars, gone, since>>

UpdatePlan(a) ==
    /\ Do(a, "none", "find") /\ plan < MaxPlan /\ plan' = plan + 1
    /\ Enforce(Loaded(sub, plan + 1))
    /\ UNCHANGED <<key, sub, keyVars, policyVars, callVars, gone>>

\* Mutation: only the owners that are paying are looked for.
FindSubscriptions_Active(a) ==
    /\ Do(a, "find", IF sub = "active" THEN "delPolicy" ELSE "none")
    /\ UNCHANGED <<db, keyVars, policyVars, callVars, gone, since>>

\* invalidatePlanPolicyCaches: whose policies to drop.
FindSubscriptions(a) ==
    /\ Do(a, "find", IF sub = "none" THEN "none" ELSE "delPolicy")
    /\ UNCHANGED <<db, keyVars, policyVars, callVars, gone, since>>

\* updateUser and updateOrganization change nothing that the policy is made
\* from, and drop it.
UpdateOwner(a) ==
    /\ Do(a, "none", "delPolicy")
    /\ UNCHANGED <<db, keyVars, policyVars, callVars, gone, since>>

DropPolicy(a) ==
    /\ Do(a, "delPolicy", "none")
    /\ policy' = NoPolicy /\ policyTtl' = 0 /\ policyLost' = FALSE
    /\ UNCHANGED <<db, keyVars, callVars, gone, since>>

\* A query or the DEL fails, or the process dies.
DropPolicyFails(a) ==
    /\ task[a] \in {"find", "delPolicy"} /\ task' = [task EXCEPT ![a] = "none"]
    /\ policyLost' = (policyLost \/ policy \notin {NoPolicy, InForce})
    /\ UNCHANGED <<db, keyVars, policy, policyTtl, callVars, gone, since>>

Administer(a) ==
    \/ CheckKey(a) \/ Revoke(a) \/ DropKey(a) \/ DropKeyFails(a)
    \/ UpdatePlan(a) \/ FindSubscriptions(a) \/ UpdateOwner(a) \/ DropPolicy(a) \/ DropPolicyFails(a)

\* The handlers of Stripe's events drop no policy.
SubscriptionChanges(s) ==
    /\ sub' = s /\ s # sub /\ (sub = "none" => s = "active")
    /\ Enforce(Loaded(s, plan))
    /\ policyLost' = (policyLost \/ policy \notin {NoPolicy, Loaded(s, plan)})
    /\ UNCHANGED <<key, plan, keyVars, policy, policyTtl, callVars, task, gone>>

-----------------------------------------------------------------------------
Least(m, n) == IF m < n THEN m ELSE n
Less(n) == IF n > 0 THEN n - 1 ELSE 0

\* Time passes and the keys of Redis with it.
Tick ==
    /\ \A c \in Calls : pc[c] # "idle" => held[c] < Hold
    /\ held' = [c \in Calls |-> IF pc[c] = "idle" THEN 0 ELSE held[c] + 1]
    /\ keyTtl' = Less(keyTtl) /\ keyLost' = (keyLost /\ keyTtl' > 0)
    /\ policyTtl' = Less(policyTtl) /\ policy' = (IF policyTtl' > 0 THEN policy ELSE NoPolicy)
    /\ policyLost' = (policyLost /\ policyTtl' > 0)
    /\ gone' = IF key = "revoked" THEN Least(gone + 1, Long) ELSE 0
    /\ since' = [p \in Policies |-> IF p = InForce THEN 0 ELSE Least(since[p] + 1, Long)]
    /\ UNCHANGED <<db, pc, got, task>>

AccessNext ==
    \/ \E c \in Calls : Authenticate(c)
    \/ \E a \in Admins : Administer(a)
    \/ CreateKey \/ Tick
    \/ \E s \in {"active", "past_due", "ended"} : SubscriptionChanges(s)

Spec == Init /\ [][AccessNext]_vars

-----------------------------------------------------------------------------
(***************************************************************************)
(* What holds.                                                             *)
(***************************************************************************)
\* A revoked key or an outdated policy is cached only while the request that
\* changed it still has to drop it, or after the drop failed, a call filled
\* the cache with what it had loaded before the change, or Stripe made the
\* change (revokeApiKey, updatePlan and the two read-through caches).
StaleHasCause ==
    /\ (keyTtl > 0 /\ key = "revoked") => (keyLost \/ \E a \in Admins : task[a] = "delKey")
    /\ (policy \notin {NoPolicy, InForce})
        => (policyLost \/ \E a \in Admins : task[a] \in {"find", "delPolicy"})

\* Whatever failed or crossed, the time since a cached key was revoked, or a
\* cached policy went out of force, and the time that it stays cached are no
\* more than the TTL and the time of the call that cached it.
StalenessBounded ==
    /\ (keyTtl > 0 /\ key = "revoked") => gone + keyTtl <= Ttl + Hold
    /\ policy # NoPolicy => since[policy] + policyTtl <= Ttl + Hold
=============================================================================
