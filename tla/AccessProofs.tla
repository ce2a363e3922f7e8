------------------------------ MODULE AccessProofs ------------------------------
(***************************************************************************)
(* What Access promises, for any numbers of calls and administrators, any  *)
(* number of versions of the plan, any TTL and any duration of a call.     *)
(***************************************************************************)
EXTENDS Access, TLAPS

(***************************************************************************)
(* The clocks of the history and what the calls have in hand agree with    *)
(* Postgres: a key that is not revoked has been gone for no time, nor has  *)
(* the policy in force; an owner that never subscribed has the default     *)
(* policy everywhere; and what a call is about to cache was right when the *)
(* call came.                                                              *)
(***************************************************************************)
Clocks == (key # "revoked" => gone = 0) /\ since[InForce] = 0

NeverPaid == sub = "none" => policy \in {NoPolicy, 0} /\ \A c \in Calls : got[c] = 0

FreshKeys == \A c \in Calls : pc[c] = "fillKey" /\ key = "revoked" => gone <= held[c]

FreshPolicies == \A c \in Calls : pc[c] = "fillPolicy" => since[got[c]] <= held[c]

AccessInv == Clocks /\ NeverPaid /\ FreshKeys /\ FreshPolicies

KeyHasCause ==
    (keyTtl > 0 /\ key = "revoked") => (keyLost \/ \E a \in Admins : task[a] = "delKey")

PolicyHasCause ==
    policy \notin {NoPolicy, InForce}
        => (policyLost \/ \E a \in Admins : task[a] \in {"find", "delPolicy"})

KeyBounded == (keyTtl > 0 /\ key = "revoked") => gone + keyTtl <= Ttl + Hold

PolicyBounded == policy # NoPolicy => since[policy] + policyTtl <= Ttl + Hold

-----------------------------------------------------------------------------
(***************************************************************************)
(* Types.                                                                  *)
(***************************************************************************)
LEMMA LoadedType == ASSUME NEW s, NEW p \in 1 .. MaxPlan PROVE Loaded(s, p) \in Policies
  BY AccessAssumption DEF Loaded, Policies

\* The ends of the ranges are in them.
LEMMA Ends ==
    /\ 0 \in 0 .. Ttl /\ Ttl \in 0 .. Ttl /\ 0 \in 0 .. Hold /\ 0 \in 0 .. Long /\ Long \in 0 .. Long
    /\ 0 \in Policies /\ 1 \in 1 .. MaxPlan /\ NoPolicy \notin Policies /\ Ttl # 0
  BY AccessAssumption DEF Policies, NoPolicy, Long

LEMMA InitType == Init => TypeOK
<1> SUFFICES ASSUME Init PROVE TypeOK
  OBVIOUS
<1>1. pc \in [Calls -> {"idle"}] /\ task \in [Admins -> {"none"}]
  BY DEF Init
<1>2. got \in [Calls -> Policies] /\ held \in [Calls -> 0 .. Hold] /\ since \in [Policies -> 0 .. Long]
  BY Ends DEF Init
<1> QED BY <1>1, <1>2, Ends DEF Init, TypeOK

LEMMA CallType ==
    ASSUME TypeOK, NEW c \in Calls, Authenticate(c)
    PROVE  TypeOK'
<1> USE AccessAssumption DEF TypeOK, db, keyVars, policyVars, callVars, Goto, End
<1>1. CASE ReadKey(c)
  BY <1>1 DEF ReadKey
<1>2. CASE LoadKey(c)
  <2>1. CASE key = "valid"
    BY <1>2, <2>1 DEF LoadKey
  <2>2. CASE key # "valid"
    BY <1>2, <2>2, Ends DEF LoadKey
  <2> QED BY <2>1, <2>2
<1>3. CASE FillKey(c)
  BY <1>3 DEF FillKey
<1>4. CASE ReadPolicy(c)
  <2>1. CASE policy # NoPolicy
    BY <1>4, <2>1, Ends DEF ReadPolicy
  <2>2. CASE policy = NoPolicy
    BY <1>4, <2>2 DEF ReadPolicy
  <2> QED BY <2>1, <2>2
<1>5. CASE LoadPolicy(c)
  <2>1. InForce \in Policies
    BY LoadedType DEF InForce
  <2> QED BY <1>5, <2>1 DEF LoadPolicy
<1>6. CASE FillPolicy(c)
  <2>1. got[c] \in Policies /\ got[c] # NoPolicy
    BY DEF Policies, NoPolicy
  <2> QED BY <1>6, <2>1 DEF FillPolicy, Policies
<1>7. CASE Fails(c)
  BY <1>7 DEF Fails, Policies
<1> QED BY <1>1, <1>2, <1>3, <1>4, <1>5, <1>6, <1>7 DEF Authenticate

\* Bringing a policy into force keeps the clocks within their range.
LEMMA EnforceType ==
    ASSUME TypeOK, NEW p \in Policies, Enforce(p)
    PROVE  since' \in [Policies -> 0 .. Long]
  BY AccessAssumption DEF TypeOK, Enforce, Long

LEMMA AdminType ==
    ASSUME TypeOK, NEW a \in Admins, Administer(a)
    PROVE  TypeOK'
<1> USE AccessAssumption DEF TypeOK, db, keyVars, policyVars, callVars, Do
<1>1. CASE CheckKey(a)
  BY <1>1 DEF CheckKey
<1>2. CASE Revoke(a)
  BY <1>2 DEF Revoke, Long
<1>3. CASE DropKey(a)
  <2>1. keyTtl' \in 0 .. Ttl
    BY <1>3, Ends DEF DropKey
  <2> QED BY <1>3, <2>1 DEF DropKey
<1>4. CASE DropKeyFails(a)
  BY <1>4 DEF DropKeyFails
<1>5. CASE UpdatePlan(a)
  <2>1. plan + 1 \in 1 .. MaxPlan
    BY <1>5 DEF UpdatePlan
  <2>2. since' \in [Policies -> 0 .. Long]
    BY <1>5, <2>1, LoadedType, EnforceType DEF UpdatePlan
  <2> QED BY <1>5, <2>1, <2>2 DEF UpdatePlan
<1>6. CASE FindSubscriptions(a)
  BY <1>6 DEF FindSubscriptions
<1>7. CASE UpdateOwner(a)
  BY <1>7 DEF UpdateOwner
<1>8. CASE DropPolicy(a)
  <2>1. policyTtl' \in 0 .. Ttl /\ policy' \in Policies \cup {NoPolicy}
    BY <1>8, Ends DEF DropPolicy
  <2> QED BY <1>8, <2>1 DEF DropPolicy
<1>9. CASE DropPolicyFails(a)
  BY <1>9 DEF DropPolicyFails
<1> QED
  BY <1>1, <1>2, <1>3, <1>4, <1>5, <1>6, <1>7, <1>8, <1>9 DEF Administer

LEMMA TickType ==
    ASSUME TypeOK, Tick
    PROVE  TypeOK'
<1> USE AccessAssumption DEF TypeOK
<1>1. held' \in [Calls -> 0 .. Hold]
  <2>1. \A c \in Calls : (IF pc[c] = "idle" THEN 0 ELSE held[c] + 1) \in 0 .. Hold
    BY DEF Tick
  <2> QED BY <2>1 DEF Tick
<1>2. keyTtl' \in 0 .. Ttl /\ policyTtl' \in 0 .. Ttl
  BY DEF Tick, Less
<1>3. policy' \in Policies \cup {NoPolicy} /\ (policy' = NoPolicy <=> policyTtl' = 0)
  BY <1>2 DEF Tick, Less
<1>4. gone' \in 0 .. Long /\ since' \in [Policies -> 0 .. Long]
  BY DEF Tick, Least, Long
<1>5. keyLost' \in BOOLEAN /\ policyLost' \in BOOLEAN
  BY DEF Tick
<1> QED BY <1>1, <1>2, <1>3, <1>4, <1>5 DEF Tick, db

LEMMA NextType == TypeOK /\ [AccessNext]_vars => TypeOK'
<1> SUFFICES ASSUME TypeOK, [AccessNext]_vars PROVE TypeOK'
  OBVIOUS
<1>1. CASE CreateKey
  BY <1>1 DEF CreateKey, TypeOK, keyVars, policyVars, callVars
<1>2. CASE \E s \in {"active", "past_due", "ended"} : SubscriptionChanges(s)
  <2>1. PICK s \in {"active", "past_due", "ended"} : SubscriptionChanges(s)
    BY <1>2
  <2>2. since' \in [Policies -> 0 .. Long]
    BY <2>1, LoadedType, EnforceType DEF SubscriptionChanges, TypeOK
  <2> QED BY <2>1, <2>2 DEF SubscriptionChanges, TypeOK, keyVars, callVars
<1>3. CASE UNCHANGED vars
  BY <1>3 DEF TypeOK, vars, db, keyVars, policyVars, callVars
<1> QED BY <1>1, <1>2, <1>3, CallType, AdminType, TickType DEF AccessNext

\* Rows, caches and calls only ever hold what TypeOK says; no entry of a cache
\* is kept without a TTL (cachePolicy, validateApiKey).
THEOREM TypeCorrect == Spec => []TypeOK
  BY InitType, NextType, PTL DEF Spec

-----------------------------------------------------------------------------
(***************************************************************************)
(* The clocks and what the calls carry.                                    *)
(***************************************************************************)
LEMMA InitInv == Init => AccessInv
<1> SUFFICES ASSUME Init PROVE AccessInv
  OBVIOUS
<1>1. InForce = 0 /\ since[0] = 0
  BY Ends DEF Init, InForce, Loaded
<1>2. Clocks /\ NeverPaid
  BY <1>1 DEF Init, Clocks, NeverPaid
<1>3. FreshKeys /\ FreshPolicies
  BY DEF Init, FreshKeys, FreshPolicies
<1> QED BY <1>2, <1>3 DEF AccessInv

\* A call changes neither Postgres nor the clocks.
LEMMA CallLeaves ==
    ASSUME NEW c \in Calls, Authenticate(c)
    PROVE  UNCHANGED <<key, sub, plan, gone, since, task>> /\ InForce' = InForce
  BY DEF Authenticate, ReadKey, LoadKey, FillKey, ReadPolicy, LoadPolicy, FillPolicy, Fails,
         db, InForce

LEMMA CallInv ==
    ASSUME TypeOK, AccessInv, NEW c \in Calls, Authenticate(c)
    PROVE  AccessInv'
<1> USE DEF Goto, End, db, keyVars, policyVars
<1> DEFINE Same == UNCHANGED <<key, sub, plan, gone, since, task>> /\ InForce' = InForce
<1>0. Same
  BY CallLeaves
<1>1. Clocks'
  BY <1>0 DEF AccessInv, Clocks
<1>2. \* only LoadPolicy and FillPolicy put a policy anywhere
      /\ \A d \in Calls : got'[d] \in {got[d], 0, InForce}
      /\ policy' \in {policy} \cup {got[d] : d \in Calls}
  <2>1. CASE ReadKey(c) \/ LoadKey(c) \/ FillKey(c) \/ ReadPolicy(c) \/ Fails(c)
    BY <2>1 DEF ReadKey, LoadKey, FillKey, ReadPolicy, Fails, TypeOK
  <2>2. CASE LoadPolicy(c)
    BY <2>2 DEF LoadPolicy, TypeOK
  <2>3. CASE FillPolicy(c)
    BY <2>3 DEF FillPolicy, TypeOK
  <2> QED BY <2>1, <2>2, <2>3 DEF Authenticate
<1>3. NeverPaid'
  <2>1. sub = "none" => InForce = 0
    BY DEF InForce, Loaded
  <2> QED BY <1>0, <1>2, <2>1 DEF AccessInv, NeverPaid
<1>4. FreshKeys'
  <2> SUFFICES ASSUME NEW d \in Calls, pc'[d] = "fillKey", key' = "revoked"
               PROVE  gone' <= held'[d]
    BY DEF FreshKeys
  <2>1. key = "revoked"
    BY <1>0
  <2>2. pc[d] = "fillKey" /\ held'[d] = held[d]
    <3>1. CASE LoadKey(c)
      BY <2>1, <3>1 DEF LoadKey, TypeOK
    <3>2. CASE ReadKey(c) \/ FillKey(c) \/ LoadPolicy(c)
      BY <3>2 DEF ReadKey, FillKey, LoadPolicy, TypeOK
    <3>3. CASE ReadPolicy(c)
      BY <3>3 DEF ReadPolicy, TypeOK
    <3>4. CASE FillPolicy(c) \/ Fails(c)
      BY <3>4 DEF FillPolicy, Fails, TypeOK
    <3> QED BY <3>1, <3>2, <3>3, <3>4 DEF Authenticate
  <2> QED BY <1>0, <2>1, <2>2 DEF AccessInv, FreshKeys
<1>5. FreshPolicies'
  <2> SUFFICES ASSUME NEW d \in Calls, pc'[d] = "fillPolicy"
               PROVE  since'[got'[d]] <= held'[d]
    BY DEF FreshPolicies
  <2>1. CASE LoadPolicy(c) /\ d = c
    <3>1. got'[d] = InForce /\ held'[d] = held[d] /\ held[d] \in Nat
      BY <2>1, AccessAssumption DEF LoadPolicy, TypeOK
    <3>2. since'[got'[d]] = 0
      BY <1>0, <3>1 DEF AccessInv, Clocks
    <3> QED BY <3>1, <3>2
  <2>2. CASE ~ (LoadPolicy(c) /\ d = c)
    <3>1. pc[d] = "fillPolicy" /\ got'[d] = got[d] /\ held'[d] = held[d]
      <4>1. CASE ReadKey(c) \/ LoadKey(c) \/ FillKey(c)
        BY <4>1 DEF ReadKey, LoadKey, FillKey, TypeOK
      <4>2. CASE ReadPolicy(c)
        BY <4>2 DEF ReadPolicy, TypeOK
      <4>3. CASE LoadPolicy(c)
        BY <2>2, <4>3 DEF LoadPolicy, TypeOK
      <4>4. CASE FillPolicy(c) \/ Fails(c)
        BY <4>4 DEF FillPolicy, Fails, TypeOK
      <4> QED BY <4>1, <4>2, <4>3, <4>4 DEF Authenticate
    <3> QED BY <1>0, <3>1 DEF AccessInv, FreshPolicies
  <2> QED BY <2>1, <2>2
<1> QED BY <1>1, <1>3, <1>4, <1>5 DEF AccessInv

\* Bringing a policy into force only sets clocks back.
LEMMA EnforceClock ==
    ASSUME TypeOK, NEW p \in Policies, Enforce(p)
    PROVE  since'[p] = 0 /\ \A q \in Policies : since'[q] <= since[q]
  BY AccessAssumption DEF TypeOK, Enforce, Long

\* Whatever leaves the calls alone, and sets clocks only back, keeps what
\* they carry.
LEMMA EarlierInv ==
    ASSUME TypeOK, TypeOK', AccessInv, UNCHANGED callVars,
           \A q \in Policies : since'[q] <= since[q],
           key' = "revoked" => gone' <= 0 \/ (key = "revoked" /\ gone' = gone)
    PROVE  FreshKeys' /\ FreshPolicies'
<1> USE AccessAssumption DEF callVars
<1>1. FreshKeys'
  <2> SUFFICES ASSUME NEW d \in Calls, pc'[d] = "fillKey", key' = "revoked"
               PROVE  gone' <= held'[d]
    BY DEF FreshKeys
  <2>1. held'[d] = held[d] /\ held[d] \in Nat /\ gone' \in Int /\ pc[d] = "fillKey"
    BY DEF TypeOK, Long
  <2>2. CASE gone' <= 0
    BY <2>1, <2>2
  <2>3. CASE key = "revoked" /\ gone' = gone
    BY <2>1, <2>3 DEF AccessInv, FreshKeys
  <2> QED BY <2>2, <2>3
<1>2. FreshPolicies'
  <2> SUFFICES ASSUME NEW d \in Calls, pc'[d] = "fillPolicy"
               PROVE  since'[got'[d]] <= held'[d]
    BY DEF FreshPolicies
  <2>1. got'[d] = got[d] /\ held'[d] = held[d] /\ got[d] \in Policies /\ pc[d] = "fillPolicy"
    BY DEF TypeOK
  <2>2. held[d] \in Int /\ since[got[d]] \in Int /\ since'[got[d]] \in Int
    BY <2>1 DEF TypeOK, Long
  <2>3. since[got[d]] <= held[d] /\ since'[got[d]] <= since[got[d]]
    BY <2>1 DEF AccessInv, FreshPolicies
  <2> QED BY <2>1, <2>2, <2>3
<1> QED BY <1>1, <1>2

LEMMA AdminInv ==
    ASSUME TypeOK, TypeOK', AccessInv, NEW a \in Admins, Administer(a)
    PROVE  AccessInv'
<1> USE DEF Do, db, keyVars, policyVars, callVars
<1>1. UNCHANGED callVars
  BY DEF Administer, CheckKey, Revoke, DropKey, DropKeyFails, UpdatePlan, FindSubscriptions,
         UpdateOwner, DropPolicy, DropPolicyFails
<1>2. sub' = sub /\ policy' \in {policy, NoPolicy}
  BY DEF Administer, CheckKey, Revoke, DropKey, DropKeyFails, UpdatePlan, FindSubscriptions,
         UpdateOwner, DropPolicy, DropPolicyFails
<1>3. NeverPaid'
  BY <1>1, <1>2 DEF AccessInv, NeverPaid
<1>4. since'[InForce'] = 0 /\ \A q \in Policies : since'[q] <= since[q]
  <2>1. CASE UpdatePlan(a)
    <3>1. plan + 1 \in 1 .. MaxPlan /\ Enforce(Loaded(sub, plan + 1)) /\ InForce' = Loaded(sub, plan + 1)
      BY <2>1, AccessAssumption DEF UpdatePlan, TypeOK, InForce, Loaded
    <3> QED BY <3>1, LoadedType, EnforceClock
  <2>2. CASE ~ UpdatePlan(a)
    <3>1. UNCHANGED <<sub, plan, since>>
      BY <2>2 DEF Administer, CheckKey, Revoke, DropKey, DropKeyFails, FindSubscriptions,
                  UpdateOwner, DropPolicy, DropPolicyFails
    <3>2. \A q \in Policies : since[q] <= since[q]
      BY AccessAssumption DEF TypeOK, Long
    <3> QED BY <3>1, <3>2 DEF AccessInv, Clocks, InForce
  <2> QED BY <2>1, <2>2
<1>5. /\ key' # "revoked" => key # "revoked" /\ gone' = gone
      /\ key' = "revoked" => gone' <= 0 \/ (key = "revoked" /\ gone' = gone)
  <2>1. CASE Revoke(a)
    <3>1. key' = "revoked" /\ (key = "revoked" => gone' = gone)
      BY <2>1 DEF Revoke
    <3>2. key # "revoked" => gone' = 0
      BY <2>1 DEF Revoke, AccessInv, Clocks
    <3> QED BY <3>1, <3>2
  <2>2. CASE ~ Revoke(a)
    <3>1. UNCHANGED <<key, gone>>
      BY <2>2 DEF Administer, CheckKey, DropKey, DropKeyFails, UpdatePlan, FindSubscriptions,
                  UpdateOwner, DropPolicy, DropPolicyFails
    <3> QED BY <3>1
  <2> QED BY <2>1, <2>2
<1>6. Clocks'
  BY <1>4, <1>5 DEF AccessInv, Clocks
<1>7. FreshKeys' /\ FreshPolicies'
  BY <1>1, <1>4, <1>5, EarlierInv
<1> QED BY <1>3, <1>6, <1>7 DEF AccessInv

LEMMA SubscriptionInv ==
    ASSUME TypeOK, TypeOK', AccessInv,
           NEW s \in {"active", "past_due", "ended"}, SubscriptionChanges(s)
    PROVE  AccessInv'
<1>1. /\ UNCHANGED <<key, gone>> /\ UNCHANGED callVars /\ policy' = policy
      /\ sub' = s /\ plan' = plan /\ Enforce(Loaded(s, plan))
  BY DEF SubscriptionChanges, keyVars
<1>2. since'[InForce'] = 0 /\ \A q \in Policies : since'[q] <= since[q]
  <2>1. InForce' = Loaded(s, plan) /\ plan \in 1 .. MaxPlan
    BY <1>1 DEF InForce, TypeOK
  <2> QED BY <1>1, <2>1, LoadedType, EnforceClock
<1>3. Clocks'
  BY <1>1, <1>2 DEF AccessInv, Clocks
<1>4. NeverPaid'
  <2>1. s # "none"
    BY DEF SubscriptionChanges
  <2> QED BY <1>1, <2>1 DEF NeverPaid
<1>5. FreshKeys' /\ FreshPolicies'
  BY <1>1, <1>2, EarlierInv
<1> QED BY <1>3, <1>4, <1>5 DEF AccessInv

LEMMA TickInv ==
    ASSUME TypeOK, AccessInv, Tick
    PROVE  AccessInv'
<1> USE AccessAssumption
<1>1. UNCHANGED <<key, sub, plan, pc, got>> /\ InForce' = InForce /\ InForce \in Policies
  BY LoadedType DEF Tick, db, InForce, TypeOK
<1>2. Clocks'
  BY <1>1 DEF Tick, Clocks
<1>3. NeverPaid'
  BY <1>1 DEF Tick, AccessInv, NeverPaid
<1>4. \A d \in Calls : pc[d] # "idle" => held'[d] = held[d] + 1
  BY DEF Tick
<1>5. FreshKeys'
  <2> SUFFICES ASSUME NEW d \in Calls, pc'[d] = "fillKey", key' = "revoked"
               PROVE  gone' <= held'[d]
    BY DEF FreshKeys
  <2>1. held'[d] = held[d] + 1 /\ gone <= held[d] /\ held[d] \in Int /\ gone \in Int /\ Long \in Int
    BY <1>1, <1>4 DEF AccessInv, FreshKeys, TypeOK, Long
  <2>2. gone' <= gone + 1
    BY <1>1, <2>1 DEF Tick, Least
  <2>3. gone' \in Int
    BY <1>1, <2>1 DEF Tick, Least
  <2> QED BY <2>1, <2>2, <2>3
<1>6. FreshPolicies'
  <2> SUFFICES ASSUME NEW d \in Calls, pc'[d] = "fillPolicy"
               PROVE  since'[got'[d]] <= held'[d]
    BY DEF FreshPolicies
  <2>1. got'[d] = got[d] /\ got[d] \in Policies /\ held'[d] = held[d] + 1 /\ held[d] \in Nat
    BY <1>1, <1>4 DEF TypeOK
  <2>2. since[got[d]] <= held[d] /\ since[got[d]] \in Int /\ Long \in Int
    BY <1>1, <2>1 DEF AccessInv, FreshPolicies, TypeOK, Long
  <2>3. since'[got[d]] = IF got[d] = InForce THEN 0 ELSE Least(since[got[d]] + 1, Long)
    BY <2>1 DEF Tick
  <2> QED BY <2>1, <2>2, <2>3 DEF Least
<1> QED BY <1>2, <1>3, <1>5, <1>6 DEF AccessInv

LEMMA NextInv == TypeOK /\ TypeOK' /\ AccessInv /\ [AccessNext]_vars => AccessInv'
<1> SUFFICES ASSUME TypeOK, TypeOK', AccessInv, [AccessNext]_vars PROVE AccessInv'
  OBVIOUS
<1>1. CASE CreateKey
  BY <1>1 DEF CreateKey, keyVars, policyVars, callVars, AccessInv, Clocks, NeverPaid, FreshKeys,
              FreshPolicies, InForce
<1>2. CASE UNCHANGED vars
  BY <1>2 DEF vars, db, policyVars, callVars, AccessInv, Clocks, NeverPaid, FreshKeys,
              FreshPolicies, InForce
<1> QED BY <1>1, <1>2, CallInv, AdminInv, SubscriptionInv, TickInv DEF AccessNext

LEMMA Invariant == Spec => []AccessInv
  BY NextInv, TypeCorrect, InitInv, PTL DEF Spec

-----------------------------------------------------------------------------
(***************************************************************************)
(* What a stale entry of a cache is due to.                                *)
(***************************************************************************)
\* A request that is about to drop an entry goes on doing so, drops it, or
\* fails and leaves word that it did.
LEMMA OtherTasks ==
    ASSUME TypeOK, NEW a \in Admins, NEW b \in Admins, Administer(a), a # b
    PROVE  task'[b] = task[b]
  BY DEF TypeOK, Administer, Do, CheckKey, Revoke, DropKey, DropKeyFails, UpdatePlan,
         FindSubscriptions, UpdateOwner, DropPolicy, DropPolicyFails

LEMMA KeyCauseStep == TypeOK /\ KeyHasCause /\ [AccessNext]_vars => KeyHasCause'
<1> SUFFICES ASSUME TypeOK, KeyHasCause, [AccessNext]_vars, keyTtl' > 0, key' = "revoked"
             PROVE  keyLost' \/ \E a \in Admins : task'[a] = "delKey"
  BY DEF KeyHasCause
<1> USE DEF KeyHasCause, db, keyVars, policyVars, callVars
<1>1. ASSUME NEW c \in Calls, Authenticate(c)
      PROVE  keyLost' \/ \E a \in Admins : task'[a] = "delKey"
  <2>1. CASE FillKey(c)
    BY <2>1 DEF FillKey
  <2>2. CASE ~ FillKey(c)
    <3>1. UNCHANGED <<key, keyTtl, keyLost, task>>
      BY <1>1, <2>2 DEF Authenticate, ReadKey, LoadKey, ReadPolicy, LoadPolicy, FillPolicy, Fails
    <3> QED BY <3>1
  <2> QED BY <2>1, <2>2
<1>2. ASSUME NEW a \in Admins, Administer(a)
      PROVE  keyLost' \/ \E b \in Admins : task'[b] = "delKey"
  <2>1. CASE Revoke(a)
    <3>1. task'[a] = "delKey"
      BY <2>1 DEF Revoke, Do, TypeOK
    <3> QED BY <3>1
  <2>2. CASE DropKey(a)
    BY <2>2 DEF DropKey
  <2>3. CASE DropKeyFails(a)
    BY <2>3 DEF DropKeyFails
  <2>4. CASE ~ (Revoke(a) \/ DropKey(a) \/ DropKeyFails(a))
    <3>1. UNCHANGED <<key, keyTtl, keyLost>> /\ task[a] # "delKey"
      BY <1>2, <2>4 DEF Administer, Do, CheckKey, UpdatePlan, FindSubscriptions, UpdateOwner,
                        DropPolicy, DropPolicyFails
    <3> QED BY <1>2, <3>1, OtherTasks
  <2> QED BY <2>1, <2>2, <2>3, <2>4
<1>3. CASE CreateKey
  BY <1>3 DEF CreateKey
<1>4. CASE \E s \in {"active", "past_due", "ended"} : SubscriptionChanges(s)
  BY <1>4 DEF SubscriptionChanges
<1>5. CASE Tick
  <2>1. keyTtl > 0 /\ UNCHANGED <<key, task>> /\ keyLost' = (keyLost /\ keyTtl' > 0)
    BY <1>5 DEF Tick, Less, TypeOK
  <2> QED BY <2>1
<1>6. CASE UNCHANGED vars
  BY <1>6 DEF vars
<1> QED BY <1>1, <1>2, <1>3, <1>4, <1>5, <1>6 DEF AccessNext

LEMMA PolicyCauseStep ==
    TypeOK /\ AccessInv /\ PolicyHasCause /\ [AccessNext]_vars => PolicyHasCause'
<1> SUFFICES ASSUME TypeOK, AccessInv, PolicyHasCause, [AccessNext]_vars,
                    policy' \notin {NoPolicy, InForce'}
             PROVE  policyLost' \/ \E a \in Admins : task'[a] \in {"find", "delPolicy"}
  BY DEF PolicyHasCause
<1> USE DEF PolicyHasCause, db, keyVars, policyVars, callVars
<1>1. ASSUME NEW c \in Calls, Authenticate(c)
      PROVE  policyLost' \/ \E a \in Admins : task'[a] \in {"find", "delPolicy"}
  <2>1. CASE FillPolicy(c)
    BY <2>1, <1>1, CallLeaves DEF FillPolicy
  <2>2. CASE ~ FillPolicy(c)
    <3>1. UNCHANGED <<policy, policyLost, task>> /\ InForce' = InForce
      BY <1>1, <2>2, CallLeaves
         DEF Authenticate, ReadKey, LoadKey, FillKey, ReadPolicy, LoadPolicy, Fails
    <3> QED BY <3>1
  <2> QED BY <2>1, <2>2
<1>2. ASSUME NEW a \in Admins, Administer(a)
      PROVE  policyLost' \/ \E b \in Admins : task'[b] \in {"find", "delPolicy"}
  <2>1. CASE UpdatePlan(a)
    <3>1. task'[a] = "find"
      BY <2>1 DEF UpdatePlan, Do, TypeOK
    <3> QED BY <3>1
  <2>2. CASE FindSubscriptions(a)
    <3>1. CASE sub = "none"
      <4>1. policy' = policy /\ InForce' = 0
        BY <2>2, <3>1 DEF FindSubscriptions, InForce, Loaded
      <4> QED BY <3>1, <4>1 DEF AccessInv, NeverPaid
    <3>2. CASE sub # "none"
      <4>1. task'[a] = "delPolicy"
        BY <2>2, <3>2 DEF FindSubscriptions, Do, TypeOK
      <4> QED BY <4>1
    <3> QED BY <3>1, <3>2
  <2>3. CASE DropPolicy(a)
    BY <2>3 DEF DropPolicy
  <2>4. CASE DropPolicyFails(a)
    <3>1. policy' = policy /\ InForce' = InForce /\ policyLost' = (policyLost \/ policy \notin {NoPolicy, InForce})
      BY <2>4 DEF DropPolicyFails, InForce
    <3> QED BY <3>1
  <2>5. CASE ~ (UpdatePlan(a) \/ FindSubscriptions(a) \/ DropPolicy(a) \/ DropPolicyFails(a))
    <3>1. UNCHANGED <<sub, plan, policy, policyLost>> /\ task[a] \notin {"find", "delPolicy"}
      BY <1>2, <2>5 DEF Administer, Do, CheckKey, Revoke, DropKey, DropKeyFails, UpdateOwner
    <3>2. InForce' = InForce
      BY <3>1 DEF InForce
    <3> QED BY <1>2, <3>1, <3>2, OtherTasks
  <2> QED BY <2>1, <2>2, <2>3, <2>4, <2>5
<1>3. CASE CreateKey
  BY <1>3 DEF CreateKey, InForce
<1>4. CASE \E s \in {"active", "past_due", "ended"} : SubscriptionChanges(s)
  <2>1. PICK s \in {"active", "past_due", "ended"} : SubscriptionChanges(s)
    BY <1>4
  <2>2. /\ policy' = policy /\ InForce' = Loaded(s, plan)
        /\ policyLost' = (policyLost \/ policy \notin {NoPolicy, Loaded(s, plan)})
    BY <2>1 DEF SubscriptionChanges, InForce
  <2> QED BY <2>2
<1>5. CASE Tick
  <2>1. /\ policy' = policy /\ policyTtl' > 0 /\ UNCHANGED <<task, sub, plan>>
        /\ policyLost' = (policyLost /\ policyTtl' > 0)
    BY <1>5 DEF Tick
  <2> QED BY <2>1 DEF InForce
<1>6. CASE UNCHANGED vars
  BY <1>6 DEF vars, InForce
<1> QED BY <1>1, <1>2, <1>3, <1>4, <1>5, <1>6 DEF AccessNext

\* A revoked key or an outdated policy is cached only while its request still
\* has to drop it, or after that failed, a call cached what it had loaded
\* before the change, or Stripe made the change.
THEOREM StalenessExplained == Spec => []StaleHasCause
<1>1. Init => KeyHasCause /\ PolicyHasCause
  BY DEF Init, KeyHasCause, PolicyHasCause
<1>2. KeyHasCause /\ PolicyHasCause => StaleHasCause
  BY DEF KeyHasCause, PolicyHasCause, StaleHasCause
<1> QED BY <1>1, <1>2, KeyCauseStep, PolicyCauseStep, TypeCorrect, Invariant, PTL DEF Spec

-----------------------------------------------------------------------------
(***************************************************************************)
(* How long it lasts.                                                      *)
(***************************************************************************)
LEMMA KeyBoundStep ==
    TypeOK /\ TypeOK' /\ AccessInv /\ KeyBounded /\ [AccessNext]_vars => KeyBounded'
<1> SUFFICES ASSUME TypeOK, TypeOK', AccessInv, KeyBounded, [AccessNext]_vars,
                    keyTtl' > 0, key' = "revoked"
             PROVE  gone' + keyTtl' <= Ttl + Hold
  BY DEF KeyBounded
<1> USE AccessAssumption DEF KeyBounded, db, keyVars, policyVars, callVars
<1>0. keyTtl \in 0 .. Ttl /\ keyTtl' \in 0 .. Ttl /\ gone \in Nat /\ gone' \in Nat
  BY DEF TypeOK, Long
<1>1. ASSUME NEW c \in Calls, Authenticate(c)
      PROVE  gone' + keyTtl' <= Ttl + Hold
  <2>1. CASE FillKey(c)
    <3>1. gone <= held[c] /\ held[c] <= Hold /\ held[c] \in Nat
      BY <1>1, <2>1, CallLeaves DEF FillKey, Goto, AccessInv, FreshKeys, TypeOK
    <3>2. keyTtl' = Ttl /\ gone' = gone
      BY <1>1, <2>1, CallLeaves DEF FillKey
    <3> QED BY <1>0, <3>1, <3>2
  <2>2. CASE ~ FillKey(c)
    <3>1. UNCHANGED <<key, keyTtl, gone>>
      BY <1>1, <2>2 DEF Authenticate, ReadKey, LoadKey, ReadPolicy, LoadPolicy, FillPolicy, Fails
    <3> QED BY <3>1
  <2> QED BY <2>1, <2>2
<1>2. ASSUME NEW a \in Admins, Administer(a)
      PROVE  gone' + keyTtl' <= Ttl + Hold
  <2>1. CASE Revoke(a) /\ key # "revoked"
    <3>1. gone' = 0 /\ keyTtl' = keyTtl
      BY <2>1 DEF Revoke, AccessInv, Clocks
    <3> QED BY <1>0, <3>1
  <2>2. CASE DropKey(a)
    BY <1>0, <2>2 DEF DropKey
  <2>3. CASE ~ (Revoke(a) /\ key # "revoked") /\ ~ DropKey(a)
    <3>1. UNCHANGED <<keyTtl, gone>> /\ key = "revoked"
      BY <1>2, <2>3 DEF Administer, CheckKey, Revoke, DropKeyFails, UpdatePlan, FindSubscriptions,
                        UpdateOwner, DropPolicy, DropPolicyFails
    <3> QED BY <3>1
  <2> QED BY <2>1, <2>2, <2>3
<1>3. CASE CreateKey
  BY <1>3 DEF CreateKey
<1>4. CASE \E s \in {"active", "past_due", "ended"} : SubscriptionChanges(s)
  BY <1>4 DEF SubscriptionChanges
<1>5. CASE Tick
  <2>1. key = "revoked" /\ keyTtl > 0 /\ keyTtl' = keyTtl - 1
    BY <1>0, <1>5 DEF Tick, Less
  <2>2. gone' <= gone + 1
    BY <1>0, <1>5, <2>1 DEF Tick, Least, Long
  <2>3. gone + keyTtl <= Ttl + Hold
    BY <2>1
  <2>4. \A g, h, k, t \in Int : h <= g + 1 /\ g + k <= t => h + (k - 1) <= t
    OBVIOUS
  <2>5. gone \in Int /\ gone' \in Int /\ keyTtl \in Int /\ Ttl + Hold \in Int
    BY <1>0
  <2>6. gone' + (keyTtl - 1) <= Ttl + Hold
    BY ONLY <2>2, <2>3, <2>4, <2>5
  <2> QED BY <2>1, <2>6
<1>6. CASE UNCHANGED vars
  BY <1>6 DEF vars
<1> QED BY <1>1, <1>2, <1>3, <1>4, <1>5, <1>6 DEF AccessNext

LEMMA PolicyBoundStep ==
    TypeOK /\ TypeOK' /\ AccessInv /\ PolicyBounded /\ [AccessNext]_vars => PolicyBounded'
<1> SUFFICES ASSUME TypeOK, TypeOK', AccessInv, PolicyBounded, [AccessNext]_vars, policy' # NoPolicy
             PROVE  since'[policy'] + policyTtl' <= Ttl + Hold
  BY DEF PolicyBounded
<1> USE AccessAssumption DEF PolicyBounded, db, keyVars, policyVars, callVars
<1>0. /\ \A q \in Policies : since[q] \in Nat /\ since'[q] \in Nat
      /\ policyTtl \in 0 .. Ttl /\ policyTtl' \in 0 .. Ttl
      /\ policy \in Policies \cup {NoPolicy} /\ policy' \in Policies
  BY DEF TypeOK, Long
<1>1. ASSUME NEW c \in Calls, Authenticate(c)
      PROVE  since'[policy'] + policyTtl' <= Ttl + Hold
  <2>1. CASE FillPolicy(c)
    <3>1. since[got[c]] <= held[c] /\ held[c] <= Hold /\ held[c] \in Nat /\ got[c] \in Policies
      BY <2>1 DEF FillPolicy, Goto, AccessInv, FreshPolicies, TypeOK
    <3>2. policyTtl' = Ttl /\ policy' = got[c] /\ since' = since
      BY <2>1 DEF FillPolicy
    <3> QED BY <1>0, <3>1, <3>2
  <2>2. CASE ~ FillPolicy(c)
    <3>1. UNCHANGED <<policy, policyTtl, since>>
      BY <1>1, <2>2 DEF Authenticate, ReadKey, LoadKey, FillKey, ReadPolicy, LoadPolicy, Fails
    <3> QED BY <3>1
  <2> QED BY <2>1, <2>2
<1>2. ASSUME UNCHANGED <<policy, policyTtl>>, \A q \in Policies : since'[q] <= since[q]
      PROVE  since'[policy'] + policyTtl' <= Ttl + Hold
  <2>1. since'[policy] <= since[policy] /\ since[policy] + policyTtl <= Ttl + Hold
    BY <1>0, <1>2
  <2> QED BY <1>0, <1>2, <2>1
<1>3. ASSUME NEW a \in Admins, Administer(a)
      PROVE  since'[policy'] + policyTtl' <= Ttl + Hold
  <2>1. CASE UpdatePlan(a)
    <3>1. plan + 1 \in 1 .. MaxPlan /\ Enforce(Loaded(sub, plan + 1)) /\ UNCHANGED <<policy, policyTtl>>
      BY <2>1 DEF UpdatePlan, TypeOK
    <3> QED BY <1>2, <3>1, LoadedType, EnforceClock
  <2>2. CASE DropPolicy(a)
    BY <2>2 DEF DropPolicy
  <2>3. CASE ~ UpdatePlan(a) /\ ~ DropPolicy(a)
    <3>1. UNCHANGED <<policy, policyTtl, since>>
      BY <1>3, <2>3 DEF Administer, CheckKey, Revoke, DropKey, DropKeyFails, FindSubscriptions,
                        UpdateOwner, DropPolicyFails
    <3> QED BY <3>1
  <2> QED BY <2>1, <2>2, <2>3
<1>4. CASE CreateKey
  BY <1>4 DEF CreateKey
<1>5. CASE \E s \in {"active", "past_due", "ended"} : SubscriptionChanges(s)
  <2>1. PICK s \in {"active", "past_due", "ended"} : SubscriptionChanges(s)
    BY <1>5
  <2>2. UNCHANGED <<policy, policyTtl>> /\ Enforce(Loaded(s, plan)) /\ plan \in 1 .. MaxPlan
    BY <2>1 DEF SubscriptionChanges, TypeOK
  <2> QED BY <1>2, <2>2, LoadedType, EnforceClock
<1>6. CASE Tick
  <2>1. policy' = policy /\ policy \in Policies /\ policyTtl > 0 /\ policyTtl' = policyTtl - 1
    BY <1>0, <1>6 DEF Tick, Less
  <2>2. since'[policy] = IF policy = InForce THEN 0 ELSE Least(since[policy] + 1, Long)
    BY <1>6, <2>1 DEF Tick
  <2>3. since'[policy] <= since[policy] + 1
    BY <1>0, <2>1, <2>2 DEF Least, Long
  <2> QED BY <1>0, <2>1, <2>3
<1>7. CASE UNCHANGED vars
  BY <1>7 DEF vars
<1> QED BY <1>1, <1>3, <1>4, <1>5, <1>6, <1>7 DEF AccessNext

\* The time since a cached key was revoked, or a cached policy went out of
\* force, and the time that it stays cached are no more than the TTL and the
\* time of the call that cached it, whatever failed or crossed.
THEOREM StaleForBoundedTime == Spec => []StalenessBounded
<1>1. Init => KeyBounded /\ PolicyBounded
  BY DEF Init, KeyBounded, PolicyBounded
<1>2. KeyBounded /\ PolicyBounded => StalenessBounded
  BY DEF KeyBounded, PolicyBounded, StalenessBounded
<1> QED BY <1>1, <1>2, KeyBoundStep, PolicyBoundStep, TypeCorrect, Invariant, PTL DEF Spec

=============================================================================
