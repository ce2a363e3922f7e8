------------------------------- MODULE Catalogue -------------------------------
(***************************************************************************)
(* What a call learns of its model: whether it is offered (ModelService,   *)
(* a cache in Redis) and what it costs (ModelPricingService, a cache in    *)
(* the memory of each instance before one in Redis).  Administrators write *)
(* the rows and nobody drops a copy: the functions that would are never    *)
(* called.  One model.                                                     *)
(*                                                                         *)
(* A call asks for the model in its guard, is charged the price, asks      *)
(* again in the controller and a third time in the proxy.                  *)
(***************************************************************************)
EXTENDS Integers

CONSTANTS
    Calls,
    Instances,  \* processes of the gateway
    Nowhere,    \* where a call is that has not arrived
    ModelTtl,   \* MODEL_CACHE_TTL, in ticks
    MemoryTtl,  \* CACHE_TTL_MS
    RedisTtl,   \* REDIS_CACHE_TTL_SECONDS
    Hold        \* ticks that a call needs at most to reach its provider

ASSUME CatalogueAssumption ==
    /\ ModelTtl \in Nat \ {0} /\ MemoryTtl \in Nat \ {0} /\ RedisTtl \in Nat \ {0}
    /\ Hold \in Nat /\ Nowhere \notin Instances

VARIABLES
    model,   \* Postgres: "absent", "active" or "inactive"
    price,   \* Postgres: the price in force
    entry,   \* Redis: the model's status and its TTL
    redis,   \* Redis: the price and its TTL
    memory,  \* the price each instance holds, and how long
    stage,   \* what a call is doing
    step,    \* how far it got with that
    at,      \* its instance
    hand,    \* what it has just read
    held,    \* ticks since it arrived
    quiet,   \* history: ticks since the model changed
    calm     \* history: ticks since the price changed or could not be loaded

modelVars == <<model, entry, quiet>>
priceVars == <<price, redis, memory, calm>>
callVars == <<stage, step, at, hand, held>>
vars == <<modelVars, priceVars, callVars>>

Statuses == {"absent", "active", "inactive"}
Prices == {"default", "listed"}
Nothing == [value |-> "nothing", ttl |-> 0]
Copies(S, n) == [value : S, ttl : 1 .. n] \cup {Nothing}

\* Times after which the copies of a model or a price that did not change are
\* gone, and so are the calls that hold one.
ModelSpan == ModelTtl + 2 * Hold
PriceSpan == RedisTtl + MemoryTtl + 2 * Hold

\* What rows, caches and calls may hold; an absent model is never cached, and
\* nothing is cached for ever.
TypeOK ==
    /\ model \in Statuses /\ price \in Prices
    /\ entry \in Copies(Statuses \ {"absent"}, ModelTtl)
    /\ redis \in Copies(Prices, RedisTtl)
    /\ memory \in [Instances -> Copies(Prices, MemoryTtl)]
    /\ stage \in [Calls -> {"idle", "guard", "price", "controller", "proxy", "unserved"}]
    /\ step \in [Calls -> {"read", "shared", "keep", "load", "fill", "publish"}]
    /\ at \in [Calls -> Instances \cup {Nowhere}] /\ hand \in [Calls -> Statuses \cup Prices \cup {"nothing"}]
    /\ held \in [Calls -> 0 .. Hold]
    /\ quiet \in 0 .. ModelSpan /\ calm \in 0 .. PriceSpan

Init ==
    /\ model = "absent" /\ price = "default"
    /\ entry = Nothing /\ redis = Nothing /\ memory = [i \in Instances |-> Nothing]
    /\ stage = [c \in Calls |-> "idle"] /\ step = [c \in Calls |-> "read"]
    /\ at = [c \in Calls |-> Nowhere] /\ hand = [c \in Calls |-> "nothing"] /\ held = [c \in Calls |-> 0]
    /\ quiet = 0 /\ calm = 0

Copy(v, n) == [value |-> v, ttl |-> n]

-----------------------------------------------------------------------------
(***************************************************************************)
(* The calls.                                                              *)
(***************************************************************************)
\* The call goes on with the given stage and step, holding v.
Goto(c, st, sp, v) ==
    /\ stage' = [stage EXCEPT ![c] = st] /\ step' = [step EXCEPT ![c] = sp]
    /\ hand' = [hand EXCEPT ![c] = v]
    /\ at' = [at EXCEPT ![c] = IF st = "idle" THEN Nowhere ELSE @]
    /\ held' = [held EXCEPT ![c] = IF st = "idle" THEN 0 ELSE @]

Arrive(c, i) ==
    /\ stage[c] = "idle"
    /\ stage' = [stage EXCEPT ![c] = "guard"] /\ at' = [at EXCEPT ![c] = i]
    /\ UNCHANGED <<modelVars, priceVars, step, hand, held>>

\* Mutation: the guard only looks whether there is such a model.
Learn_AnyStatus(c, status) ==
    CASE stage[c] = "guard" -> Goto(c, IF status # "absent" THEN "price" ELSE "idle", "read", "nothing")
      [] stage[c] = "controller" -> Goto(c, "proxy", "read", "nothing")
      [] stage[c] = "proxy" -> Goto(c, IF status = "active" THEN "idle" ELSE "unserved", "read", "nothing")

\* What the three places make of a status: the guard lets an active model
\* pass, the controller takes any, getModelOrThrow refuses the call.
Learn(c, status) ==
    CASE stage[c] = "guard" -> Goto(c, IF status = "active" THEN "price" ELSE "idle", "read", "nothing")
      [] stage[c] = "controller" -> Goto(c, "proxy", "read", "nothing")
      [] stage[c] = "proxy" -> Goto(c, IF status = "active" THEN "idle" ELSE "unserved", "read", "nothing")

Asking(c, sp) == stage[c] \in {"guard", "controller", "proxy"} /\ step[c] = sp

ReadModel(c) ==
    /\ Asking(c, "read")
    /\ IF entry # Nothing THEN Learn(c, entry.value) ELSE Goto(c, stage[c], "load", "nothing")
    /\ UNCHANGED <<modelVars, priceVars>>

LoadModel(c) ==
    /\ Asking(c, "load")
    /\ IF model = "absent" THEN Learn(c, model) ELSE Goto(c, stage[c], "fill", model)
    /\ UNCHANGED <<modelVars, priceVars>>

FillModel(c) ==
    /\ Asking(c, "fill") /\ entry' = Copy(hand[c], ModelTtl) /\ Learn(c, hand[c])
    /\ UNCHANGED <<model, quiet, priceVars>>

Pricing(c, sp) == stage[c] = "price" /\ step[c] = sp

\* The call has its price and is charged.
Charged(c) == Goto(c, "controller", "read", "nothing")

ReadMemory(c) ==
    /\ Pricing(c, "read")
    /\ IF memory[at[c]] # Nothing THEN Charged(c) ELSE Goto(c, "price", "shared", "nothing")
    /\ UNCHANGED <<modelVars, priceVars>>

ReadRedis(c) ==
    /\ Pricing(c, "shared")
    /\ IF redis # Nothing THEN Goto(c, "price", "keep", redis.value) ELSE Goto(c, "price", "load", "nothing")
    /\ UNCHANGED <<modelVars, priceVars>>

\* Mutation: the copy in Redis is written again whenever memory is.
Keep_Shares(c) ==
    /\ Pricing(c, "keep") /\ memory' = [memory EXCEPT ![at[c]] = Copy(hand[c], MemoryTtl)]
    /\ redis' = Copy(hand[c], RedisTtl)
    /\ Charged(c) /\ UNCHANGED <<modelVars, price, calm>>

\* What Redis answered goes to the memory of the instance.
Keep(c) ==
    /\ Pricing(c, "keep") /\ memory' = [memory EXCEPT ![at[c]] = Copy(hand[c], MemoryTtl)]
    /\ Charged(c) /\ UNCHANGED <<modelVars, price, redis, calm>>

LoadPrice(c) ==
    /\ Pricing(c, "load") /\ Goto(c, "price", "fill", price)
    /\ UNCHANGED <<modelVars, priceVars>>

\* loadPricingFromDb swallows its errors: the default price is as good as any.
LoadPriceFails(c) ==
    /\ Pricing(c, "load") /\ Goto(c, "price", "fill", "default") /\ calm' = 0
    /\ UNCHANGED <<modelVars, price, redis, memory>>

\* cachePricing: the memory of the instance, and then Redis, where a SETEX that
\* fails is logged.
CachePricing(c) ==
    /\ Pricing(c, "fill") /\ memory' = [memory EXCEPT ![at[c]] = Copy(hand[c], MemoryTtl)]
    /\ Goto(c, "price", "publish", hand[c]) /\ UNCHANGED <<modelVars, price, redis, calm>>

PublishPricing(c) ==
    /\ Pricing(c, "publish") /\ Charged(c)
    /\ redis' = Copy(hand[c], RedisTtl) \/ UNCHANGED redis
    /\ UNCHANGED <<modelVars, price, memory, calm>>

\* A query that is not caught fails, or the call is over.
Leave(c) ==
    /\ stage[c] # "idle" /\ Goto(c, "idle", "read", "nothing")
    /\ UNCHANGED <<modelVars, priceVars>>

Serve(c) ==
    \/ \E i \in Instances : Arrive(c, i)
    \/ ReadModel(c) \/ LoadModel(c) \/ FillModel(c)
    \/ ReadMemory(c) \/ ReadRedis(c) \/ Keep(c) \/ LoadPrice(c) \/ LoadPriceFails(c)
    \/ CachePricing(c) \/ PublishPricing(c)
    \/ Leave(c)

-----------------------------------------------------------------------------
(***************************************************************************)
(* Administrators and time.                                                *)
(***************************************************************************)
CreateModel ==
    /\ model = "absent" /\ model' = "active" /\ quiet' = 0
    /\ UNCHANGED <<entry, priceVars, callVars>>

\* updateModel and deleteModel.
ChangeModel(status) ==
    /\ model # "absent" /\ status # model /\ model' = status /\ quiet' = 0
    /\ UNCHANGED <<entry, priceVars, callVars>>

\* A row that overlaps with another is refused.
CreatePricing ==
    /\ price = "default" /\ price' = "listed" /\ calm' = 0
    /\ UNCHANGED <<modelVars, redis, memory, callVars>>

\* updateModelPricing, or a row begins or ends to apply.
ChangePrice ==
    /\ price' \in Prices \ {price} /\ calm' = 0
    /\ UNCHANGED <<modelVars, redis, memory, callVars>>

\* A process starts anew.
Restart(i) ==
    /\ memory' = [memory EXCEPT ![i] = Nothing]
    /\ \A c \in Calls : at[c] # i
    /\ UNCHANGED <<modelVars, price, redis, calm, callVars>>

Least(m, n) == IF m < n THEN m ELSE n
Older(copy) == IF copy.ttl > 1 THEN Copy(copy.value, copy.ttl - 1) ELSE Nothing

Tick ==
    /\ \A c \in Calls : stage[c] # "idle" => held[c] < Hold
    /\ held' = [c \in Calls |-> IF stage[c] = "idle" THEN 0 ELSE held[c] + 1]
    /\ entry' = Older(entry) /\ redis' = Older(redis)
    /\ memory' = [i \in Instances |-> Older(memory[i])]
    /\ quiet' = Least(quiet + 1, ModelSpan) /\ calm' = Least(calm + 1, PriceSpan)
    /\ UNCHANGED <<model, price, stage, step, at, hand>>

CatalogueNext ==
    \/ \E c \in Calls : Serve(c)
    \/ CreateModel \/ \E s \in Statuses : ChangeModel(s)
    \/ CreatePricing \/ ChangePrice \/ Tick
    \/ \E i \in Instances : Restart(i)

Spec == Init /\ [][CatalogueNext]_vars

-----------------------------------------------------------------------------
(***************************************************************************)
(* What holds.                                                             *)
(***************************************************************************)
\* A call that was let in by the guard and charged is refused by the proxy
\* for want of the model only if the model changed within ModelSpan: with
\* three lookups in a cache that nobody drops, a catalogue left alone refuses
\* no paid call.
UnservedOnlyAfterChange == \A c \in Calls : stage[c] = "unserved" => quiet < ModelSpan

\* A price that did not change and was not missed by a load is the price that
\* all copies have once the TTLs of Redis and memory and the time of two calls
\* are over: copies made from copies do not keep an old price alive.
PriceSettles ==
    /\ redis.value \notin {"nothing", price} => calm + redis.ttl <= RedisTtl + Hold
    /\ \A i \in Instances :
          memory[i].value \notin {"nothing", price} => calm + memory[i].ttl < PriceSpan
=============================================================================
