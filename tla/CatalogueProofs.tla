---------------------------- MODULE CatalogueProofs ----------------------------
(***************************************************************************)
(* What Catalogue promises, for any numbers of calls and instances, any    *)
(* TTLs and any duration of a call.                                        *)
(*                                                                         *)
(* Both promises are ages of copies.  A copy that differs from its row was *)
(* right when the row last changed, quiet or calm ticks ago; how long ago  *)
(* that can be grows with each hand it passes through, a cache by what its *)
(* TTL has run down, a call by the time it has been held up.               *)
(***************************************************************************)
EXTENDS Catalogue, TLAPS

\* A call is on its way to the caches with a price it has loaded.
Loaded(c) == Pricing(c, "fill") \/ Pricing(c, "publish")

\* A call holds a status, or a price, when it is about to write one; and it
\* is at an instance while it lasts.
HandTyped(c) ==
    /\ Asking(c, "fill") => hand[c] \in {"active", "inactive"}
    /\ Pricing(c, "keep") \/ Loaded(c) => hand[c] \in Prices
    /\ IF stage[c] = "idle" THEN step[c] = "read" ELSE at[c] \in Instances

\* The age of what a call knows of the model: of what it read, and of what let
\* it pass the guard.
ModelAge(c) ==
    /\ Asking(c, "fill") /\ hand[c] # model => quiet <= held[c]
    /\ stage[c] \in {"price", "controller", "proxy"} /\ model # "active"
          => quiet < ModelTtl + Hold + held[c]
    /\ stage[c] = "unserved" => quiet < ModelTtl + Hold + held[c]

\* The age of what it knows of the price, read in Postgres or in Redis.
PriceAge(c) ==
    /\ Loaded(c) /\ hand[c] # price => calm <= held[c]
    /\ Pricing(c, "keep") /\ hand[c] # price => calm < RedisTtl + Hold + held[c]

\* The age of the copies.
EntryAge == entry.value \notin {"nothing", model} => quiet + entry.ttl <= ModelTtl + Hold
RedisAge == redis.value \notin {"nothing", price} => calm + redis.ttl <= RedisTtl + Hold
MemoryAge(i) == memory[i].value \notin {"nothing", price} => calm + memory[i].ttl < PriceSpan

WellTyped == TypeOK /\ \A c \in Calls : HandTyped(c)
ModelAges == EntryAge /\ \A c \in Calls : ModelAge(c)
PriceAges == RedisAge /\ (\A i \in Instances : MemoryAge(i)) /\ \A c \in Calls : PriceAge(c)

-----------------------------------------------------------------------------
(***************************************************************************)
(* Copies.                                                                 *)
(***************************************************************************)
LEMMA CopyParts ==
    ASSUME NEW S, NEW n \in Nat, "nothing" \notin S, NEW x \in Copies(S, n)
    PROVE  /\ x = Nothing \/ (x.value \in S /\ x.ttl \in 1 .. n)
           /\ x = Nothing <=> x.value = "nothing"
           /\ x.ttl \in Nat /\ (x # Nothing => x = Copy(x.value, x.ttl))
  BY DEF Copies, Nothing, Copy

LEMMA CopyMade ==
    ASSUME NEW S, NEW n \in Nat, NEW v \in S, NEW m \in 1 .. n
    PROVE  Copy(v, m) \in Copies(S, n) /\ Copy(v, m).value = v /\ Copy(v, m).ttl = m
  BY DEF Copies, Copy

\* A tick takes one from the TTL of a copy, or the copy away.
LEMMA CopyAged ==
    ASSUME NEW S, NEW n \in Nat, "nothing" \notin S, NEW x \in Copies(S, n)
    PROVE  /\ Older(x) \in Copies(S, n)
           /\ Older(x).value # "nothing" =>
                 /\ x.value = Older(x).value
                 /\ Older(x).ttl = x.ttl - 1 /\ x.ttl \in Nat
<1>1. x = Nothing \/ (x.value \in S /\ x.ttl \in 1 .. n)
  BY CopyParts
<1>2. CASE x.value \in S /\ x.ttl \in 1 .. n /\ x.ttl > 1
  <2>1. Older(x) = Copy(x.value, x.ttl - 1) /\ x.ttl - 1 \in 1 .. n
    BY <1>2 DEF Older
  <2> QED BY <1>2, <2>1, CopyMade
<1>3. CASE ~ (x.ttl > 1)
  <2>1. Older(x) = Nothing /\ Nothing.value = "nothing"
    BY <1>3 DEF Older, Nothing
  <2> QED BY <2>1 DEF Copies
<1>4. Nothing.ttl = 0
  BY DEF Nothing
<1> QED BY <1>1, <1>2, <1>3, <1>4

LEMMA Names == "nothing" \notin Prices /\ "nothing" \notin Statuses \ {"absent"}
  BY DEF Prices, Statuses

\* What the copies of a well-typed state are.
LEMMA CopiesHere ==
    ASSUME TypeOK
    PROVE  /\ entry # Nothing => entry.value \in {"active", "inactive"} /\ entry.ttl \in 1 .. ModelTtl
           /\ redis # Nothing => redis.value \in Prices /\ redis.ttl \in 1 .. RedisTtl
           /\ entry.ttl \in Nat /\ redis.ttl \in Nat
           /\ entry.ttl <= ModelTtl /\ redis.ttl <= RedisTtl
           /\ \A i \in Instances : memory[i].ttl \in Nat /\ memory[i].ttl <= MemoryTtl
<1>1. Nothing.ttl = 0
  BY DEF Nothing
<1>2. /\ entry = Nothing \/ (entry.value \in Statuses \ {"absent"} /\ entry.ttl \in 1 .. ModelTtl)
      /\ redis = Nothing \/ (redis.value \in Prices /\ redis.ttl \in 1 .. RedisTtl)
  BY CopyParts, Names, CatalogueAssumption DEF TypeOK
<1>3. \A i \in Instances : memory[i] = Nothing \/ memory[i].ttl \in 1 .. MemoryTtl
  BY CopyParts, Names, CatalogueAssumption DEF TypeOK
<1> QED BY <1>1, <1>2, <1>3, CatalogueAssumption DEF Statuses

-----------------------------------------------------------------------------
(***************************************************************************)
(* Steps of a call.                                                        *)
(***************************************************************************)
Stages == {"idle", "guard", "price", "controller", "proxy", "unserved"}
Steps  == {"read", "shared", "keep", "load", "fill", "publish"}
Things == Statuses \cup Prices \cup {"nothing"}

LEMMA GotoEffect ==
    ASSUME TypeOK, NEW c \in Calls, NEW st \in Stages, NEW sp \in Steps, NEW v \in Things,
           Goto(c, st, sp, v)
    PROVE  /\ stage' \in [Calls -> Stages] /\ step' \in [Calls -> Steps]
           /\ at' \in [Calls -> Instances \cup {Nowhere}] /\ hand' \in [Calls -> Things]
           /\ held' \in [Calls -> 0 .. Hold]
           /\ stage'[c] = st /\ step'[c] = sp /\ hand'[c] = v
           /\ st # "idle" => at'[c] = at[c] /\ held'[c] = held[c]
           /\ \A d \in Calls : d # c =>
                 /\ stage'[d] = stage[d] /\ step'[d] = step[d] /\ hand'[d] = hand[d]
                 /\ at'[d] = at[d] /\ held'[d] = held[d]
  BY CatalogueAssumption DEF TypeOK, Goto, Stages, Steps, Things

LEMMA LearnEffect ==
    ASSUME NEW c \in Calls, NEW status, stage[c] \in {"guard", "controller", "proxy"}, Learn(c, status)
    PROVE  \E st \in Stages :
              /\ Goto(c, st, "read", "nothing")
              /\ \/ st = "idle"
                 \/ stage[c] = "guard" /\ st = "price" /\ status = "active"
                 \/ stage[c] = "controller" /\ st = "proxy"
                 \/ stage[c] = "proxy" /\ st = "unserved" /\ status # "active"
<1>1. CASE stage[c] = "guard"
  <2>1. Goto(c, IF status = "active" THEN "price" ELSE "idle", "read", "nothing")
    BY <1>1 DEF Learn
  <2> QED BY <1>1, <2>1 DEF Stages
<1>2. CASE stage[c] = "controller"
  <2>1. Goto(c, "proxy", "read", "nothing")
    BY <1>2 DEF Learn
  <2> QED BY <1>2, <2>1 DEF Stages
<1>3. CASE stage[c] = "proxy"
  <2>1. Goto(c, IF status = "active" THEN "idle" ELSE "unserved", "read", "nothing")
    BY <1>3 DEF Learn
  <2> QED BY <1>3, <2>1 DEF Stages
<1> QED BY <1>1, <1>2, <1>3

\* What a call may go on with: what it is to write is no older than the call,
\* or than the copy it was read from.
Sound(c, st, sp, v) ==
    /\ IF st = "idle" THEN sp = "read" ELSE stage[c] # "idle"
    /\ st \in {"guard", "controller", "proxy"} /\ sp = "fill"
          => v \in {"active", "inactive"} /\ (v # model => quiet <= held[c])
    /\ st \in {"price", "controller", "proxy"} /\ model # "active" => quiet < ModelTtl + Hold + held[c]
    /\ st = "unserved" => quiet < ModelTtl + Hold + held[c]
    /\ st = "price" /\ sp \in {"keep", "fill", "publish"} => v \in Prices
    /\ st = "price" /\ sp \in {"fill", "publish"} /\ v # price => calm' <= held[c]
    /\ st = "price" /\ sp = "keep" /\ v # price => calm' < RedisTtl + Hold + held[c]

CopiesTyped ==
    /\ entry \in Copies(Statuses \ {"absent"}, ModelTtl)
    /\ redis \in Copies(Prices, RedisTtl)
    /\ memory \in [Instances -> Copies(Prices, MemoryTtl)]

CopyAges == EntryAge /\ RedisAge /\ \A i \in Instances : MemoryAge(i)

\* The calls, when one of them goes on soundly.
LEMMA CallsKept ==
    ASSUME WellTyped, ModelAges, PriceAges, NEW c \in Calls,
           UNCHANGED <<model, quiet, price>>, calm' \in {calm, 0},
           NEW st \in Stages, NEW sp \in Steps, NEW v \in Things,
           Goto(c, st, sp, v), Sound(c, st, sp, v)
    PROVE  \A d \in Calls : HandTyped(d)' /\ ModelAge(d)' /\ PriceAge(d)'
<1> SUFFICES ASSUME NEW d \in Calls PROVE HandTyped(d)' /\ ModelAge(d)' /\ PriceAge(d)'
  OBVIOUS
<1>1. TypeOK /\ calm \in Nat /\ held[d] \in Nat /\ ModelTtl \in Nat /\ RedisTtl \in Nat \ {0} /\ Hold \in Nat
  BY CatalogueAssumption DEF WellTyped, TypeOK, PriceSpan
<1>2. CASE d = c
  <2>1. /\ stage'[c] = st /\ step'[c] = sp /\ hand'[c] = v
        /\ st # "idle" => at'[c] = at[c] /\ held'[c] = held[c]
    BY <1>1, GotoEffect
  <2>2. st # "idle" => at[c] \in Instances
    BY DEF Sound, WellTyped, HandTyped
  <2>3. HandTyped(c)'
    BY <2>1, <2>2 DEF Sound, HandTyped, Asking, Pricing, Loaded
  <2>4. ModelAge(c)'
    BY <2>1 DEF Sound, ModelAge, Asking
  <2>5. PriceAge(c)'
    BY <2>1 DEF Sound, PriceAge, Pricing, Loaded
  <2> QED BY <1>2, <2>3, <2>4, <2>5
<1>3. CASE d # c
  <2>1. /\ stage'[d] = stage[d] /\ step'[d] = step[d] /\ hand'[d] = hand[d]
        /\ at'[d] = at[d] /\ held'[d] = held[d]
    BY <1>1, <1>3, GotoEffect
  <2>2. HandTyped(d) /\ ModelAge(d) /\ PriceAge(d)
    BY DEF WellTyped, ModelAges, PriceAges
  <2>3. HandTyped(d)' /\ ModelAge(d)'
    BY <2>1, <2>2 DEF HandTyped, ModelAge, Asking, Pricing, Loaded
  <2>4. CASE calm' = calm
    BY <2>1, <2>2, <2>3, <2>4 DEF PriceAge, Pricing, Loaded
  <2>5. CASE calm' = 0
    <3>1. 0 <= held[d] /\ 0 < RedisTtl + Hold + held[d]
      BY <1>1
    <3> QED BY <2>1, <2>3, <2>5, <3>1 DEF PriceAge
  <2> QED BY <2>4, <2>5
<1> QED BY <1>2, <1>3

\* The whole state, when the copies are kept as well.
LEMMA GoesOn ==
    ASSUME WellTyped, ModelAges, PriceAges, NEW c \in Calls,
           UNCHANGED <<model, quiet, price>>, calm' \in {calm, 0}, CopiesTyped', CopyAges',
           NEW st \in Stages, NEW sp \in Steps, NEW v \in Things,
           Goto(c, st, sp, v), Sound(c, st, sp, v)
    PROVE  WellTyped' /\ ModelAges' /\ PriceAges'
<1>1. TypeOK
  BY DEF WellTyped
<1>2. TypeOK'
  <2>1. /\ stage' \in [Calls -> Stages] /\ step' \in [Calls -> Steps]
        /\ at' \in [Calls -> Instances \cup {Nowhere}] /\ hand' \in [Calls -> Things]
        /\ held' \in [Calls -> 0 .. Hold]
    BY <1>1, GotoEffect
  <2>2. calm' \in 0 .. PriceSpan
    BY <1>1, CatalogueAssumption DEF TypeOK, PriceSpan
  <2> QED BY <1>1, <2>1, <2>2 DEF TypeOK, CopiesTyped, Stages, Steps, Things
<1> QED BY <1>2, CallsKept DEF WellTyped, ModelAges, PriceAges, CopyAges

\* The copies, when none is written.
LEMMA CopiesKept ==
    ASSUME WellTyped, ModelAges, PriceAges, UNCHANGED <<model, quiet, entry, redis, memory, price>>,
           calm' \in {calm, 0}
    PROVE  CopiesTyped' /\ CopyAges'
<1>1. CopiesTyped'
  BY DEF WellTyped, TypeOK, CopiesTyped
<1>2. EntryAge'
  BY DEF ModelAges, EntryAge
<1>3. TypeOK /\ calm \in Nat /\ PriceSpan = RedisTtl + MemoryTtl + 2 * Hold
  BY CatalogueAssumption DEF WellTyped, TypeOK, PriceSpan
<1>4. CASE calm' = calm
  BY <1>1, <1>2, <1>4 DEF PriceAges, CopyAges, RedisAge, MemoryAge
<1>5. CASE calm' = 0
  <2>1. redis.ttl <= RedisTtl /\ redis.ttl \in Nat
        /\ \A i \in Instances : memory[i].ttl <= MemoryTtl /\ memory[i].ttl \in Nat
    BY <1>3, CopiesHere
  <2>2. RedisAge'
    BY <1>5, <2>1, CatalogueAssumption DEF RedisAge
  <2>3. \A i \in Instances : MemoryAge(i)'
    BY <1>3, <1>5, <2>1, CatalogueAssumption DEF MemoryAge, PriceSpan
  <2> QED BY <1>1, <1>2, <2>2, <2>3 DEF CopyAges
<1> QED BY <1>4, <1>5

-----------------------------------------------------------------------------
(***************************************************************************)
(* The steps of a call, one by one.                                        *)
(***************************************************************************)
LEMMA LearnSound ==
    ASSUME WellTyped, ModelAges, NEW c \in Calls, stage[c] \in {"guard", "controller", "proxy"},
           NEW status, Learn(c, status), status # model => quiet < ModelTtl + Hold + held[c]
    PROVE  \E st \in Stages : Goto(c, st, "read", "nothing") /\ Sound(c, st, "read", "nothing")
<1>1. PICK st \in Stages :
         /\ Goto(c, st, "read", "nothing")
         /\ \/ st = "idle"
            \/ stage[c] = "guard" /\ st = "price" /\ status = "active"
            \/ stage[c] = "controller" /\ st = "proxy"
            \/ stage[c] = "proxy" /\ st = "unserved" /\ status # "active"
  BY LearnEffect
<1>2. ModelAge(c)
  BY DEF ModelAges
<1>3. Sound(c, st, "read", "nothing")
  BY <1>1, <1>2 DEF Sound, ModelAge
<1> QED BY <1>1, <1>3

LEMMA ArriveKeeps ==
    ASSUME WellTyped, ModelAges, PriceAges, NEW c \in Calls, NEW i \in Instances, Arrive(c, i)
    PROVE  WellTyped' /\ ModelAges' /\ PriceAges'
<1>1. /\ UNCHANGED <<model, quiet, entry, price, redis, memory, calm, step, hand, held>>
      /\ stage[c] = "idle" /\ stage' = [stage EXCEPT ![c] = "guard"] /\ at' = [at EXCEPT ![c] = i]
  BY DEF Arrive, modelVars, priceVars
<1>2. CopiesTyped' /\ CopyAges'
  BY <1>1, CopiesKept
<1>3. TypeOK'
  BY <1>1 DEF WellTyped, TypeOK
<1>4. ASSUME NEW d \in Calls
      PROVE  HandTyped(d)' /\ ModelAge(d)' /\ PriceAge(d)'
  <2>1. HandTyped(d) /\ ModelAge(d) /\ PriceAge(d)
    BY DEF WellTyped, ModelAges, PriceAges
  <2>2. CASE d = c
    <3>1. stage'[d] = "guard" /\ at'[d] = i /\ step'[d] = "read"
      BY <1>1, <2>1, <2>2 DEF WellTyped, TypeOK, HandTyped
    <3> QED BY <3>1 DEF HandTyped, ModelAge, PriceAge, Asking, Pricing, Loaded
  <2>3. CASE d # c
    <3>1. stage'[d] = stage[d] /\ at'[d] = at[d]
      BY <1>1, <2>3 DEF WellTyped, TypeOK
    <3> QED BY <1>1, <2>1, <3>1 DEF HandTyped, ModelAge, PriceAge, Asking, Pricing, Loaded
  <2> QED BY <2>2, <2>3
<1> QED BY <1>2, <1>3, <1>4 DEF WellTyped, ModelAges, PriceAges, CopyAges

LEMMA ModelStepKeeps ==
    ASSUME WellTyped, ModelAges, PriceAges, NEW c \in Calls,
           ReadModel(c) \/ LoadModel(c) \/ FillModel(c)
    PROVE  WellTyped' /\ ModelAges' /\ PriceAges'
<1> USE DEF modelVars, priceVars
<1>0. /\ TypeOK /\ held[c] \in 0 .. Hold /\ quiet \in Nat /\ stage[c] \in {"guard", "controller", "proxy"}
      /\ ModelTtl \in Nat \ {0} /\ Hold \in Nat /\ stage[c] \in Stages
      /\ "read" \in Steps /\ "load" \in Steps /\ "fill" \in Steps /\ "nothing" \in Things
  BY CatalogueAssumption
     DEF WellTyped, TypeOK, ModelSpan, Stages, Steps, Things, ReadModel, LoadModel, FillModel, Asking
<1>1. ModelAge(c) /\ HandTyped(c)
  BY DEF ModelAges, WellTyped
<1>2. CASE ReadModel(c)
  <2>1. UNCHANGED <<model, quiet, entry, price, redis, memory, calm>> /\ CopiesTyped' /\ CopyAges'
    BY <1>2, CopiesKept DEF ReadModel
  <2>2. CASE entry # Nothing
    <3>1. entry.value # "nothing" /\ entry.ttl \in 1 .. ModelTtl
      BY <1>0, <2>2, CopiesHere
    <3>2. entry.value # model => quiet < ModelTtl + Hold + held[c]
      BY <1>0, <3>1 DEF ModelAges, EntryAge
    <3>3. Learn(c, entry.value)
      BY <1>2, <2>2 DEF ReadModel
    <3>4. PICK st \in Stages : Goto(c, st, "read", "nothing") /\ Sound(c, st, "read", "nothing")
      BY <1>0, <3>2, <3>3, LearnSound
    <3> QED BY <1>0, <2>1, <3>4, GoesOn
  <2>3. CASE entry = Nothing
    <3>1. Goto(c, stage[c], "load", "nothing")
      BY <1>2, <2>3 DEF ReadModel
    <3>2. Sound(c, stage[c], "load", "nothing")
      BY <1>0, <1>1 DEF Sound, ModelAge
    <3> QED BY <1>0, <2>1, <3>1, <3>2, GoesOn
  <2> QED BY <2>2, <2>3
<1>3. CASE LoadModel(c)
  <2>1. UNCHANGED <<model, quiet, entry, price, redis, memory, calm>> /\ CopiesTyped' /\ CopyAges'
    BY <1>3, CopiesKept DEF LoadModel
  <2>2. CASE model = "absent"
    <3>1. PICK st \in Stages : Goto(c, st, "read", "nothing") /\ Sound(c, st, "read", "nothing")
      BY <1>0, <1>3, <2>2, LearnSound DEF LoadModel
    <3> QED BY <1>0, <2>1, <3>1, GoesOn
  <2>3. CASE model # "absent"
    <3>1. Goto(c, stage[c], "fill", model) /\ model \in {"active", "inactive"} /\ model \in Things
      BY <1>0, <1>3, <2>3 DEF LoadModel, TypeOK, Statuses, Things
    <3>2. Sound(c, stage[c], "fill", model)
      BY <1>0, <1>1, <3>1 DEF Sound, ModelAge
    <3> QED BY <1>0, <2>1, <3>1, <3>2, GoesOn
  <2> QED BY <2>2, <2>3
<1>4. CASE FillModel(c)
  <2>1. /\ UNCHANGED <<model, quiet, price, redis, memory, calm>> /\ entry' = Copy(hand[c], ModelTtl)
        /\ Learn(c, hand[c]) /\ Asking(c, "fill")
    BY <1>4 DEF FillModel
  <2>2. hand[c] \in Statuses \ {"absent"} /\ (hand[c] # model => quiet <= held[c])
    BY <1>1, <2>1 DEF HandTyped, ModelAge, Statuses
  <2>3. /\ entry' \in Copies(Statuses \ {"absent"}, ModelTtl)
        /\ entry'.value = hand[c] /\ entry'.ttl = ModelTtl
    <3>1. ModelTtl \in 1 .. ModelTtl
      BY <1>0
    <3>2. entry'.value = hand[c] /\ entry'.ttl = ModelTtl
      BY <2>1 DEF Copy
    <3>3. entry' \in Copies(Statuses \ {"absent"}, ModelTtl)
      BY <2>1, <2>2, <3>1 DEF Copies, Copy
    <3> QED BY <3>2, <3>3
  <2>4. CopiesTyped'
    BY <1>0, <2>1, <2>3 DEF TypeOK, CopiesTyped
  <2>5. EntryAge'
    BY <1>0, <2>1, <2>2, <2>3 DEF EntryAge
  <2>6. CopyAges'
    BY <2>1, <2>5 DEF PriceAges, CopyAges, RedisAge, MemoryAge
  <2>7. hand[c] # model => quiet < ModelTtl + Hold + held[c]
    BY <1>0, <2>2
  <2>8. PICK st \in Stages : Goto(c, st, "read", "nothing") /\ Sound(c, st, "read", "nothing")
    BY <1>0, <2>1, <2>7, LearnSound
  <2> QED BY <1>0, <2>1, <2>4, <2>6, <2>8, GoesOn
<1> QED BY <1>2, <1>3, <1>4

\* A price that is written to memory, or to Redis.
LEMMA PriceWritten ==
    ASSUME WellTyped, ModelAges, PriceAges, NEW i \in Instances, NEW v \in Prices,
           UNCHANGED <<model, quiet, entry, price, calm>>,
           memory' \in {memory, [memory EXCEPT ![i] = Copy(v, MemoryTtl)]},
           v # price => calm < RedisTtl + 2 * Hold,
           redis' = redis \/ (redis' = Copy(v, RedisTtl) /\ (v # price => calm <= Hold))
    PROVE  CopiesTyped' /\ CopyAges'
<1>1. /\ TypeOK /\ calm \in Nat /\ PriceSpan = RedisTtl + MemoryTtl + 2 * Hold /\ Hold \in Nat
      /\ RedisTtl \in Nat \ {0} /\ MemoryTtl \in Nat \ {0}
      /\ RedisTtl \in 1 .. RedisTtl /\ MemoryTtl \in 1 .. MemoryTtl
  BY CatalogueAssumption DEF WellTyped, TypeOK, PriceSpan
<1>2. /\ Copy(v, MemoryTtl) \in Copies(Prices, MemoryTtl)
      /\ Copy(v, MemoryTtl).value = v /\ Copy(v, MemoryTtl).ttl = MemoryTtl
      /\ Copy(v, RedisTtl) \in Copies(Prices, RedisTtl)
      /\ Copy(v, RedisTtl).value = v /\ Copy(v, RedisTtl).ttl = RedisTtl
  BY <1>1, CopyMade
<1>3. CopiesTyped'
  BY <1>1, <1>2 DEF TypeOK, CopiesTyped
<1>4. EntryAge'
  BY DEF ModelAges, EntryAge
<1>5. RedisAge'
  <2>1. CASE redis' = redis
    BY <2>1 DEF PriceAges, RedisAge
  <2>2. CASE redis' = Copy(v, RedisTtl) /\ (v # price => calm <= Hold)
    BY <1>1, <1>2, <2>2 DEF RedisAge
  <2> QED BY <2>1, <2>2
<1>6. ASSUME NEW j \in Instances PROVE MemoryAge(j)'
  <2>1. CASE j = i /\ memory' # memory
    <3>1. memory'[j] = Copy(v, MemoryTtl)
      BY <1>1, <2>1 DEF TypeOK
    <3> QED BY <1>1, <1>2, <3>1 DEF MemoryAge
  <2>2. CASE j # i \/ memory' = memory
    <3>1. memory'[j] = memory[j]
      BY <1>1, <2>2 DEF TypeOK
    <3> QED BY <3>1 DEF PriceAges, MemoryAge, PriceSpan
  <2> QED BY <2>1, <2>2
<1> QED BY <1>3, <1>4, <1>5, <1>6 DEF CopyAges

LEMMA PriceStepKeeps ==
    ASSUME WellTyped, ModelAges, PriceAges, NEW c \in Calls,
           \/ ReadMemory(c) \/ ReadRedis(c) \/ Keep(c)
           \/ LoadPrice(c) \/ LoadPriceFails(c) \/ CachePricing(c) \/ PublishPricing(c)
    PROVE  WellTyped' /\ ModelAges' /\ PriceAges'
<1> USE DEF modelVars, priceVars
<1>0. /\ TypeOK /\ held[c] \in 0 .. Hold /\ calm \in Nat /\ stage[c] = "price"
      /\ RedisTtl \in Nat \ {0} /\ MemoryTtl \in Nat \ {0} /\ Hold \in Nat
      /\ "price" \in Stages /\ "controller" \in Stages
      /\ "read" \in Steps /\ "shared" \in Steps /\ "keep" \in Steps /\ "load" \in Steps /\ "fill" \in Steps
      /\ "publish" \in Steps /\ "nothing" \in Things /\ Prices \subseteq Things /\ price \in Prices /\ "default" \in Prices
  BY CatalogueAssumption
     DEF WellTyped, TypeOK, PriceSpan, Stages, Steps, Things, Prices, ReadMemory, ReadRedis, Keep,
         LoadPrice, LoadPriceFails, CachePricing, PublishPricing, Pricing, Loaded
<1>1. ModelAge(c) /\ HandTyped(c) /\ PriceAge(c)
  BY DEF ModelAges, PriceAges, WellTyped
<1>2. at[c] \in Instances
  BY <1>0, <1>1 DEF HandTyped
\* the call goes on without a price in its hand, or with one to keep or to fill
<1>3. ASSUME NEW st \in {"price", "controller"}, NEW sp \in {"read", "shared", "load"}
      PROVE  Sound(c, st, sp, "nothing")
  BY <1>0, <1>1, <1>3 DEF Sound, ModelAge
<1>4. CASE ReadMemory(c)
  <2>1. UNCHANGED <<model, quiet, entry, price, redis, memory, calm>> /\ CopiesTyped' /\ CopyAges'
    BY <1>4, CopiesKept DEF ReadMemory
  <2>2. CASE memory[at[c]] # Nothing
    <3>1. Goto(c, "controller", "read", "nothing")
      BY <1>4, <2>2 DEF ReadMemory, Charged
    <3> QED BY <1>0, <1>3, <2>1, <3>1, GoesOn
  <2>3. CASE memory[at[c]] = Nothing
    <3>1. Goto(c, "price", "shared", "nothing")
      BY <1>4, <2>3 DEF ReadMemory
    <3> QED BY <1>0, <1>3, <2>1, <3>1, GoesOn
  <2> QED BY <2>2, <2>3
<1>5. CASE ReadRedis(c)
  <2>1. UNCHANGED <<model, quiet, entry, price, redis, memory, calm>> /\ CopiesTyped' /\ CopyAges'
    BY <1>5, CopiesKept DEF ReadRedis
  <2>2. CASE redis # Nothing
    <3>1. Goto(c, "price", "keep", redis.value)
      BY <1>5, <2>2 DEF ReadRedis
    <3>2. redis.value \in Prices /\ redis.ttl \in 1 .. RedisTtl
      BY <1>0, <2>2, CopiesHere
    <3>3. redis.value # price => calm' < RedisTtl + Hold + held[c]
      BY <1>0, <2>1, <3>2, Names DEF PriceAges, RedisAge
    <3>4. Sound(c, "price", "keep", redis.value)
      BY <1>0, <1>1, <3>2, <3>3 DEF Sound, ModelAge
    <3> QED BY <1>0, <2>1, <3>1, <3>2, <3>4, GoesOn
  <2>3. CASE redis = Nothing
    <3>1. Goto(c, "price", "load", "nothing")
      BY <1>5, <2>3 DEF ReadRedis
    <3> QED BY <1>0, <1>3, <2>1, <3>1, GoesOn
  <2> QED BY <2>2, <2>3
<1>6. CASE Keep(c)
  <2>1. /\ UNCHANGED <<model, quiet, entry, price, redis, calm>> /\ Pricing(c, "keep")
        /\ memory' = [memory EXCEPT ![at[c]] = Copy(hand[c], MemoryTtl)]
        /\ Goto(c, "controller", "read", "nothing")
    BY <1>6 DEF Keep, Charged
  <2>2. hand[c] \in Prices /\ (hand[c] # price => calm < RedisTtl + 2 * Hold)
    BY <1>0, <1>1, <2>1 DEF HandTyped, PriceAge, Loaded
  <2>3. CopiesTyped' /\ CopyAges'
    BY <1>2, <2>1, <2>2, PriceWritten
  <2> QED BY <1>0, <1>3, <2>1, <2>3, GoesOn
<1>7. CASE LoadPrice(c) \/ LoadPriceFails(c)
  <2>1. UNCHANGED <<model, quiet, entry, price, redis, memory>> /\ calm' \in {calm, 0}
    BY <1>7 DEF LoadPrice, LoadPriceFails
  <2>2. CopiesTyped' /\ CopyAges'
    BY <2>1, CopiesKept
  <2>3. PICK v \in Prices : Goto(c, "price", "fill", v) /\ (v = price \/ calm' = 0)
    BY <1>0, <1>7 DEF LoadPrice, LoadPriceFails
  <2>4. Sound(c, "price", "fill", v)
    BY <1>0, <1>1, <2>3 DEF Sound, ModelAge
  <2> QED BY <1>0, <2>1, <2>2, <2>3, <2>4, GoesOn
<1>8. CASE CachePricing(c)
  <2>1. /\ UNCHANGED <<model, quiet, entry, price, redis, calm>> /\ Pricing(c, "fill")
        /\ memory' = [memory EXCEPT ![at[c]] = Copy(hand[c], MemoryTtl)]
        /\ Goto(c, "price", "publish", hand[c])
    BY <1>8 DEF CachePricing
  <2>2. /\ hand[c] \in Prices
        /\ hand[c] # price => calm <= held[c] /\ calm < RedisTtl + 2 * Hold
    BY <1>0, <1>1, <2>1 DEF HandTyped, PriceAge, Loaded
  <2>3. CopiesTyped' /\ CopyAges'
    BY <1>2, <2>1, <2>2, PriceWritten
  <2>4. Sound(c, "price", "publish", hand[c])
    BY <1>0, <1>1, <2>1, <2>2 DEF Sound, ModelAge
  <2> QED BY <1>0, <2>1, <2>2, <2>3, <2>4, GoesOn
<1>9. CASE PublishPricing(c)
  <2>1. /\ UNCHANGED <<model, quiet, entry, price, memory, calm>> /\ Pricing(c, "publish")
        /\ redis' = Copy(hand[c], RedisTtl) \/ redis' = redis
        /\ Goto(c, "controller", "read", "nothing")
    BY <1>9 DEF PublishPricing, Charged
  <2>2. /\ hand[c] \in Prices
        /\ hand[c] # price => calm <= Hold /\ calm < RedisTtl + 2 * Hold
    BY <1>0, <1>1, <2>1 DEF HandTyped, PriceAge, Loaded
  <2>3. CopiesTyped' /\ CopyAges'
    BY <1>2, <2>1, <2>2, PriceWritten
  <2> QED BY <1>0, <1>3, <2>1, <2>3, GoesOn
<1> QED BY <1>4, <1>5, <1>6, <1>7, <1>8, <1>9

LEMMA ServeKeeps ==
    ASSUME WellTyped, ModelAges, PriceAges, NEW c \in Calls, Serve(c)
    PROVE  WellTyped' /\ ModelAges' /\ PriceAges'
<1>1. CASE Leave(c)
  <2>1. UNCHANGED <<model, quiet, entry, price, redis, memory, calm>> /\ Goto(c, "idle", "read", "nothing")
    BY <1>1 DEF Leave, modelVars, priceVars
  <2>2. CopiesTyped' /\ CopyAges'
    BY <2>1, CopiesKept
  <2>3. Sound(c, "idle", "read", "nothing")
    BY DEF Sound
  <2>4. "idle" \in Stages /\ "read" \in Steps /\ "nothing" \in Things
    BY DEF Stages, Steps, Things
  <2> QED BY <2>1, <2>2, <2>3, <2>4, GoesOn
<1> QED BY <1>1, ArriveKeeps, ModelStepKeeps, PriceStepKeeps DEF Serve

-----------------------------------------------------------------------------
(***************************************************************************)
(* Administrators and time.                                                *)
(***************************************************************************)
\* What is known is as old as the last change, and ages with the clock.
LEMMA RowsChangeKeeps ==
    ASSUME WellTyped, ModelAges, PriceAges, UNCHANGED <<entry, redis, memory, callVars>>,
           model' \in Statuses, price' \in Prices,
           \/ quiet' = 0 /\ UNCHANGED <<price, calm>>
           \/ calm' = 0 /\ UNCHANGED <<model, quiet>>
    PROVE  WellTyped' /\ ModelAges' /\ PriceAges'
<1> USE DEF callVars
<1>1. /\ TypeOK /\ calm \in Nat /\ quiet \in Nat /\ Hold \in Nat /\ PriceSpan = RedisTtl + MemoryTtl + 2 * Hold
      /\ ModelTtl \in Nat \ {0} /\ RedisTtl \in Nat \ {0} /\ MemoryTtl \in Nat \ {0}
      /\ 0 \in 0 .. ModelSpan /\ 0 \in 0 .. PriceSpan
  BY CatalogueAssumption DEF WellTyped, TypeOK, PriceSpan, ModelSpan
<1>2. WellTyped'
  <2>1. quiet' \in 0 .. ModelSpan /\ calm' \in 0 .. PriceSpan
    BY <1>1 DEF TypeOK
  <2>2. TypeOK'
    BY <1>1, <2>1 DEF TypeOK
  <2> QED BY <2>2 DEF WellTyped, HandTyped, Asking, Pricing, Loaded
<1>3. /\ entry.ttl \in Nat /\ redis.ttl \in Nat /\ entry.ttl <= ModelTtl /\ redis.ttl <= RedisTtl
      /\ \A i \in Instances : memory[i].ttl \in Nat /\ memory[i].ttl <= MemoryTtl
      /\ \A c \in Calls : held[c] \in Nat
  BY <1>1, CopiesHere DEF TypeOK
<1>4. CASE quiet' = 0 /\ UNCHANGED <<price, calm>>
  <2>1. EntryAge'
    BY <1>1, <1>3, <1>4 DEF EntryAge
  <2>2. \A c \in Calls : ModelAge(c)'
    BY <1>1, <1>3, <1>4 DEF ModelAge
  <2>3. PriceAges'
    BY <1>4 DEF PriceAges, RedisAge, MemoryAge, PriceAge, Pricing, Loaded
  <2> QED BY <1>2, <2>1, <2>2, <2>3 DEF ModelAges
<1>5. CASE calm' = 0 /\ UNCHANGED <<model, quiet>>
  <2>1. RedisAge'
    BY <1>1, <1>3, <1>5 DEF RedisAge
  <2>2. \A i \in Instances : MemoryAge(i)'
    BY <1>1, <1>3, <1>5 DEF MemoryAge, PriceSpan
  <2>3. \A c \in Calls : PriceAge(c)'
    BY <1>1, <1>3, <1>5 DEF PriceAge
  <2>4. ModelAges'
    BY <1>5 DEF ModelAges, EntryAge, ModelAge, Asking
  <2> QED BY <1>2, <2>1, <2>2, <2>3, <2>4 DEF PriceAges
<1> QED BY <1>4, <1>5

LEMMA RestartKeeps ==
    ASSUME WellTyped, ModelAges, PriceAges, NEW i \in Instances, Restart(i)
    PROVE  WellTyped' /\ ModelAges' /\ PriceAges'
<1> USE DEF modelVars, callVars
<1>1. UNCHANGED <<model, quiet, entry, price, redis, calm, callVars>> /\ memory' = [memory EXCEPT ![i] = Nothing]
  BY DEF Restart
<1>2. WellTyped'
  BY <1>1 DEF WellTyped, TypeOK, HandTyped, Asking, Pricing, Loaded, Copies
<1>3. ASSUME NEW j \in Instances PROVE MemoryAge(j)'
  <2>1. memory'[j] = Nothing \/ memory'[j] = memory[j]
    BY <1>1 DEF WellTyped, TypeOK
  <2>2. Nothing.value = "nothing"
    BY DEF Nothing
  <2> QED BY <1>1, <2>1, <2>2 DEF PriceAges, MemoryAge, PriceSpan
<1>4. ModelAges' /\ RedisAge' /\ \A c \in Calls : PriceAge(c)'
  BY <1>1 DEF ModelAges, PriceAges, EntryAge, ModelAge, RedisAge, PriceAge, Asking, Pricing, Loaded
<1> QED BY <1>2, <1>3, <1>4 DEF PriceAges

LEMMA TickKeeps ==
    ASSUME WellTyped, ModelAges, PriceAges, Tick
    PROVE  WellTyped' /\ ModelAges' /\ PriceAges'
<1>1. /\ TypeOK /\ calm \in Nat /\ quiet \in Nat /\ Hold \in Nat /\ PriceSpan \in Nat /\ ModelSpan \in Nat
      /\ ModelTtl \in Nat \ {0} /\ RedisTtl \in Nat \ {0} /\ MemoryTtl \in Nat \ {0}
  BY CatalogueAssumption DEF WellTyped, TypeOK, PriceSpan, ModelSpan
<1>2. /\ UNCHANGED <<model, price, stage, step, at, hand>>
      /\ entry' = Older(entry) /\ redis' = Older(redis) /\ memory' = [i \in Instances |-> Older(memory[i])]
  BY DEF Tick
<1>3. /\ quiet' \in 0 .. ModelSpan /\ quiet' <= quiet + 1
      /\ calm' \in 0 .. PriceSpan /\ calm' <= calm + 1
  BY <1>1 DEF Tick, Least
<1>4. /\ held' \in [Calls -> 0 .. Hold]
      /\ \A c \in Calls : stage[c] # "idle" => held'[c] = held[c] + 1
  <2>1. \A c \in Calls : (IF stage[c] = "idle" THEN 0 ELSE held[c] + 1) \in 0 .. Hold
    BY <1>1 DEF Tick, TypeOK
  <2> QED BY <2>1 DEF Tick
<1>5. /\ entry' \in Copies(Statuses \ {"absent"}, ModelTtl)
      /\ entry'.value # "nothing" =>
            entry.value = entry'.value /\ entry'.ttl = entry.ttl - 1 /\ entry.ttl \in Nat
  BY <1>1, <1>2, Names, CopyAged DEF TypeOK
<1>6. /\ redis' \in Copies(Prices, RedisTtl)
      /\ redis'.value # "nothing" =>
            redis.value = redis'.value /\ redis'.ttl = redis.ttl - 1 /\ redis.ttl \in Nat
  BY <1>1, <1>2, Names, CopyAged DEF TypeOK
<1>7. ASSUME NEW i \in Instances
      PROVE  /\ memory'[i] \in Copies(Prices, MemoryTtl)
             /\ memory'[i].value # "nothing" =>
                   memory[i].value = memory'[i].value /\ memory'[i].ttl = memory[i].ttl - 1 /\ memory[i].ttl \in Nat
  <2>1. memory'[i] = Older(memory[i]) /\ memory[i] \in Copies(Prices, MemoryTtl)
    BY <1>1, <1>2 DEF TypeOK
  <2> QED BY <1>1, <2>1, Names, CopyAged
<1>8. WellTyped'
  <2>1. memory' \in [Instances -> Copies(Prices, MemoryTtl)]
    BY <1>2, <1>7
  <2>2. TypeOK'
    BY <1>1, <1>2, <1>3, <1>4, <1>5, <1>6, <2>1 DEF TypeOK
  <2> QED BY <1>2, <2>2 DEF WellTyped, HandTyped, Asking, Pricing, Loaded
<1>9. \* an age and a TTL that runs down
      \A a, b, t, n \in Int : b <= a + 1 /\ a + t <= n => b + (t - 1) <= n
  OBVIOUS
<1>10. \A a, b, t, n \in Int : b <= a + 1 /\ a + t < n => b + (t - 1) < n
  OBVIOUS
<1>11. EntryAge'
  <2> SUFFICES ASSUME entry'.value # "nothing", entry'.value # model
               PROVE  quiet' + entry'.ttl <= ModelTtl + Hold
    BY <1>2 DEF EntryAge
  <2>1. quiet + entry.ttl <= ModelTtl + Hold
    BY <1>5 DEF ModelAges, EntryAge
  <2> QED BY <1>1, <1>3, <1>5, <1>9, <2>1
<1>12. RedisAge'
  <2> SUFFICES ASSUME redis'.value # "nothing", redis'.value # price
               PROVE  calm' + redis'.ttl <= RedisTtl + Hold
    BY <1>2 DEF RedisAge
  <2>1. calm + redis.ttl <= RedisTtl + Hold
    BY <1>6 DEF PriceAges, RedisAge
  <2> QED BY <1>1, <1>3, <1>6, <1>9, <2>1
<1>13. ASSUME NEW i \in Instances PROVE MemoryAge(i)'
  <2> SUFFICES ASSUME memory'[i].value # "nothing", memory'[i].value # price
               PROVE  calm' + memory'[i].ttl < PriceSpan
    BY <1>2 DEF MemoryAge, PriceSpan
  <2>1. calm + memory[i].ttl < PriceSpan
    BY <1>7 DEF PriceAges, MemoryAge
  <2> QED BY <1>1, <1>3, <1>7, <1>10, <2>1
<1>14. ASSUME NEW c \in Calls PROVE ModelAge(c)' /\ PriceAge(c)'
  <2>1. CASE stage[c] = "idle"
    BY <1>2, <2>1 DEF ModelAge, PriceAge, Asking, Pricing, Loaded
  <2>2. CASE stage[c] # "idle"
    <3>1. held'[c] = held[c] + 1 /\ held[c] \in Nat
      BY <1>1, <1>4, <2>2 DEF TypeOK
    <3>2. ModelAge(c) /\ PriceAge(c)
      BY DEF ModelAges, PriceAges
    <3>3. ModelAge(c)'
      BY <1>1, <1>2, <1>3, <3>1, <3>2 DEF ModelAge, Asking
    <3>4. PriceAge(c)'
      BY <1>1, <1>2, <1>3, <3>1, <3>2 DEF PriceAge, Pricing, Loaded
    <3> QED BY <3>3, <3>4
  <2> QED BY <2>1, <2>2
<1> QED BY <1>8, <1>11, <1>12, <1>13, <1>14 DEF ModelAges, PriceAges

-----------------------------------------------------------------------------
(***************************************************************************)
(* The theorems.                                                           *)
(***************************************************************************)
LEMMA InitHolds == Init => WellTyped /\ ModelAges /\ PriceAges
<1> SUFFICES ASSUME Init PROVE WellTyped /\ ModelAges /\ PriceAges
  OBVIOUS
<1>1. Nothing.value = "nothing" /\ \A S, n : Nothing \in Copies(S, n)
  BY DEF Nothing, Copies
<1>2. 0 \in 0 .. Hold /\ 0 \in 0 .. ModelSpan /\ 0 \in 0 .. PriceSpan
  BY CatalogueAssumption DEF ModelSpan, PriceSpan
<1>3. TypeOK
  <2>1. model \in Statuses /\ price \in Prices
    BY DEF Init, Statuses, Prices
  <2>2. memory \in [Instances -> Copies(Prices, MemoryTtl)] /\ held \in [Calls -> 0 .. Hold]
    BY <1>1, <1>2 DEF Init
  <2>3. stage \in [Calls -> {"idle"}] /\ step \in [Calls -> {"read"}] /\ hand \in [Calls -> {"nothing"}]
        /\ at \in [Calls -> {Nowhere}]
    BY DEF Init
  <2> QED BY <1>1, <1>2, <2>1, <2>2, <2>3 DEF Init, TypeOK
<1>4. \A c \in Calls : HandTyped(c) /\ ModelAge(c) /\ PriceAge(c)
  BY DEF Init, HandTyped, ModelAge, PriceAge, Asking, Pricing, Loaded
<1>5. EntryAge /\ RedisAge /\ \A i \in Instances : MemoryAge(i)
  BY <1>1 DEF Init, EntryAge, RedisAge, MemoryAge
<1> QED BY <1>3, <1>4, <1>5 DEF WellTyped, ModelAges, PriceAges

LEMMA NextKeeps ==
    WellTyped /\ ModelAges /\ PriceAges /\ [CatalogueNext]_vars => (WellTyped /\ ModelAges /\ PriceAges)'
<1> SUFFICES ASSUME WellTyped, ModelAges, PriceAges, [CatalogueNext]_vars
             PROVE  WellTyped' /\ ModelAges' /\ PriceAges'
  OBVIOUS
<1>1. CASE CreateModel \/ \E s \in Statuses : ChangeModel(s)
  <2>1. /\ UNCHANGED <<entry, redis, memory, callVars, price, calm>> /\ quiet' = 0 /\ model' \in Statuses
    BY <1>1 DEF CreateModel, ChangeModel, priceVars, Statuses
  <2>2. price' \in Prices
    BY <2>1 DEF WellTyped, TypeOK
  <2> QED BY <2>1, <2>2, RowsChangeKeeps
<1>2. CASE CreatePricing \/ ChangePrice
  <2>1. /\ UNCHANGED <<entry, redis, memory, callVars, model, quiet>> /\ calm' = 0 /\ price' \in Prices
    BY <1>2 DEF CreatePricing, ChangePrice, modelVars, Prices
  <2>2. model' \in Statuses
    BY <2>1 DEF WellTyped, TypeOK
  <2> QED BY <2>1, <2>2, RowsChangeKeeps
<1>3. CASE UNCHANGED vars
  BY <1>3 DEF vars, modelVars, priceVars, callVars, WellTyped, TypeOK, HandTyped, ModelAges, PriceAges,
              EntryAge, ModelAge, RedisAge, MemoryAge, PriceAge, Asking, Pricing, Loaded
<1> QED BY <1>1, <1>2, <1>3, ServeKeeps, TickKeeps, RestartKeeps DEF CatalogueNext

LEMMA Invariant == Spec => [](WellTyped /\ ModelAges /\ PriceAges)
  BY InitHolds, NextKeeps, PTL DEF Spec

\* Rows, copies and calls hold what they may: an absent model is not cached,
\* no copy is kept for ever, no call is kept longer than it takes.
THEOREM TypeCorrect == Spec => []TypeOK
<1>1. WellTyped => TypeOK
  BY DEF WellTyped
<1> QED BY <1>1, Invariant, PTL

\* A call that was let in and charged is refused for want of its model only if
\* the model changed within the life of a copy and two calls.
THEOREM UnservedAlwaysAfterChange == Spec => []UnservedOnlyAfterChange
<1>1. WellTyped /\ ModelAges => UnservedOnlyAfterChange
  <2> SUFFICES ASSUME WellTyped, ModelAges, NEW c \in Calls, stage[c] = "unserved"
               PROVE  quiet < ModelSpan
    BY DEF UnservedOnlyAfterChange
  <2>1. quiet < ModelTtl + Hold + held[c]
    BY DEF ModelAges, ModelAge
  <2>2. held[c] \in 0 .. Hold /\ quiet \in Nat
    BY CatalogueAssumption DEF WellTyped, TypeOK, ModelSpan
  <2> QED BY <2>1, <2>2, CatalogueAssumption DEF ModelSpan
<1> QED BY <1>1, Invariant, PTL

\* A price that does not change is in all copies once both TTLs and the time
\* of two calls are over.
THEOREM PriceAlwaysSettles == Spec => []PriceSettles
<1>1. PriceAges => PriceSettles
  BY DEF PriceAges, RedisAge, MemoryAge, PriceSettles
<1> QED BY <1>1, Invariant, PTL

=============================================================================
