----------------------------- MODULE LimitsProofs -----------------------------
(***************************************************************************)
(* Proofs about Limits and Usage, what a call passes and what is written   *)
(* down after it, each by an inductive invariant.                          *)
(*                                                                         *)
(* Limits, for every set of calls and of windows, every limit and every    *)
(* maximum: IInv, and what follows.                                        *)
(*                                                                         *)
(* slots is squeezed between two sizes: it is at most the calls in         *)
(* progress that took one plus the leaked ones, and at least the calls in  *)
(* progress less the untracked ones.  Each action moves one call between these sets and  *)
(* slots by at most one; the lemmas on sizes say so, and the rest of the   *)
(* proof is arithmetic.                                                    *)
(***************************************************************************)
EXTENDS Limits, Usage, FiniteSetTheorems, TLAPS

\* Sizes of the sets of calls, and what adding or removing one call does.
LEMMA Sizes ==
    /\ \A S \in SUBSET Calls : IsFiniteSet(S) /\ Cardinality(S) \in Nat
    /\ \A S \in SUBSET Calls, c \in Calls :
          Cardinality(S \cup {c}) = IF c \in S THEN Cardinality(S) ELSE Cardinality(S) + 1
    /\ \A S \in SUBSET Calls, c \in Calls :
          Cardinality(S \ {c}) = IF c \in S THEN Cardinality(S) - 1 ELSE Cardinality(S)
    /\ \A S, T \in SUBSET Calls : S \subseteq T => Cardinality(S) <= Cardinality(T)
<1>1. \A S \in SUBSET Calls : IsFiniteSet(S)
  BY LimitsAssumption, FS_Subset
<1>2. \A S \in SUBSET Calls : Cardinality(S) \in Nat
  BY <1>1, FS_CardinalityType
<1>3. \A S \in SUBSET Calls, c \in Calls :
         Cardinality(S \cup {c}) = IF c \in S THEN Cardinality(S) ELSE Cardinality(S) + 1
  BY <1>1, FS_AddElement
<1>4. \A S \in SUBSET Calls, c \in Calls :
         Cardinality(S \ {c}) = IF c \in S THEN Cardinality(S) - 1 ELSE Cardinality(S)
  BY <1>1, FS_RemoveElement
<1>5. \A S, T \in SUBSET Calls : S \subseteq T => Cardinality(S) <= Cardinality(T)
  BY <1>1, FS_Subset
<1> QED BY <1>1, <1>2, <1>3, <1>4, <1>5

LEMMA EmptySize == Cardinality({}) = 0
BY FS_EmptySet

\* A time within the bound names an index within it.
LEMMA IndexInRange ==
    ASSUME stamp \in [Calls -> Index], NEW w \in Windows, NEW c \in Calls
    PROVE  KeyIndex(w, c) \in Index
<1>1. stamp[c] \in Nat /\ stamp[c] <= MaxTime /\ Size[w] \in Nat /\ Size[w] >= 1
  BY LimitsAssumption DEF Index
<1>2. \A n \in Nat, m \in Nat : m >= 1 => n \div m \in Nat /\ n \div m <= n
  OBVIOUS
<1> QED BY <1>1, <1>2, LimitsAssumption DEF KeyIndex, Index

-----------------------------------------------------------------------------
(***************************************************************************)
(* The windows' half of the invariant.                                     *)
(***************************************************************************)
RateInv ==
    /\ now \in Index /\ hits \in [Windows -> [Index -> Nat]] /\ stamp \in [Calls -> Index]
    /\ counted \subseteq Calls /\ lapsed \subseteq Windows \X Index
    /\ RateLimitKept
    /\ \A c \in counted : at[c] \notin {"arrived", "named"}

SlotInv ==
    /\ slots \in 0 .. Max /\ expiring \in BOOLEAN /\ at \in [Calls -> CallState]
    /\ untracked \subseteq Calls /\ leaked \subseteq Calls
    /\ SlotsAccounted
    /\ Cardinality(InProgress) <= slots + Cardinality(untracked)
    /\ slots > 0 => expiring
    /\ \A c \in leaked : at[c] = "ended"
    /\ \A c \in untracked : at[c] \in {"guarded", "handling", "ended"}

LEMMA Halves == IInv <=> RateInv /\ SlotInv
BY DEF IInv, TypeOK, RateInv, SlotInv

\* A call that was admitted is never again in the states before the check.
LEMMA AfterCheckKeeps ==
    ASSUME RateInv, SlotInv, NEW c \in Calls, at[c] \in {"metered", "guarded", "handling"},
           NEW to \in {"denied", "guarded", "handling", "ended"}, at' = [at EXCEPT ![c] = to],
           UNCHANGED <<now, hits, stamp, counted, lapsed>>
    PROVE  RateInv'
BY DEF RateInv, SlotInv, RateLimitKept, CountedIn, KeyIndex

LEMMA NameKeysKeeps ==
    ASSUME RateInv, SlotInv, NEW c \in Calls, NameKeys(c)
    PROVE  RateInv'
<1>1. c \notin counted /\ stamp' = [stamp EXCEPT ![c] = now] /\ UNCHANGED <<now, hits, counted, lapsed>>
  BY DEF NameKeys, Step, RateInv
<1>2. \A w \in Windows, i \in Index : CountedIn(w, i)' = CountedIn(w, i)
  BY <1>1 DEF CountedIn, KeyIndex, RateInv
<1>3. stamp' \in [Calls -> Index] /\ \A d \in counted' : at'[d] \notin {"arrived", "named"}
  BY <1>1 DEF RateInv, SlotInv, NameKeys, Step
<1> QED BY <1>1, <1>2, <1>3 DEF RateInv, RateLimitKept

LEMMA CheckRateKeeps ==
    ASSUME RateInv, SlotInv, NEW c \in Calls, CheckRate(c)
    PROVE  RateInv'
<1>1. c \notin counted /\ at[c] = "named" /\ UNCHANGED <<now, stamp, lapsed>>
  BY DEF CheckRate, Step, RateInv
<1>2. CASE ~Under(c)
  BY <1>1, <1>2 DEF CheckRate, Step, RateInv, SlotInv, RateLimitKept, CountedIn, KeyIndex
<1>3. CASE Under(c)
  <2>1. /\ at' = [at EXCEPT ![c] = "metered"] /\ counted' = counted \cup {c}
        /\ hits' = [w \in Windows |-> [hits[w] EXCEPT ![KeyIndex(w, c)] = @ + 1]]
    BY <1>3 DEF CheckRate, Step
  <2>2. \A w \in Windows : KeyIndex(w, c) \in Index
    BY IndexInRange DEF RateInv
  <2>3. \A w \in Windows, i \in Index :
           hits'[w][i] = IF i = KeyIndex(w, c) THEN hits[w][i] + 1 ELSE hits[w][i]
    BY <2>1, <2>2 DEF RateInv
  <2>4. hits' \in [Windows -> [Index -> Nat]]
    BY <2>1, <2>2 DEF RateInv
  <2>5. \A w \in Windows, i \in Index :
           CountedIn(w, i)' = IF i = KeyIndex(w, c) THEN CountedIn(w, i) \cup {c} ELSE CountedIn(w, i)
    BY <1>1, <2>1 DEF CountedIn, KeyIndex
  <2>6. \A w \in Windows, i \in Index : CountedIn(w, i) \in SUBSET Calls /\ c \notin CountedIn(w, i)
    BY <1>1 DEF CountedIn, RateInv
  <2>7. \A w \in Windows, i \in Index :
           Cardinality(CountedIn(w, i)') =
               IF i = KeyIndex(w, c) THEN Cardinality(CountedIn(w, i)) + 1
                                     ELSE Cardinality(CountedIn(w, i))
    BY <2>5, <2>6, Sizes
  <2>8. ASSUME NEW w \in Windows, NEW i \in Index, <<w, i>> \notin lapsed
        PROVE  /\ hits'[w][i] = Cardinality(CountedIn(w, i)')
               /\ Cardinality(CountedIn(w, i)') <= Limit[w]
    <3>1. hits[w][i] = Cardinality(CountedIn(w, i)) /\ Cardinality(CountedIn(w, i)) <= Limit[w]
      BY <2>8 DEF RateInv, RateLimitKept
    <3>2. i = KeyIndex(w, c) => hits[w][i] < Limit[w]
      BY <1>3 DEF Under
    <3>3. Cardinality(CountedIn(w, i)) \in Nat /\ Limit[w] \in Nat
      BY <2>6, Sizes, LimitsAssumption
    <3> QED BY <2>3, <2>7, <3>1, <3>2, <3>3
  <2>9. \A d \in counted' : at'[d] \notin {"arrived", "named"}
    BY <2>1 DEF RateInv, SlotInv
  <2> QED BY <1>1, <2>1, <2>4, <2>8, <2>9 DEF RateInv, RateLimitKept
<1> QED BY <1>2, <1>3

LEMMA WindowExpiresKeeps ==
    ASSUME RateInv, NEW w \in Windows, NEW i \in Index, WindowExpires(w, i)
    PROVE  RateInv'
BY DEF WindowExpires, RateInv, RateLimitKept, CountedIn, KeyIndex

-----------------------------------------------------------------------------
(***************************************************************************)
(* The slots' half of the invariant.                                       *)
(***************************************************************************)
\* A call that begins or ends to be in progress, and one that does neither.
LEMMA ProgressBegins ==
    ASSUME SlotInv, NEW c \in Calls, at[c] = "metered", at' = [at EXCEPT ![c] = "guarded"]
    PROVE  /\ Cardinality(InProgress)' = Cardinality(InProgress) + 1
           /\ untracked' = untracked =>
                 Cardinality(Tracked)' = Cardinality(Tracked) + 1
           /\ untracked' = untracked \cup {c} => Cardinality(Tracked)' = Cardinality(Tracked)
           /\ at' \in [Calls -> CallState] /\ c \notin leaked
<1>1. InProgress' = InProgress \cup {c} /\ c \notin InProgress /\ InProgress \in SUBSET Calls
  BY DEF InProgress, SlotInv
<1>2. Cardinality(InProgress') = Cardinality(InProgress) + 1
  BY <1>1, Sizes
<1>3. c \notin untracked /\ Tracked \in SUBSET Calls
  BY <1>1 DEF SlotInv, Tracked
<1>4. ASSUME untracked' = untracked
      PROVE  Cardinality(Tracked') = Cardinality(Tracked) + 1
  <2>1. Tracked' = Tracked \cup {c} /\ c \notin Tracked
    BY <1>1, <1>3, <1>4 DEF Tracked
  <2> QED BY <1>3, <2>1, Sizes
<1>5. untracked' = untracked \cup {c} => Tracked' = Tracked
  BY <1>1, <1>3 DEF Tracked
<1> QED BY <1>2, <1>4, <1>5 DEF SlotInv, CallState

LEMMA ProgressEnds ==
    ASSUME SlotInv, NEW c \in Calls, at[c] \in {"guarded", "handling"},
           at' = [at EXCEPT ![c] = "ended"], untracked' = untracked
    PROVE  /\ Cardinality(InProgress)' = Cardinality(InProgress) - 1
           /\ Cardinality(Tracked)' =
                 IF c \in untracked THEN Cardinality(Tracked) ELSE Cardinality(Tracked) - 1
           /\ Cardinality(leaked \cup {c}) = Cardinality(leaked) + 1
           /\ at' \in [Calls -> CallState]
<1>1. InProgress' = InProgress \ {c} /\ c \in InProgress /\ InProgress \in SUBSET Calls
  BY DEF InProgress, SlotInv
<1>2. Cardinality(InProgress') = Cardinality(InProgress) - 1
  BY <1>1, Sizes
<1>3. c \notin leaked /\ leaked \in SUBSET Calls
  BY DEF SlotInv
<1>4. Cardinality(leaked \cup {c}) = Cardinality(leaked) + 1
  BY <1>3, Sizes
<1>5. Tracked' = Tracked \ {c} /\ Tracked \in SUBSET Calls /\ (c \in Tracked <=> c \notin untracked)
  BY <1>1 DEF Tracked
<1>6. Cardinality(Tracked') =
         IF c \in untracked THEN Cardinality(Tracked) ELSE Cardinality(Tracked) - 1
  BY <1>5, Sizes
<1> QED BY <1>2, <1>4, <1>6 DEF SlotInv, CallState

LEMMA ProgressStays ==
    ASSUME SlotInv, NEW c \in Calls, NEW to \in CallState,
           \/ at[c] \in {"arrived", "named", "metered"} /\ to \in {"named", "limited", "metered", "denied"}
           \/ at[c] = "guarded" /\ to = "handling",
           at' = [at EXCEPT ![c] = to]
    PROVE  /\ InProgress' = InProgress /\ at' \in [Calls -> CallState]
           /\ \A d \in leaked : at'[d] = "ended"
           /\ \A d \in untracked : at'[d] \in {"guarded", "handling", "ended"}
BY DEF InProgress, SlotInv

\* The sizes that the invariant compares are numbers.
LEMMA SlotNumbers ==
    ASSUME SlotInv
    PROVE  /\ Cardinality(InProgress) \in Nat /\ Cardinality(untracked) \in Nat
           /\ Cardinality(leaked) \in Nat /\ Cardinality(Tracked) \in Nat
           /\ slots \in Nat /\ slots <= Max
BY Sizes, LimitsAssumption DEF SlotInv, InProgress, Tracked

\* The invariant's bounds on slots, from above and from below.
LEMMA Squeezed ==
    ASSUME SlotInv
    PROVE  /\ slots <= Cardinality(Tracked) + Cardinality(leaked)
           /\ Cardinality(InProgress) <= slots + Cardinality(untracked)
BY DEF SlotInv, SlotsAccounted, Tracked

LEMMA BeforeSlotKeeps ==
    ASSUME SlotInv, NEW c \in Calls,
           NameKeys(c) \/ CheckRate(c) \/ CheckRateFails(c) \/ Handle(c)
    PROVE  SlotInv'
<1>1. /\ UNCHANGED <<slots, expiring, untracked, leaked>>
      /\ InProgress' = InProgress /\ at' \in [Calls -> CallState]
      /\ \A d \in leaked : at'[d] = "ended"
      /\ \A d \in untracked : at'[d] \in {"guarded", "handling", "ended"}
  BY ProgressStays DEF NameKeys, CheckRate, CheckRateFails, Handle, Step, CallState
<1> QED BY <1>1 DEF SlotInv, SlotsAccounted, Tracked

LEMMA AcquireKeeps ==
    ASSUME SlotInv, NEW c \in Calls, Acquire(c)
    PROVE  SlotInv'
<1>1. CASE slots < Max
  <2>1. /\ at[c] = "metered" /\ at' = [at EXCEPT ![c] = "guarded"] /\ slots' = slots + 1
        /\ expiring' = (expiring \/ slots = 0) /\ UNCHANGED <<untracked, leaked>>
    BY <1>1, SlotNumbers, LimitsAssumption DEF Acquire, Step
  <2>2. expiring'
    <3>1. slots = 0 \/ slots > 0
      BY SlotNumbers
    <3>2. slots = 0 => expiring'
      BY <2>1
    <3>3. slots > 0 => expiring'
      BY <2>1 DEF SlotInv
    <3> QED BY <3>1, <3>2, <3>3
  <2>3. expiring' \in BOOLEAN
    BY <2>1 DEF SlotInv
  <2>4. /\ \A d \in leaked' : at'[d] = "ended"
        /\ \A d \in untracked' : at'[d] \in {"guarded", "handling", "ended"}
    BY <2>1 DEF SlotInv
  <2>5. slots' \in 0 .. Max
    BY <1>1, <2>1, SlotNumbers, LimitsAssumption
  <2>6. Cardinality(InProgress)' <= slots' + Cardinality(untracked)' /\ SlotsAccounted'
    <3>1. /\ Cardinality(InProgress)' = Cardinality(InProgress) + 1
          /\ Cardinality(Tracked)' = Cardinality(Tracked) + 1
      BY <2>1, ProgressBegins
    <3>2. slots' = slots + 1 /\ untracked' = untracked /\ leaked' = leaked
      BY <2>1
    <3> QED BY <3>1, <3>2, SlotNumbers, Squeezed DEF SlotsAccounted
  <2>7. at' \in [Calls -> CallState]
    BY <2>1, ProgressBegins
  <2> QED BY <2>1, <2>2, <2>3, <2>4, <2>5, <2>6, <2>7 DEF SlotInv
<1>2. CASE ~(slots < Max)
  <2>1. /\ UNCHANGED <<slots, expiring, untracked, leaked>>
        /\ InProgress' = InProgress /\ at' \in [Calls -> CallState]
        /\ \A d \in leaked : at'[d] = "ended"
        /\ \A d \in untracked : at'[d] \in {"guarded", "handling", "ended"}
    BY <1>2, ProgressStays DEF Acquire, Step, CallState
  <2> QED BY <2>1 DEF SlotInv, SlotsAccounted, Tracked
<1> QED BY <1>1, <1>2

LEMMA AcquireFailsKeeps ==
    ASSUME SlotInv, NEW c \in Calls, AcquireFails(c)
    PROVE  SlotInv'
<1>1. /\ at[c] = "metered" /\ at' = [at EXCEPT ![c] = "guarded"]
      /\ untracked' = untracked \cup {c} /\ UNCHANGED <<slots, expiring, leaked>>
  BY DEF AcquireFails, Step
<1>2. c \notin untracked
  BY <1>1 DEF SlotInv
<1>3. Cardinality(untracked') = Cardinality(untracked) + 1 /\ untracked' \subseteq Calls
  BY <1>1, <1>2, Sizes DEF SlotInv
<1>4. /\ \A d \in leaked' : at'[d] = "ended"
      /\ \A d \in untracked' : at'[d] \in {"guarded", "handling", "ended"}
      /\ at' \in [Calls -> CallState]
  BY <1>1, ProgressBegins DEF SlotInv
<1>5. Cardinality(InProgress)' <= slots' + Cardinality(untracked)' /\ SlotsAccounted'
  <2>1. /\ Cardinality(InProgress)' = Cardinality(InProgress) + 1
        /\ Cardinality(Tracked)' = Cardinality(Tracked)
    BY <1>1, ProgressBegins
  <2>2. slots' = slots /\ leaked' = leaked
    BY <1>1
  <2> QED BY <1>3, <2>1, <2>2, SlotNumbers, Squeezed DEF SlotsAccounted
<1> QED BY <1>1, <1>3, <1>4, <1>5 DEF SlotInv

\* A call that ends without giving back its slot leaves it counted.
LEMMA LeakKeeps ==
    ASSUME SlotInv, NEW c \in Calls, LaterGuardThrows(c) \/ ReleaseFails(c)
    PROVE  SlotInv'
<1>1. /\ at[c] \in {"guarded", "handling"} /\ at' = [at EXCEPT ![c] = "ended"]
      /\ leaked' = (IF c \in untracked THEN leaked ELSE leaked \cup {c})
      /\ UNCHANGED <<slots, expiring, untracked>>
  BY DEF LaterGuardThrows, ReleaseFails, Leak, Step
<1>2. /\ \A d \in leaked' : at'[d] = "ended"
      /\ \A d \in untracked' : at'[d] \in {"guarded", "handling", "ended"}
      /\ at' \in [Calls -> CallState] /\ leaked' \subseteq Calls
  BY <1>1, ProgressEnds DEF SlotInv
<1>3. Cardinality(InProgress)' <= slots' + Cardinality(untracked)' /\ SlotsAccounted'
  <2>1. /\ Cardinality(InProgress)' = Cardinality(InProgress) - 1
        /\ Cardinality(Tracked)' =
              IF c \in untracked THEN Cardinality(Tracked) ELSE Cardinality(Tracked) - 1
        /\ Cardinality(leaked \cup {c}) = Cardinality(leaked) + 1
    BY <1>1, ProgressEnds
  <2>2. /\ slots' = slots /\ untracked' = untracked
        /\ leaked' = IF c \in untracked THEN leaked ELSE leaked \cup {c}
    BY <1>1
  <2> QED BY <2>1, <2>2, SlotNumbers, Squeezed DEF SlotsAccounted
<1> QED BY <1>1, <1>2, <1>3 DEF SlotInv

LEMMA ReleaseKeeps ==
    ASSUME SlotInv, NEW c \in Calls, Release(c)
    PROVE  SlotInv'
<1>1. /\ at[c] \in {"guarded", "handling"} /\ at' = [at EXCEPT ![c] = "ended"]
      /\ slots' = (IF slots > 0 THEN slots - 1 ELSE 0) /\ UNCHANGED <<expiring, untracked, leaked>>
  BY DEF Release, Step
<1>2. /\ \A d \in leaked' : at'[d] = "ended"
      /\ \A d \in untracked' : at'[d] \in {"guarded", "handling", "ended"}
      /\ at' \in [Calls -> CallState]
  BY <1>1, ProgressEnds DEF SlotInv
<1>3. slots' \in 0 .. Max /\ (slots' > 0 => slots > 0)
  BY <1>1, SlotNumbers, LimitsAssumption
<1>4. Cardinality(InProgress)' <= slots' + Cardinality(untracked)' /\ SlotsAccounted'
  <2>1. /\ Cardinality(InProgress)' = Cardinality(InProgress) - 1
        /\ Cardinality(Tracked)' =
              IF c \in untracked THEN Cardinality(Tracked) ELSE Cardinality(Tracked) - 1
    BY <1>1, ProgressEnds
  <2>2. slots' = (IF slots > 0 THEN slots - 1 ELSE 0) /\ untracked' = untracked /\ leaked' = leaked
    BY <1>1
  <2>3. Cardinality(InProgress)' \in Nat /\ Cardinality(Tracked)' \in Nat
    BY <1>2, Sizes DEF InProgress, Tracked
  <2> QED BY <2>1, <2>2, <2>3, SlotNumbers, Squeezed DEF SlotsAccounted
<1>5. slots' > 0 => expiring'
  BY <1>1, <1>3 DEF SlotInv
<1> QED BY <1>1, <1>2, <1>3, <1>4, <1>5 DEF SlotInv

LEMMA SlotsExpireKeeps ==
    ASSUME SlotInv, SlotsExpire
    PROVE  SlotInv'
<1>1. /\ slots' = 0 /\ expiring' = FALSE /\ untracked' = untracked \cup InProgress
      /\ leaked' = {} /\ at' = at /\ InProgress' = InProgress /\ Tracked' = {}
  BY DEF SlotsExpire, InProgress, Tracked
<1>2. InProgress \in SUBSET Calls /\ untracked' \in SUBSET Calls /\ InProgress \subseteq untracked'
  BY <1>1 DEF InProgress, SlotInv
<1>3. Cardinality(InProgress') <= 0 + Cardinality(untracked')
  BY <1>1, <1>2, Sizes
<1>4. \A d \in untracked' : at'[d] \in {"guarded", "handling", "ended"}
  BY <1>1 DEF SlotInv, InProgress
<1>5. SlotsAccounted' /\ slots' \in 0 .. Max /\ ~(slots' > 0)
  BY <1>1, EmptySize, SlotNumbers, LimitsAssumption DEF SlotsAccounted
<1> QED BY <1>1, <1>2, <1>3, <1>4, <1>5 DEF SlotInv

-----------------------------------------------------------------------------
(***************************************************************************)
(* The invariant, and what follows from it.                                *)
(***************************************************************************)
LEMMA InitHolds == Init => RateInv /\ SlotInv
<1> SUFFICES ASSUME Init PROVE RateInv /\ SlotInv
  OBVIOUS
<1>1. InProgress = {} /\ \A w \in Windows, i \in Index : CountedIn(w, i) = {}
  BY DEF Init, InProgress, CountedIn
<1>2. RateInv
  <2>1. \A w \in Windows, i \in Index : hits[w][i] = 0 /\ Cardinality(CountedIn(w, i)) = 0
    BY <1>1, EmptySize DEF Init
  <2>2. \A w \in Windows : 0 <= Limit[w]
    BY LimitsAssumption
  <2>3. RateLimitKept
    BY <2>1, <2>2 DEF RateLimitKept
  <2>4. 0 \in Index
    BY LimitsAssumption DEF Index
  <2> QED BY <2>3, <2>4 DEF Init, RateInv
<1>3. SlotInv
  <2>1. /\ slots = 0 /\ Cardinality(InProgress) = 0 /\ Cardinality(Tracked) = 0
        /\ Cardinality(leaked) = 0 /\ Cardinality(untracked) = 0
    BY <1>1, EmptySize DEF Init, Tracked
  <2>2. SlotsAccounted /\ Cardinality(InProgress) <= slots + Cardinality(untracked)
    BY <2>1 DEF SlotsAccounted
  <2>3. slots \in 0 .. Max /\ ~(slots > 0)
    BY <2>1, LimitsAssumption
  <2> QED BY <2>2, <2>3 DEF Init, SlotInv, CallState
<1> QED BY <1>2, <1>3

LEMMA CallKeeps ==
    ASSUME RateInv, SlotInv, NEW c \in Calls, Call(c)
    PROVE  RateInv' /\ SlotInv'
<1>1. CASE NameKeys(c)
  BY <1>1, NameKeysKeeps, BeforeSlotKeeps
<1>2. CASE CheckRate(c)
  BY <1>2, CheckRateKeeps, BeforeSlotKeeps
<1>3. CASE CheckRateFails(c)
  <2>1. RateInv'
    BY <1>3 DEF CheckRateFails, Step, RateInv, SlotInv, RateLimitKept, CountedIn, KeyIndex
  <2> QED BY <1>3, <2>1, BeforeSlotKeeps
<1>4. CASE Acquire(c)
  BY <1>4, AcquireKeeps, AfterCheckKeeps DEF Acquire, Step
<1>5. CASE AcquireFails(c)
  BY <1>5, AcquireFailsKeeps, AfterCheckKeeps DEF AcquireFails, Step
<1>6. CASE LaterGuardThrows(c) \/ ReleaseFails(c)
  BY <1>6, LeakKeeps, AfterCheckKeeps DEF LaterGuardThrows, ReleaseFails, Step
<1>7. CASE Handle(c)
  BY <1>7, BeforeSlotKeeps, AfterCheckKeeps DEF Handle, Step
<1>8. CASE Release(c)
  BY <1>8, ReleaseKeeps, AfterCheckKeeps DEF Release, Step
<1> QED BY <1>1, <1>2, <1>3, <1>4, <1>5, <1>6, <1>7, <1>8 DEF Call

LEMMA NextKeeps ==
    ASSUME RateInv, SlotInv, [Next]_vars
    PROVE  RateInv' /\ SlotInv'
<1>1. ASSUME NEW c \in Calls, Call(c) PROVE RateInv' /\ SlotInv'
  BY <1>1, CallKeeps
<1>2. CASE Tick
  BY <1>2, LimitsAssumption
     DEF Tick, RateInv, SlotInv, RateLimitKept, CountedIn, KeyIndex, SlotsAccounted, InProgress, Tracked, Index
<1>3. CASE SlotsExpire
  <2>1. RateInv'
    BY <1>3 DEF SlotsExpire, RateInv, RateLimitKept, CountedIn, KeyIndex
  <2> QED BY <1>3, <2>1, SlotsExpireKeeps
<1>4. ASSUME NEW w \in Windows, NEW i \in Index, WindowExpires(w, i) PROVE RateInv' /\ SlotInv'
  <2>1. SlotInv'
    BY <1>4 DEF WindowExpires, SlotInv, SlotsAccounted, InProgress, Tracked
  <2> QED BY <1>4, <2>1, WindowExpiresKeeps
<1>5. CASE UNCHANGED vars
  BY <1>5 DEF vars, RateInv, SlotInv, RateLimitKept, CountedIn, KeyIndex, SlotsAccounted, InProgress, Tracked
<1> QED BY <1>1, <1>2, <1>3, <1>4, <1>5 DEF Next

\* What the keys, the calls and the history sets are worth together.
THEOREM LimitsInvariant == Spec => []IInv
<1>1. Init => IInv
  BY InitHolds, Halves
<1>2. IInv /\ [Next]_vars => IInv'
  <2>1. IInv' <=> RateInv' /\ SlotInv'
    BY DEF IInv, TypeOK, RateInv, SlotInv
  <2> QED BY <2>1, Halves, NextKeeps
<1> QED BY <1>1, <1>2, PTL DEF Spec

\* Redis and the calls are always well typed; the slot counter never passes
\* the maximum.
THEOREM LimitsTypeCorrect == Spec => []TypeOK
<1>1. IInv => TypeOK
  BY DEF IInv
<1> QED BY <1>1, LimitsInvariant, PTL

\* rate-limit.lua never admits more than a limit to a window, however late a
\* call runs the script, until the window's key expires.
THEOREM RateLimitKeptAlways == Spec => []RateLimitKept
<1>1. IInv => RateLimitKept
  BY DEF IInv
<1> QED BY <1>1, LimitsInvariant, PTL

\* Calls in progress exceed the maximum at most by the untracked ones.
THEOREM SlotBoundAlways == Spec => []SlotBound
<1>1. IInv => SlotBound
  BY SlotNumbers, Halves, LimitsAssumption DEF IInv, SlotBound
<1> QED BY <1>1, LimitsInvariant, PTL

\* No slot is counted without a call in progress or a leaked one.
THEOREM SlotsAccountedAlways == Spec => []SlotsAccounted
<1>1. IInv => SlotsAccounted
  BY DEF IInv
<1> QED BY <1>1, LimitsInvariant, PTL
-----------------------------------------------------------------------------
(***************************************************************************)
(* Usage events: the row of an owner and a day.                            *)
(*                                                                         *)
(* A job that a worker holds is active; an event is queued once; one that  *)
(* was counted has found a row under its request id; and an attempt that   *)
(* was counted and died is told from the later ones by how often the job   *)
(* has stalled.                                                            *)
(***************************************************************************)
HeldJobs == \A e \in UsageEvents : step[e] # "idle" => job[e] = "active"

QueuedOnce ==
    \A e \in UsageEvents : job[e] # "absent" =>
        emit[e[1]] \in IF e[2] = "answered" THEN {"failed", "over"} ELSE {"over"}

AttemptsLeft ==
    \A e \in UsageEvents : job[e] # "failed" => failures[e] < MaxAttempts /\ stalled[e] <= MaxStalled

RowFirst ==
    \A e \in UsageEvents :
        step[e] \in {"count", "complete"} \/ job[e] = "completed" => row[RequestId[e[1]]] # NoEvent

DeadAttempts ==
    \A p \in recounted :
        /\ job[p[1]] # "absent"
        /\ p[2] < stalled[p[1]] \/ (p[2] = stalled[p[1]] /\ step[p[1]] = "idle" /\ job[p[1]] = "active")

JobInv == UsageTypeOK /\ HeldJobs /\ QueuedOnce /\ AttemptsLeft /\ RowFirst /\ DeadAttempts

\* Every addition to a row of usage_daily, by what became of its attempt.
Additions(o, d) == Cardinality(Counted(o, d)) + Cardinality(Recounts(o, d))

RowsAdd ==
    /\ IsFiniteSet(recounted)
    /\ \A o \in Owners, d \in Days : requests[o][d] = Additions(o, d)

\* An event is a call and what it reports; its owner and request id are known.
LEMMA EventParts ==
    ASSUME NEW e \in UsageEvents
    PROVE  /\ e[1] \in Served /\ e[2] \in Outcomes /\ e = <<e[1], e[2]>>
           /\ RequestId[e[1]] \in Ids /\ Owner[e[1]] \in Owners /\ NoEvent # e
  BY UsageAssumption, NoEventAssumption DEF UsageEvents

LEMMA UsageInitHolds == UsageInit => JobInv /\ RowsAdd
<1> SUFFICES ASSUME UsageInit PROVE JobInv /\ RowsAdd
  OBVIOUS
<1>1. (CHOOSE d \in Days : TRUE) \in Days
  BY UsageAssumption
<1>2. 0 \in 0 .. MaxAttempts /\ 0 \in 0 .. MaxStalled + 1 /\ 0 < MaxAttempts /\ 0 <= MaxStalled
  BY UsageAssumption
<1>3. UsageTypeOK
  BY <1>1, <1>2, UsageAssumption DEF UsageInit, UsageTypeOK
<1>4. HeldJobs /\ QueuedOnce /\ AttemptsLeft /\ RowFirst /\ DeadAttempts
  BY <1>2 DEF UsageInit, HeldJobs, QueuedOnce, AttemptsLeft, RowFirst, DeadAttempts
<1>5. RowsAdd
  <2>1. IsFiniteSet(recounted)
    BY FS_EmptySet DEF UsageInit
  <2>2. ASSUME NEW o \in Owners, NEW d \in Days
        PROVE  requests[o][d] = Additions(o, d)
    <3>1. Counted(o, d) = {} /\ Recounts(o, d) = {} /\ requests[o][d] = 0
      BY DEF UsageInit, Counted, EventsOf, Recounts
    <3>2. Cardinality(Counted(o, d)) = 0 /\ Cardinality(Recounts(o, d)) = 0
      BY <3>1, EmptySize
    <3> QED BY <3>1, <3>2 DEF Additions
  <2> QED BY <2>1, <2>2 DEF RowsAdd
<1> QED BY <1>3, <1>4, <1>5 DEF JobInv

\* The controller's steps: one call moves on, and at most one event, which was
\* never queued before, becomes a waiting job.
LEMMA ReportEffect ==
    ASSUME JobInv, NEW c \in Served, Report(c)
    PROVE  /\ UNCHANGED workVars
           /\ emit' \in [Served -> {"forwarded", "answered", "failed", "over"}]
           /\ \/ /\ UNCHANGED <<job, day>>
                 /\ \A b \in Served :
                       /\ emit[b] = "over" => emit'[b] = "over"
                       /\ emit[b] = "failed" => emit'[b] \in {"failed", "over"}
              \/ \E e \in UsageEvents :
                    /\ job[e] = "absent" /\ job' = [job EXCEPT ![e] = "waiting"]
                    /\ \E d \in Days : day' = [day EXCEPT ![e] = d]
                    /\ emit'[e[1]] \in IF e[2] = "answered" THEN {"failed", "over"} ELSE {"over"}
                    /\ \A b \in Served :
                          /\ emit[b] = "over" => emit'[b] = "over"
                          /\ emit[b] = "failed" => emit'[b] \in {"failed", "over"}
<1>0. emit \in [Served -> {"forwarded", "answered", "failed", "over"}]
  BY DEF JobInv, UsageTypeOK
<1>1. CASE Ends(c)
  BY <1>0, <1>1 DEF Ends, Reach
<1>2. ASSUME NEW outcome \in Outcomes, emit[c] = outcome
      PROVE  <<c, outcome>> \in UsageEvents /\ job[<<c, outcome>>] = "absent"
  <2>1. <<c, outcome>> \in UsageEvents
    BY DEF UsageEvents
  <2>2. outcome = "answered" \/ outcome = "failed"
    BY DEF Outcomes
  <2> QED BY <1>2, <2>1, <2>2 DEF JobInv, QueuedOnce
<1>3. CASE EmitRequestCompleted(c)
  <2>1. PICK outcome \in Outcomes : Reach(c, outcome, "over") /\ Queue(<<c, outcome>>)
    BY <1>3 DEF EmitRequestCompleted
  <2>2. emit' = [emit EXCEPT ![c] = "over"] /\ emit[c] = outcome
    BY <2>1 DEF Reach
  <2> QED BY <1>0, <1>2, <2>1, <2>2 DEF Queue
<1>4. CASE EmitThrows(c)
  <2>1. PICK outcome \in Outcomes :
           /\ Reach(c, outcome, IF outcome = "answered" THEN "failed" ELSE "over")
           /\ Queue(<<c, outcome>>) \/ UNCHANGED <<job, day, workVars>>
    BY <1>4 DEF EmitThrows
  <2>2. emit' = [emit EXCEPT ![c] = IF outcome = "answered" THEN "failed" ELSE "over"] /\ emit[c] = outcome
    BY <2>1 DEF Reach
  <2>3. outcome = "answered" \/ outcome = "failed"
    BY DEF Outcomes
  <2>4. \A b \in Served : /\ emit[b] = "over" => emit'[b] = "over"
                          /\ emit[b] = "failed" => emit'[b] \in {"failed", "over"}
    BY <1>0, <2>2, <2>3
  <2>5. CASE Queue(<<c, outcome>>)
    BY <1>0, <1>2, <2>2, <2>3, <2>4, <2>5 DEF Queue
  <2>6. CASE UNCHANGED <<job, day, workVars>>
    BY <1>0, <2>2, <2>3, <2>4, <2>6
  <2> QED BY <2>1, <2>5, <2>6
<1> QED BY <1>1, <1>3, <1>4 DEF Report

\* A history pair is an event and a number.
LEMMA PairParts ==
    ASSUME JobInv, NEW p \in recounted
    PROVE  p[1] \in UsageEvents /\ p[2] \in Int /\ p = <<p[1], p[2]>> /\ stalled[p[1]] \in Int
  BY UsageAssumption DEF JobInv, UsageTypeOK

LEMMA ReportKeeps ==
    ASSUME JobInv, RowsAdd, NEW c \in Served, Report(c)
    PROVE  JobInv' /\ RowsAdd'
<1> USE DEF workVars
<1>0. /\ UNCHANGED workVars
      /\ emit' \in [Served -> {"forwarded", "answered", "failed", "over"}]
  BY ReportEffect
<1>1. CASE /\ UNCHANGED <<job, day>>
           /\ \A b \in Served : /\ emit[b] = "over" => emit'[b] = "over"
                                /\ emit[b] = "failed" => emit'[b] \in {"failed", "over"}
  <2>1. UsageTypeOK'
    BY <1>0, <1>1 DEF JobInv, UsageTypeOK
  <2>2. QueuedOnce'
    BY <1>0, <1>1, EventParts DEF JobInv, QueuedOnce
  <2>3. HeldJobs' /\ AttemptsLeft' /\ RowFirst' /\ DeadAttempts'
    BY <1>0, <1>1 DEF JobInv, HeldJobs, AttemptsLeft, RowFirst, DeadAttempts
  <2>4. RowsAdd'
    BY <1>0, <1>1 DEF RowsAdd, Additions, Counted, Recounts, EventsOf
  <2> QED BY <2>1, <2>2, <2>3, <2>4 DEF JobInv
<1>2. ASSUME NEW e \in UsageEvents, job[e] = "absent", job' = [job EXCEPT ![e] = "waiting"],
             \E d \in Days : day' = [day EXCEPT ![e] = d],
             emit'[e[1]] \in IF e[2] = "answered" THEN {"failed", "over"} ELSE {"over"},
             \A b \in Served : /\ emit[b] = "over" => emit'[b] = "over"
                               /\ emit[b] = "failed" => emit'[b] \in {"failed", "over"}
      PROVE  JobInv' /\ RowsAdd'
  <2>0. /\ \A f \in UsageEvents : job'[f] = (IF f = e THEN "waiting" ELSE job[f])
        /\ \A f \in UsageEvents : f # e => day'[f] = day[f]
        /\ step[e] = "idle"
    BY <1>2 DEF JobInv, UsageTypeOK, HeldJobs
  <2>1. UsageTypeOK'
    BY <1>0, <1>2 DEF JobInv, UsageTypeOK
  <2>2. QueuedOnce'
    BY <1>0, <1>2, <2>0, EventParts DEF JobInv, QueuedOnce
  <2>3. HeldJobs' /\ AttemptsLeft' /\ RowFirst'
    BY <1>0, <1>2, <2>0 DEF JobInv, HeldJobs, AttemptsLeft, RowFirst
  <2>4. \A p \in recounted : p[1] \in UsageEvents /\ p[1] # e
    BY <1>2, PairParts DEF JobInv, DeadAttempts
  <2>5. DeadAttempts'
    BY <1>0, <2>0, <2>4 DEF JobInv, DeadAttempts
  <2>6. RowsAdd'
    <3>1. ASSUME NEW o \in Owners, NEW d \in Days
          PROVE  Counted(o, d)' = Counted(o, d) /\ Recounts(o, d)' = Recounts(o, d)
      <4>1. \A f \in UsageEvents : f \in Counted(o, d)' <=> f \in Counted(o, d)
        BY <1>0, <1>2, <2>0 DEF Counted, EventsOf
      <4>2. \A p \in recounted : p[1] \in EventsOf(o, d)' <=> p[1] \in EventsOf(o, d)
        BY <2>0, <2>4 DEF EventsOf
      <4> QED BY <1>0, <4>1, <4>2 DEF Counted, EventsOf, Recounts
    <3> QED BY <1>0, <3>1 DEF RowsAdd, Additions
  <2> QED BY <2>1, <2>2, <2>3, <2>5, <2>6 DEF JobInv
<1> QED BY <1>1, <1>2, ReportEffect

-----------------------------------------------------------------------------
(***************************************************************************)
(* A step of a worker, or of its queue, on one job.                        *)
(***************************************************************************)
JobStep(e) == Work(e) \/ WorkerDies(e) \/ JobStalled(e)

LEMMA JobStepType ==
    ASSUME JobInv, NEW e \in UsageEvents, JobStep(e)
    PROVE  UsageTypeOK'
<1> USE UsageAssumption, EventParts DEF JobInv, UsageTypeOK, At
<1>1. CASE TakeJob(e) \/ WriteFails(e) \/ CompleteJob(e)
  BY <1>1 DEF TakeJob, WriteFails, CompleteJob
<1>2. CASE InsertRequestEvents(e)
  BY <1>2 DEF InsertRequestEvents
<1>3. CASE UpdateDailyAggregates(e)
  <2>1. requests' = [requests EXCEPT ![Owner[e[1]]][day[e]] = @ + 1]
        /\ Owner[e[1]] \in Owners /\ day[e] \in Days
    BY <1>3 DEF UpdateDailyAggregates
  <2>2. requests' \in [Owners -> [Days -> Nat]]
    BY <2>1
  <2> QED BY <1>3, <2>2 DEF UpdateDailyAggregates
<1>4. CASE ThrowAgain(e)
  <2>1. failures[e] < MaxAttempts /\ failures' = [failures EXCEPT ![e] = @ + 1]
    BY <1>4 DEF ThrowAgain, HeldJobs, AttemptsLeft
  <2>2. failures' \in [UsageEvents -> 0 .. MaxAttempts]
    BY <2>1
  <2> QED BY <1>4, <2>2 DEF ThrowAgain
<1>5. CASE WorkerDies(e)
  <2>1. stalled[e] \in 0 .. MaxStalled
    BY <1>5 DEF WorkerDies, HeldJobs, AttemptsLeft
  <2>2. recounted' \subseteq UsageEvents \X (0 .. MaxStalled)
    BY <1>5, <2>1 DEF WorkerDies
  <2> QED BY <1>5, <2>2 DEF WorkerDies
<1>6. CASE JobStalled(e)
  <2>1. stalled[e] <= MaxStalled /\ stalled' = [stalled EXCEPT ![e] = @ + 1]
    BY <1>6 DEF JobStalled, AttemptsLeft
  <2>2. stalled' \in [UsageEvents -> 0 .. MaxStalled + 1]
    BY <2>1
  <2> QED BY <1>6, <2>2 DEF JobStalled
<1> QED BY <1>1, <1>2, <1>3, <1>4, <1>5, <1>6 DEF JobStep, Work

\* A step touches no other job, takes away no row, and forgets no attempt.
LEMMA JobStepLeaves ==
    ASSUME JobInv, NEW e \in UsageEvents, JobStep(e)
    PROVE  /\ UNCHANGED <<emit, day>>
           /\ \A f \in UsageEvents : f # e =>
                 /\ job'[f] = job[f] /\ step'[f] = step[f]
                 /\ failures'[f] = failures[f] /\ stalled'[f] = stalled[f]
           /\ job[e] # "absent" /\ job'[e] # "absent"
           /\ \A i \in Ids : row[i] # NoEvent => row'[i] = row[i]
           /\ recounted' \in {recounted, recounted \cup {<<e, stalled[e]>>}}
<1> USE DEF JobInv, UsageTypeOK, HeldJobs, At
<1>1. CASE TakeJob(e) \/ WriteFails(e) \/ CompleteJob(e)
  BY <1>1 DEF TakeJob, WriteFails, CompleteJob
<1>2. CASE InsertRequestEvents(e)
  BY <1>2 DEF InsertRequestEvents
<1>3. CASE UpdateDailyAggregates(e)
  BY <1>3 DEF UpdateDailyAggregates
<1>4. CASE ThrowAgain(e)
  BY <1>4 DEF ThrowAgain
<1>5. CASE WorkerDies(e)
  BY <1>5 DEF WorkerDies
<1>6. CASE JobStalled(e)
  BY <1>6 DEF JobStalled
<1> QED BY <1>1, <1>2, <1>3, <1>4, <1>5, <1>6 DEF JobStep, Work

LEMMA JobStepKeeps ==
    ASSUME JobInv, NEW e \in UsageEvents, JobStep(e)
    PROVE  JobInv'
<1> DEFINE Id == RequestId[e[1]]
<1>0. /\ step \in [UsageEvents -> {"idle", "insert", "count", "complete", "catch"}]
      /\ job \in [UsageEvents -> {"absent", "waiting", "active", "completed", "failed"}]
      /\ failures[e] \in 0 .. MaxAttempts /\ stalled[e] \in 0 .. MaxStalled + 1
      /\ failures \in [UsageEvents -> 0 .. MaxAttempts] /\ stalled \in [UsageEvents -> 0 .. MaxStalled + 1]
      /\ row \in [Ids -> UsageEvents \cup {NoEvent}] /\ Id \in Ids /\ NoEvent # e
  BY EventParts DEF JobInv, UsageTypeOK
<1>1. /\ step[e] # "idle" => job[e] = "active"
      /\ job[e] # "failed" => failures[e] < MaxAttempts /\ stalled[e] <= MaxStalled
      /\ step[e] \in {"count", "complete"} \/ job[e] = "completed" => row[Id] # NoEvent
  BY DEF JobInv, HeldJobs, AttemptsLeft, RowFirst
<1>2. /\ step'[e] # "idle" => job'[e] = "active"
      /\ job'[e] # "failed" => failures'[e] < MaxAttempts /\ stalled'[e] <= MaxStalled
      /\ step'[e] \in {"count", "complete"} \/ job'[e] = "completed" => row'[Id] # NoEvent
  <2> USE <1>0, <1>1 DEF At
  <2>1. CASE TakeJob(e)
    BY <2>1 DEF TakeJob
  <2>2. CASE WriteFails(e)
    BY <2>2 DEF WriteFails
  <2>3. CASE CompleteJob(e)
    BY <2>3 DEF CompleteJob
  <2>4. CASE InsertRequestEvents(e)
    BY <2>4 DEF InsertRequestEvents
  <2>5. CASE UpdateDailyAggregates(e)
    BY <2>5 DEF UpdateDailyAggregates
  <2>6. CASE ThrowAgain(e)
    BY <2>6, UsageAssumption DEF ThrowAgain
  <2>7. CASE WorkerDies(e)
    BY <2>7 DEF WorkerDies
  <2>8. CASE JobStalled(e)
    BY <2>8, UsageAssumption DEF JobStalled
  <2> QED BY <2>1, <2>2, <2>3, <2>4, <2>5, <2>6, <2>7, <2>8 DEF JobStep, Work
<1>3. HeldJobs' /\ AttemptsLeft' /\ QueuedOnce'
  BY <1>2, JobStepLeaves DEF JobInv, HeldJobs, AttemptsLeft, QueuedOnce
<1>4. RowFirst'
  <2> SUFFICES ASSUME NEW f \in UsageEvents, step'[f] \in {"count", "complete"} \/ job'[f] = "completed"
               PROVE  row'[RequestId[f[1]]] # NoEvent
    BY DEF RowFirst
  <2>1. CASE f = e
    BY <1>2, <2>1
  <2>2. CASE f # e
    BY <2>2, JobStepLeaves, EventParts DEF JobInv, RowFirst
  <2> QED BY <2>1, <2>2
<1>5. DeadAttempts'
  <2> SUFFICES ASSUME NEW p \in recounted'
               PROVE  /\ job'[p[1]] # "absent"
                      /\ p[2] < stalled'[p[1]]
                         \/ (p[2] = stalled'[p[1]] /\ step'[p[1]] = "idle" /\ job'[p[1]] = "active")
    BY DEF DeadAttempts
  <2>1. CASE p \in recounted /\ p[1] # e
    <3>1. p[1] \in UsageEvents
      BY <2>1, PairParts
    <3> QED BY <2>1, <3>1, JobStepLeaves DEF JobInv, DeadAttempts
  <2>2. CASE p \in recounted /\ p[1] = e
    <3>0. /\ p[2] < stalled[e] \/ (p[2] = stalled[e] /\ step[e] = "idle" /\ job[e] = "active")
          /\ p[2] \in Int /\ stalled[e] \in Int
      BY <2>2, PairParts DEF JobInv, DeadAttempts
    <3>1. CASE JobStalled(e)
      <4>1. stalled'[e] = stalled[e] + 1
        BY <1>0, <3>1 DEF JobStalled
      <4> QED BY <2>2, <3>0, <4>1, JobStepLeaves
    <3>2. CASE ~ JobStalled(e)
      <4>1. stalled'[e] = stalled[e]
        BY <3>2 DEF JobStep, Work, TakeJob, InsertRequestEvents, UpdateDailyAggregates, WriteFails,
                    ThrowAgain, CompleteJob, WorkerDies
      <4>2. ~ (step[e] = "idle" /\ job[e] = "active")
        BY <3>2 DEF JobStep, Work, At, TakeJob, InsertRequestEvents, UpdateDailyAggregates, WriteFails,
                    ThrowAgain, CompleteJob, WorkerDies
      <4> QED BY <2>2, <3>0, <4>1, <4>2, JobStepLeaves
    <3> QED BY <3>1, <3>2
  <2>3. CASE p \notin recounted
    <3>1. p = <<e, stalled[e]>> /\ WorkerDies(e)
      BY <2>3, JobStepLeaves
      DEF JobStep, Work, TakeJob, InsertRequestEvents, UpdateDailyAggregates, WriteFails,
          ThrowAgain, CompleteJob, JobStalled
    <3>2. step'[e] = "idle" /\ job'[e] = "active" /\ stalled'[e] = stalled[e]
      BY <1>0, <1>1, <3>1 DEF WorkerDies
    <3> QED BY <3>1, <3>2
  <2> QED BY <2>1, <2>2, <2>3
<1> QED BY <1>3, <1>4, <1>5, JobStepType DEF JobInv

\* The events of a row are finitely many.
LEMMA EventsFinite ==
    /\ IsFiniteSet(UsageEvents)
    /\ \A o \in Owners, d \in Days : IsFiniteSet(Counted(o, d)) /\ Cardinality(Counted(o, d)) \in Nat
<1>1. IsFiniteSet(Outcomes)
  <2>1. Outcomes = {} \cup {"answered"} \cup {"failed"}
    BY DEF Outcomes
  <2> QED BY <2>1, FS_EmptySet, FS_AddElement
<1>2. IsFiniteSet(UsageEvents)
  BY <1>1, UsageAssumption, FS_Product DEF UsageEvents
<1>3. ASSUME NEW o \in Owners, NEW d \in Days
      PROVE  IsFiniteSet(Counted(o, d)) /\ Cardinality(Counted(o, d)) \in Nat
  <2>1. Counted(o, d) \subseteq UsageEvents
    BY DEF Counted, EventsOf
  <2> QED BY <1>2, <2>1, FS_Subset, FS_CardinalityType
<1> QED BY <1>2, <1>3

\* What a step may add to a row or take from the events it counts.
LEMMA JobStepAdds ==
    ASSUME JobInv, RowsAdd, NEW e \in UsageEvents, JobStep(e)
    PROVE  RowsAdd'
<1> DEFINE Done(f) == step[f] = "complete" \/ job[f] = "completed"
           Mine(o, d) == Owner[e[1]] = o /\ day[e] = d
<1>0. IsFiniteSet(recounted) /\ IsFiniteSet(recounted')
  <2>1. CASE recounted' = recounted
    BY <2>1 DEF RowsAdd
  <2>2. CASE recounted' = recounted \cup {<<e, stalled[e]>>}
    BY <2>2, FS_AddElement DEF RowsAdd
  <2> QED BY <2>1, <2>2, JobStepLeaves
<1>1. \A o \in Owners, d \in Days :
         /\ IsFiniteSet(Recounts(o, d)) /\ Cardinality(Recounts(o, d)) \in Nat
         /\ IsFiniteSet(Counted(o, d)) /\ Cardinality(Counted(o, d)) \in Nat
  <2> SUFFICES ASSUME NEW o \in Owners, NEW d \in Days
               PROVE  IsFiniteSet(Recounts(o, d)) /\ Cardinality(Recounts(o, d)) \in Nat
    BY EventsFinite
  <2>1. Recounts(o, d) \subseteq recounted
    BY DEF Recounts
  <2> QED BY <1>0, <2>1, FS_Subset, FS_CardinalityType
<1>2. ASSUME NEW o \in Owners, NEW d \in Days
      PROVE  /\ EventsOf(o, d)' = EventsOf(o, d)
             /\ e \in EventsOf(o, d) <=> Mine(o, d)
             /\ \A f \in UsageEvents : f # e => (f \in Counted(o, d)' <=> f \in Counted(o, d))
             /\ e \in Counted(o, d) <=> Mine(o, d) /\ Done(e)
             /\ e \in Counted(o, d)' <=> Mine(o, d) /\ (step'[e] = "complete" \/ job'[e] = "completed")
             /\ Counted(o, d) \subseteq UsageEvents /\ Counted(o, d)' \subseteq UsageEvents
             /\ (e \in Counted(o, d)' <=> e \in Counted(o, d)) => Counted(o, d)' = Counted(o, d)
  <2>1. EventsOf(o, d)' = EventsOf(o, d)
    BY JobStepLeaves DEF EventsOf
  <2>2. e \in EventsOf(o, d) <=> Mine(o, d)
    BY JobStepLeaves DEF EventsOf
  <2>3. EventsOf(o, d) \subseteq UsageEvents
    BY DEF EventsOf
  <2>4. \A f \in UsageEvents : f # e => (f \in Counted(o, d)' <=> f \in Counted(o, d))
    BY <2>1, JobStepLeaves DEF Counted
  <2>5. Counted(o, d) \subseteq UsageEvents /\ Counted(o, d)' \subseteq UsageEvents
    BY <2>1, <2>3 DEF Counted
  <2>6. (e \in Counted(o, d)' <=> e \in Counted(o, d)) => Counted(o, d)' = Counted(o, d)
    <3> SUFFICES ASSUME e \in Counted(o, d)' <=> e \in Counted(o, d)
                 PROVE  \A f : f \in Counted(o, d)' <=> f \in Counted(o, d)
      OBVIOUS
    <3> TAKE f
    <3>1. CASE f = e
      BY <3>1
    <3>2. CASE f # e
      BY <2>4, <2>5, <3>2
    <3> QED BY <3>1, <3>2
  <2>7. /\ e \in Counted(o, d) <=> Mine(o, d) /\ Done(e)
        /\ e \in Counted(o, d)' <=> Mine(o, d) /\ (step'[e] = "complete" \/ job'[e] = "completed")
    BY <2>1, <2>2 DEF Counted
  <2> QED BY <2>1, <2>2, <2>4, <2>5, <2>6, <2>7
<1>3. CASE UpdateDailyAggregates(e)
  <2>1. /\ step[e] = "count" /\ step'[e] = "complete" /\ job[e] = "active" /\ recounted' = recounted
        /\ requests' = [requests EXCEPT ![Owner[e[1]]][day[e]] = @ + 1]
    BY <1>3 DEF UpdateDailyAggregates, At, JobInv, UsageTypeOK, HeldJobs
  <2> SUFFICES ASSUME NEW o \in Owners, NEW d \in Days
               PROVE  requests'[o][d] = Additions(o, d)'
    BY <1>0 DEF RowsAdd
  <2>2. Recounts(o, d)' = Recounts(o, d) /\ requests[o][d] = Additions(o, d)
    BY <1>2, <2>1 DEF Recounts, RowsAdd
  <2>3. CASE Mine(o, d)
    <3>1. Counted(o, d)' = Counted(o, d) \cup {e} /\ e \notin Counted(o, d)
      BY <1>2, <2>1, <2>3
    <3>2. Cardinality(Counted(o, d)') = Cardinality(Counted(o, d)) + 1
      BY <1>1, <3>1, FS_AddElement
    <3>3. requests'[o][d] = requests[o][d] + 1
      BY <2>1, <2>3 DEF JobInv, UsageTypeOK
    <3> QED BY <1>1, <2>2, <3>2, <3>3 DEF Additions
  <2>4. CASE ~ Mine(o, d)
    <3>1. Counted(o, d)' = Counted(o, d)
      BY <1>2, <2>4
    <3>2. requests'[o][d] = requests[o][d]
      BY <2>1, <2>4 DEF JobInv, UsageTypeOK
    <3> QED BY <2>2, <3>1, <3>2 DEF Additions
  <2> QED BY <2>3, <2>4
<1>4. CASE WorkerDies(e) /\ step[e] = "complete"
  <2>1. /\ step'[e] = "idle" /\ job'[e] = "active" /\ requests' = requests
        /\ recounted' = recounted \cup {<<e, stalled[e]>>}
    BY <1>4 DEF WorkerDies, JobInv, UsageTypeOK, HeldJobs
  <2>2. <<e, stalled[e]>> \notin recounted
    <3> SUFFICES ASSUME <<e, stalled[e]>> \in recounted PROVE FALSE
      OBVIOUS
    <3>1. stalled[e] \in Int
      BY UsageAssumption DEF JobInv, UsageTypeOK
    <3>2. stalled[e] < stalled[e] \/ step[e] = "idle"
      BY DEF JobInv, DeadAttempts
    <3> QED BY <1>4, <3>1, <3>2
  <2> SUFFICES ASSUME NEW o \in Owners, NEW d \in Days
               PROVE  requests'[o][d] = Additions(o, d)'
    BY <1>0 DEF RowsAdd
  <2>3. requests[o][d] = Additions(o, d)
    BY DEF RowsAdd
  <2>4. CASE Mine(o, d)
    <3>1. Counted(o, d)' = Counted(o, d) \ {e} /\ e \in Counted(o, d)
      BY <1>2, <1>4, <2>1, <2>4
    <3>2. Recounts(o, d)' = Recounts(o, d) \cup {<<e, stalled[e]>>} /\ <<e, stalled[e]>> \notin Recounts(o, d)
      BY <1>2, <2>1, <2>2, <2>4 DEF Recounts
    <3>3. Cardinality(Counted(o, d)') = Cardinality(Counted(o, d)) - 1
      BY <1>1, <3>1, FS_RemoveElement
    <3>4. Cardinality(Recounts(o, d)') = Cardinality(Recounts(o, d)) + 1
      BY <1>1, <3>2, FS_AddElement
    <3>5. \A m, n \in Int : (m - 1) + (n + 1) = m + n
      OBVIOUS
    <3>6. Cardinality(Counted(o, d)') + Cardinality(Recounts(o, d)') = Additions(o, d)
      BY <1>1, <3>3, <3>4, <3>5 DEF Additions
    <3> QED BY <2>1, <2>3, <3>6 DEF Additions
  <2>5. CASE ~ Mine(o, d)
    <3>1. Counted(o, d)' = Counted(o, d)
      BY <1>2, <2>5
    <3>2. \A p \in recounted' : p[1] \in EventsOf(o, d) => p \in recounted
      BY <1>2, <2>1, <2>5
    <3>3. Recounts(o, d)' = Recounts(o, d)
      BY <1>2, <2>1, <3>2 DEF Recounts
    <3> QED BY <2>1, <2>3, <3>1, <3>3 DEF Additions
  <2> QED BY <2>4, <2>5
<1>5. CASE ~ UpdateDailyAggregates(e) /\ ~ (WorkerDies(e) /\ step[e] = "complete")
  <2>1. UNCHANGED <<requests, recounted>>
    BY <1>5 DEF JobStep, Work, TakeJob, InsertRequestEvents, WriteFails, ThrowAgain, CompleteJob,
                WorkerDies, JobStalled
  <2>2. (step'[e] = "complete" \/ job'[e] = "completed") <=> Done(e)
    BY <1>5 DEF JobStep, Work, At, TakeJob, InsertRequestEvents, WriteFails, ThrowAgain, CompleteJob,
                WorkerDies, JobStalled, JobInv, UsageTypeOK, HeldJobs
  <2>3. ASSUME NEW o \in Owners, NEW d \in Days
        PROVE  Counted(o, d)' = Counted(o, d) /\ Recounts(o, d)' = Recounts(o, d)
    <3>1. Recounts(o, d)' = Recounts(o, d)
      BY <1>2, <2>1 DEF Recounts
    <3>2. e \in Counted(o, d)' <=> e \in Counted(o, d)
      BY <1>2, <2>2
    <3> QED BY <1>2, <3>1, <3>2
  <2> QED BY <1>0, <2>1, <2>3 DEF RowsAdd, Additions
<1> QED BY <1>3, <1>4, <1>5

LEMMA UsageNextKeeps == JobInv /\ RowsAdd /\ [UsageNext]_usageVars => (JobInv /\ RowsAdd)'
<1> SUFFICES ASSUME JobInv, RowsAdd, [UsageNext]_usageVars PROVE JobInv' /\ RowsAdd'
  OBVIOUS
<1>1. ASSUME NEW e \in UsageEvents, Work(e) \/ WorkerDies(e) \/ JobStalled(e)
      PROVE  JobInv' /\ RowsAdd'
  BY <1>1, JobStepKeeps, JobStepAdds DEF JobStep
<1>2. CASE UNCHANGED usageVars
  BY <1>2 DEF usageVars, JobInv, UsageTypeOK, HeldJobs, QueuedOnce, AttemptsLeft, RowFirst,
              DeadAttempts, RowsAdd, Additions, Counted, Recounts, EventsOf
<1> QED BY <1>1, <1>2, ReportKeeps DEF UsageNext

\* The inductive invariant of a call's event on its way to the usage tables.
LEMMA UsageInvariant == UsageSpec => [](JobInv /\ RowsAdd)
  BY UsageInitHolds, UsageNextKeeps, PTL DEF UsageSpec

\* The queue, the workers and both tables hold what they may; no job fails, or
\* stalls, more often than BullMQ allows it to.
THEOREM UsageTypeCorrect == UsageSpec => []UsageTypeOK
<1>1. JobInv => UsageTypeOK
  BY DEF JobInv
<1> QED BY <1>1, UsageInvariant, PTL

\* A day of an owner counts the events that are stored or skipped, and once
\* more each attempt that died between counting and completing; no other
\* failure or repetition adds to it.
THEOREM CountsExplainedAlways == UsageSpec => []CountsExplained
<1>1. JobInv /\ RowsAdd => CountsExplained
  <2> SUFFICES ASSUME JobInv, RowsAdd, NEW o \in Owners, NEW d \in Days
               PROVE  requests[o][d] = Cardinality(Stored(o, d)) + Cardinality(Skipped(o, d))
                                       + Cardinality(Recounts(o, d))
    BY DEF CountsExplained
  <2>1. \A e \in Counted(o, d) : e \in UsageEvents /\ row[RequestId[e[1]]] \in UsageEvents
    BY EventParts DEF Counted, EventsOf, JobInv, UsageTypeOK, RowFirst
  <2>2. Stored(o, d) \cup Skipped(o, d) = Counted(o, d) /\ Stored(o, d) \cap Skipped(o, d) = {}
    BY <2>1 DEF Stored, Skipped
  <2>3. IsFiniteSet(Stored(o, d)) /\ IsFiniteSet(Skipped(o, d))
    BY <2>2, EventsFinite, FS_Subset
  <2>4. Cardinality(Counted(o, d)) = Cardinality(Stored(o, d)) + Cardinality(Skipped(o, d))
    <3>1. Cardinality(Stored(o, d) \cup Skipped(o, d))
             = Cardinality(Stored(o, d)) + Cardinality(Skipped(o, d))
                 - Cardinality(Stored(o, d) \cap Skipped(o, d))
      BY <2>3, FS_Union
    <3>2. Cardinality(Stored(o, d)) \in Nat /\ Cardinality(Skipped(o, d)) \in Nat
      BY <2>3, FS_CardinalityType
    <3>3. \A m, n \in Int : m + n - 0 = m + n
      OBVIOUS
    <3>4. Cardinality(Stored(o, d) \cap Skipped(o, d)) = 0
      BY <2>2, EmptySize
    <3>5. Cardinality(Stored(o, d)) + Cardinality(Skipped(o, d)) - 0
             = Cardinality(Stored(o, d)) + Cardinality(Skipped(o, d))
      BY <3>2, <3>3
    <3> QED BY <2>2, <3>1, <3>4, <3>5
  <2> QED BY <2>4 DEF RowsAdd, Additions
<1> QED BY <1>1, UsageInvariant, PTL

=============================================================================
