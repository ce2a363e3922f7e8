-------------------------- MODULE WalletCacheProofs --------------------------
(***************************************************************************)
(* Proofs about WalletCache, for every set of calls, top-ups, disputes and *)
(* adjustments, every price, credit and amount, any number of workers and  *)
(* any number of losses.                                                   *)
(*                                                                         *)
(* The balances are accounted for in two ways.  As long as nothing is lost *)
(* (Ready), the balance in Redis lies between two bounds that differ by    *)
(* what crossed a fill (CacheInv).  When the keys are lost as well, what   *)
(* can be spent is bounded by the row and what crossed (SpendInv).  Fills  *)
(* are the hard steps of both: the row is read before, and written to      *)
(* Redis after, steps of calls and of other top-ups.  Each invariant       *)
(* therefore says of the reading of a fill under way what it says of the   *)
(* key that the fill will write.                                           *)
(***************************************************************************)
EXTENDS WalletCache, FiniteSetTheorems, TLAPS

-----------------------------------------------------------------------------
(***************************************************************************)
(* The invariants.                                                         *)
(***************************************************************************)
\* A lost reply is followed by the states it leads to.
LostInv ==
    /\ \A c \in unheard : cpc[c] \in {"unwinding", "undone", "leaked"}
    /\ \A c \in repeated \cap Calls : cpc[c] = "undone"
    /\ \A t \in repeated \cap Topups : tpc[t] = "done"

\* Only the write of an adjustment to Redis puts a TTL on the balance.
ExpiryInv == expiring => Adjusted

\* No more jobs are under way than there are workers.
BusyInv == Cardinality(Busy) <= Workers

\* What crossed a fill has been charged or credited; and while a fill is under
\* way, all that is uneven crosses it.
CrossInv ==
    /\ \A c \in crossed \cap Calls : cpc[c] \notin {"arrived", "rejected"}
    /\ \A t \in crossed \cap Topups : tpc[t] \in {"crediting", "done"}
    /\ Filling # {} => Uneven \subseteq crossed

\* A fresh job is about to write the flag the row has; a lock in Redis stays
\* until the first unlock, unless a job that is not fresh writes the flag.
LockInv ==
    /\ \A t \in Topups \cap fresh :
          tpc[t] \in {"filling", "flagging"} => seen[t].locked = dbLocked
    /\ \A d \in Disputes \cap fresh : dpc[d] = "locking" => dbLocked
    /\ \A d \in Disputes \cap fresh : dpc[d] = "unlocking" => ~dbLocked
    /\ LockAgrees
    /\ ~Unlocked /\ (\E d \in Disputes : dpc[d] \in {"locking", "locked"}) => dbLocked
    /\ flushes = 0 /\ ~Unlocked /\ (\E d \in Disputes : dpc[d] = "locked")
          => lockFlag \/ overtaken

\* Nothing was lost and nothing adjusted.
Ready == ~redisFailed /\ flushes = 0 /\ ~Adjusted

InFlightSum  == PriceOf(InFlight)
OwedSum      == CreditOf(Owed)
Taken        == {c \in Calls : cpc[c] \in {"recording", "unwinding", "undone"}}
TakenSum     == PriceOf(Taken)
CrossedPrice == PriceOf(crossed)
CrossedTopup == CreditOf(crossed)
Left         == Surplus({})
LeftEven     == Surplus(crossed)

\* The bounds of CacheAgrees.
Highest == db - InFlightSum - OwedSum + Left + CrossedPrice + CrossedTopup
Lowest  == db - InFlightSum - OwedSum + LeftEven - CrossedTopup

\* While nothing is lost, an absent key has never been there, so that nothing
\* was charged yet; the key, and what a fill is about to write, are between the
\* bounds.
CacheInv ==
    Ready =>
        /\ key = Absent =>
              /\ unheard = {} /\ repeated = {}
              /\ \A c \in Calls : cpc[c] \in {"arrived", "rejected"}
              /\ \A t \in Topups : tpc[t] \in {"queued", "loading", "filling"}
        /\ key # Absent => key <= Highest /\ Lowest <= key
        /\ \A t \in Topups :
              tpc[t] = "filling" =>
                  seen[t].cents <= Highest /\ db - CrossedTopup <= seen[t].cents

\* Top-ups that passed the check of the maximum, or will, and have not credited.
Pot ==
    {t \in Topups : \/ tpc[t] = "checked"
                    \/ /\ tpc[t] \in {"filling", "flagging"}
                       /\ seen[t].cents + Credit <= MaxBalance}
PotSum == CreditOf(Pot)

\* The bound on the row has room for their credits, too.
LimitInv ==
    Ready =>
        /\ \A t \in Topups : tpc[t] # "fallback"
        /\ db + PotSum <= MaxBalance + Credit * (Workers - 1) + CrossedTopup + TakenSum

Positive(n) == IF n > 0 THEN n ELSE 0

\* An amount, charges in flight and credits owed are in the row, or crossed a
\* fill, or were left by a lost reply.
Covered(n) == n + InFlightSum + OwedSum <= db + CrossedPrice + CrossedTopup + Left

\* What can be spent is covered; and so it will be after a fill.
SpendInv ==
    ~Adjusted =>
        /\ Covered(Positive(Balance))
        /\ \A t \in Topups : tpc[t] = "filling" => Covered(Positive(seen[t].cents))

\* What an adjustment has missed was recorded.
MissedInv ==
    /\ \A c \in missed \cap Calls : cpc[c] = "charged" \/ c \in unheard
    /\ \A t \in missed \cap Topups : tpc[t] \in {"crediting", "done"}

\* Since a single adjustment has read the row, it changed by what was missed.
EraseInv ==
    /\ ~Adjusted => Opening + ledger = db
    /\ Cardinality(Adjustments) = 1 =>
          /\ \A a \in Adjustments : apc[a] = "asked" => missed = {}
          /\ \A a \in Adjustments :
                apc[a] = "read" => db - seen[a].cents = CreditOf(missed) - PriceOf(missed)
    /\ AdjustmentErases

-----------------------------------------------------------------------------
(***************************************************************************)
(* Sizes and sums.                                                         *)
(***************************************************************************)
\* Sizes of the subsets of a finite set, and what adding or removing a member
\* does.
LEMMA Sizes ==
    ASSUME NEW U, IsFiniteSet(U)
    PROVE  /\ \A S \in SUBSET U : IsFiniteSet(S) /\ Cardinality(S) \in 0 .. Cardinality(U)
           /\ \A S \in SUBSET U, x \in U :
                 Cardinality(S \cup {x}) = IF x \in S THEN Cardinality(S) ELSE Cardinality(S) + 1
           /\ \A S \in SUBSET U, x \in U :
                 Cardinality(S \ {x}) = IF x \in S THEN Cardinality(S) - 1 ELSE Cardinality(S)
           /\ \A S, T \in SUBSET U : S \subseteq T => Cardinality(S) <= Cardinality(T)
<1>1. \A S \in SUBSET U : IsFiniteSet(S) /\ Cardinality(S) <= Cardinality(U)
  BY FS_Subset
<1>2. Cardinality(U) \in Nat /\ \A S \in SUBSET U : Cardinality(S) \in Nat
  BY <1>1, FS_CardinalityType
<1>3. \A S \in SUBSET U, x \in U :
         Cardinality(S \cup {x}) = IF x \in S THEN Cardinality(S) ELSE Cardinality(S) + 1
  BY <1>1, FS_AddElement
<1>4. \A S \in SUBSET U, x \in U :
         Cardinality(S \ {x}) = IF x \in S THEN Cardinality(S) - 1 ELSE Cardinality(S)
  BY <1>1, FS_RemoveElement
<1>5. \A S, T \in SUBSET U : S \subseteq T => Cardinality(S) <= Cardinality(T)
  BY <1>1, FS_Subset
<1> QED BY <1>1, <1>2, <1>3, <1>4, <1>5

\* Multiples of a price or a credit.
LEMMA Multiples ==
    ASSUME NEW p \in Nat, NEW m \in Nat, NEW n \in Nat
    PROVE  /\ p * n \in Nat /\ p * 0 = 0
           /\ p * (n + 1) = p * n + p /\ p * (m + n) = p * m + p * n
           /\ m <= n => p * m <= p * n
<1>1. m <= n => p * m <= p * n
  <2> SUFFICES ASSUME m <= n PROVE p * m <= p * n
    OBVIOUS
  <2>1. n - m \in Nat /\ p * (n - m) \in Nat /\ p * n = p * m + p * (n - m)
    OBVIOUS
  <2> QED BY <2>1
<1> QED BY <1>1

Named == Calls \cup Topups

\* What a set of calls and top-ups amounts to, and what a member that joins or
\* leaves it does to that.
LEMMA Sums ==
    /\ PriceOf({}) = 0 /\ CreditOf({}) = 0
    /\ \A S \in SUBSET Named : PriceOf(S) \in Nat /\ CreditOf(S) \in Nat
    /\ \A S \in SUBSET Named, c \in Calls :
          /\ PriceOf(S \cup {c}) = IF c \in S THEN PriceOf(S) ELSE PriceOf(S) + Price
          /\ PriceOf(S \ {c}) = IF c \in S THEN PriceOf(S) - Price ELSE PriceOf(S)
          /\ CreditOf(S \cup {c}) = CreditOf(S) /\ CreditOf(S \ {c}) = CreditOf(S)
    /\ \A S \in SUBSET Named, t \in Topups :
          /\ CreditOf(S \cup {t}) = IF t \in S THEN CreditOf(S) ELSE CreditOf(S) + Credit
          /\ CreditOf(S \ {t}) = IF t \in S THEN CreditOf(S) - Credit ELSE CreditOf(S)
          /\ PriceOf(S \cup {t}) = PriceOf(S) /\ PriceOf(S \ {t}) = PriceOf(S)
    /\ \A S, T \in SUBSET Named :
          S \subseteq T => PriceOf(S) <= PriceOf(T) /\ CreditOf(S) <= CreditOf(T)
<1> DEFINE P(S) == S \cap Calls
           C(S) == S \cap Topups
<1>1. /\ IsFiniteSet(Calls) /\ IsFiniteSet(Topups) /\ Calls \cap Topups = {}
      /\ Price \in Nat /\ Credit \in Nat
  BY WalletCacheAssumption
<1>2. \A n \in Int : /\ Price * (n + 1) = Price * n + Price /\ Price * (n - 1) = Price * n - Price
                     /\ Credit * (n + 1) = Credit * n + Credit
                     /\ Credit * (n - 1) = Credit * n - Credit
  BY <1>1
<1>3. \A m, n \in Nat : m <= n => Price * m <= Price * n /\ Credit * m <= Credit * n
  BY <1>1, Multiples
<1>4. \A S : PriceOf(S) = Price * Cardinality(P(S)) /\ CreditOf(S) = Credit * Cardinality(C(S))
  BY DEF PriceOf, CreditOf
<1>5. /\ \A S \in SUBSET Calls : Cardinality(S) \in Nat
      /\ \A S \in SUBSET Topups : Cardinality(S) \in Nat
      /\ \A S \in SUBSET Calls, c \in Calls :
            Cardinality(S \cup {c}) = IF c \in S THEN Cardinality(S) ELSE Cardinality(S) + 1
      /\ \A S \in SUBSET Calls, c \in Calls :
            Cardinality(S \ {c}) = IF c \in S THEN Cardinality(S) - 1 ELSE Cardinality(S)
      /\ \A S \in SUBSET Topups, t \in Topups :
            Cardinality(S \cup {t}) = IF t \in S THEN Cardinality(S) ELSE Cardinality(S) + 1
      /\ \A S \in SUBSET Topups, t \in Topups :
            Cardinality(S \ {t}) = IF t \in S THEN Cardinality(S) - 1 ELSE Cardinality(S)
      /\ \A S, T \in SUBSET Calls : S \subseteq T => Cardinality(S) <= Cardinality(T)
      /\ \A S, T \in SUBSET Topups : S \subseteq T => Cardinality(S) <= Cardinality(T)
  BY <1>1, Sizes
<1>6. \A S : P(S) \in SUBSET Calls /\ C(S) \in SUBSET Topups
  OBVIOUS
<1>7. \A S : Cardinality(P(S)) \in Nat /\ Cardinality(C(S)) \in Nat
  BY <1>5, <1>6
<1>8. PriceOf({}) = 0 /\ CreditOf({}) = 0
  <2>1. P({}) = {} /\ C({}) = {} /\ Cardinality({}) = 0
    BY FS_EmptySet
  <2>2. Price * 0 = 0 /\ Credit * 0 = 0
    BY <1>1
  <2> QED BY <1>4, <2>1, <2>2
<1>9. \A S \in SUBSET Named : PriceOf(S) \in Nat /\ CreditOf(S) \in Nat
  <2>1. \A n \in Nat : Price * n \in Nat /\ Credit * n \in Nat
    BY <1>1
  <2> HIDE DEF P, C
  <2> QED BY <1>4, <1>7, <2>1
<1>10. ASSUME NEW S \in SUBSET Named, NEW c \in Calls
       PROVE  /\ PriceOf(S \cup {c}) = IF c \in S THEN PriceOf(S) ELSE PriceOf(S) + Price
              /\ PriceOf(S \ {c}) = IF c \in S THEN PriceOf(S) - Price ELSE PriceOf(S)
              /\ CreditOf(S \cup {c}) = CreditOf(S) /\ CreditOf(S \ {c}) = CreditOf(S)
  <2>1. /\ P(S \cup {c}) = P(S) \cup {c} /\ P(S \ {c}) = P(S) \ {c}
        /\ C(S \cup {c}) = C(S) /\ C(S \ {c}) = C(S)
        /\ c \in P(S) <=> c \in S
    BY <1>1
  <2>2. /\ Cardinality(P(S \cup {c})) =
              IF c \in S THEN Cardinality(P(S)) ELSE Cardinality(P(S)) + 1
        /\ Cardinality(P(S \ {c})) =
              IF c \in S THEN Cardinality(P(S)) - 1 ELSE Cardinality(P(S))
    <3>1. P(S) \in SUBSET Calls
      OBVIOUS
    <3> HIDE DEF P, C
    <3>2. /\ Cardinality(P(S) \cup {c}) =
                IF c \in P(S) THEN Cardinality(P(S)) ELSE Cardinality(P(S)) + 1
          /\ Cardinality(P(S) \ {c}) =
                IF c \in P(S) THEN Cardinality(P(S)) - 1 ELSE Cardinality(P(S))
      BY <1>5, <3>1
    <3> QED BY <2>1, <3>2
  <2> HIDE DEF P, C
  <2> QED BY <1>2, <1>4, <1>7, <2>1, <2>2
<1>11. ASSUME NEW S \in SUBSET Named, NEW t \in Topups
       PROVE  /\ CreditOf(S \cup {t}) = IF t \in S THEN CreditOf(S) ELSE CreditOf(S) + Credit
              /\ CreditOf(S \ {t}) = IF t \in S THEN CreditOf(S) - Credit ELSE CreditOf(S)
              /\ PriceOf(S \cup {t}) = PriceOf(S) /\ PriceOf(S \ {t}) = PriceOf(S)
  <2>1. /\ C(S \cup {t}) = C(S) \cup {t} /\ C(S \ {t}) = C(S) \ {t}
        /\ P(S \cup {t}) = P(S) /\ P(S \ {t}) = P(S)
        /\ t \in C(S) <=> t \in S
    BY <1>1
  <2>2. /\ Cardinality(C(S \cup {t})) =
              IF t \in S THEN Cardinality(C(S)) ELSE Cardinality(C(S)) + 1
        /\ Cardinality(C(S \ {t})) =
              IF t \in S THEN Cardinality(C(S)) - 1 ELSE Cardinality(C(S))
    <3>1. C(S) \in SUBSET Topups
      OBVIOUS
    <3> HIDE DEF P, C
    <3>2. /\ Cardinality(C(S) \cup {t}) =
                IF t \in C(S) THEN Cardinality(C(S)) ELSE Cardinality(C(S)) + 1
          /\ Cardinality(C(S) \ {t}) =
                IF t \in C(S) THEN Cardinality(C(S)) - 1 ELSE Cardinality(C(S))
      BY <1>5, <3>1
    <3> QED BY <2>1, <3>2
  <2> HIDE DEF P, C
  <2> QED BY <1>2, <1>4, <1>7, <2>1, <2>2
<1>12. ASSUME NEW S \in SUBSET Named, NEW T \in SUBSET Named, S \subseteq T
       PROVE  PriceOf(S) <= PriceOf(T) /\ CreditOf(S) <= CreditOf(T)
  <2>1. P(S) \subseteq P(T) /\ C(S) \subseteq C(T)
    BY <1>12
  <2>2. Cardinality(P(S)) <= Cardinality(P(T)) /\ Cardinality(C(S)) <= Cardinality(C(T))
    <3> HIDE DEF P, C
    <3> QED BY <1>5, <1>6, <2>1
  <2> HIDE DEF P, C
  <2> QED BY <1>3, <1>4, <1>7, <2>2
<1> HIDE DEF P, C
<1> QED BY <1>8, <1>9, <1>10, <1>11, <1>12

-----------------------------------------------------------------------------
(***************************************************************************)
(* What a step moves.                                                      *)
(***************************************************************************)
\* The sums are natural numbers.
AmountsOK ==
    /\ InFlightSum \in Nat /\ OwedSum \in Nat /\ TakenSum \in Nat /\ PotSum \in Nat
    /\ CrossedPrice \in Nat /\ CrossedTopup \in Nat /\ Left \in Nat /\ LeftEven \in Nat
    /\ db \in Int /\ Balance \in Int /\ Positive(Balance) \in Nat
    /\ \A t \in Topups : seen[t].cents \in Int

LEMMA Amounts == TypeOK => AmountsOK
<1> SUFFICES ASSUME TypeOK PROVE AmountsOK
  OBVIOUS
<1>1. /\ InFlight \in SUBSET Named /\ Owed \in SUBSET Named /\ Taken \in SUBSET Named
      /\ Pot \in SUBSET Named /\ crossed \in SUBSET Named
      /\ unheard \in SUBSET Named /\ repeated \in SUBSET Named
  BY DEF TypeOK, Named, InFlight, Owed, Taken, Pot
<1>2. /\ InFlightSum \in Nat /\ OwedSum \in Nat /\ TakenSum \in Nat /\ PotSum \in Nat
      /\ CrossedPrice \in Nat /\ CrossedTopup \in Nat
  BY <1>1, Sums DEF InFlightSum, OwedSum, TakenSum, PotSum, CrossedPrice, CrossedTopup
<1>3. Left \in Nat /\ LeftEven \in Nat
  <2>1. \A S : unheard \ S \in SUBSET Named /\ repeated \ S \in SUBSET Named
    BY <1>1
  <2>2. \A S : Surplus(S) \in Nat
    <3> SUFFICES ASSUME NEW S PROVE Surplus(S) \in Nat
      OBVIOUS
    <3>1. /\ PriceOf(unheard \ S) \in Nat /\ PriceOf(repeated \ S) \in Nat
          /\ CreditOf(repeated \ S) \in Nat
      BY <2>1, Sums
    <3> QED BY <3>1 DEF Surplus
  <2> QED BY <2>2 DEF Left, LeftEven
<1>4. db \in Int /\ Balance \in Int /\ Positive(Balance) \in Nat
  BY DEF TypeOK, Balance, Positive
<1>5. \A t \in Topups : seen[t].cents \in Int
  BY DEF TypeOK
<1> QED BY <1>2, <1>3, <1>4, <1>5 DEF AmountsOK

LEMMA AmountsNext == TypeOK' => AmountsOK'
BY Amounts, PTL

\* A call that moves adds its price to, or takes it from, what is in flight.
Flying == {"recording", "unwinding"}
Gone   == {"recording", "unwinding", "undone"}

LEMMA CallMoves ==
    ASSUME TypeOK, NEW c \in Calls, NEW from \in CallState, NEW to \in CallState,
           CallMove(c, from, to)
    PROVE  /\ cpc' \in [Calls -> CallState] /\ cpc[c] = from /\ cpc'[c] = to
           /\ \A d \in Calls : d # c => cpc'[d] = cpc[d]
           /\ InFlight' = IF to \in Flying THEN InFlight \cup {c} ELSE InFlight \ {c}
           /\ c \in InFlight <=> from \in Flying
           /\ from \in Flying /\ to \in Flying => InFlightSum' = InFlightSum
           /\ from \in Flying /\ to \notin Flying => InFlightSum' = InFlightSum - Price
           /\ from \notin Flying /\ to \in Flying => InFlightSum' = InFlightSum + Price
           /\ from \notin Flying /\ to \notin Flying => InFlightSum' = InFlightSum
           /\ from \in Gone /\ to \in Gone => TakenSum' = TakenSum
           /\ from \in Gone /\ to \notin Gone => TakenSum' = TakenSum - Price
           /\ from \notin Gone /\ to \in Gone => TakenSum' = TakenSum + Price
           /\ from \notin Gone /\ to \notin Gone => TakenSum' = TakenSum
           /\ UNCHANGED <<OwedSum, Owed, Filling, Busy, Adjusted, tpc, dpc, apc>>
<1>1. cpc' = [cpc EXCEPT ![c] = to] /\ cpc[c] = from /\ UNCHANGED <<tpc, dpc, apc>>
  BY DEF CallMove
<1>2. /\ cpc' \in [Calls -> CallState] /\ cpc'[c] = to
      /\ \A d \in Calls : d # c => cpc'[d] = cpc[d]
  BY <1>1 DEF TypeOK
<1>3. /\ InFlight' = IF to \in Flying THEN InFlight \cup {c} ELSE InFlight \ {c}
      /\ c \in InFlight <=> from \in Flying
  BY <1>1, <1>2 DEF InFlight, Flying
<1>4. /\ Taken' = IF to \in Gone THEN Taken \cup {c} ELSE Taken \ {c}
      /\ c \in Taken <=> from \in Gone
  BY <1>1, <1>2 DEF Taken, Gone
<1>5. InFlight \in SUBSET Named /\ Taken \in SUBSET Named
  BY DEF InFlight, Taken, Named
<1>6. /\ InFlightSum = PriceOf(InFlight) /\ InFlightSum' = PriceOf(InFlight')
      /\ TakenSum = PriceOf(Taken) /\ TakenSum' = PriceOf(Taken')
  BY DEF InFlightSum, TakenSum, PriceOf
<1>7. /\ PriceOf(InFlight) \in Nat /\ PriceOf(Taken) \in Nat /\ Price \in Nat
  BY <1>5, Sums, WalletCacheAssumption
<1>8. /\ PriceOf(InFlight \cup {c}) =
            IF c \in InFlight THEN PriceOf(InFlight) ELSE PriceOf(InFlight) + Price
      /\ PriceOf(InFlight \ {c}) =
            IF c \in InFlight THEN PriceOf(InFlight) - Price ELSE PriceOf(InFlight)
      /\ PriceOf(Taken \cup {c}) =
            IF c \in Taken THEN PriceOf(Taken) ELSE PriceOf(Taken) + Price
      /\ PriceOf(Taken \ {c}) =
            IF c \in Taken THEN PriceOf(Taken) - Price ELSE PriceOf(Taken)
  BY <1>5, Sums
<1>9. UNCHANGED <<OwedSum, Owed, Filling, Busy, Adjusted>>
  BY <1>1 DEF OwedSum, Owed, Filling, Busy, Adjusted, CreditOf
<1>10. /\ from \in Flying /\ to \in Flying => InFlightSum' = InFlightSum
       /\ from \in Flying /\ to \notin Flying => InFlightSum' = InFlightSum - Price
       /\ from \notin Flying /\ to \in Flying => InFlightSum' = InFlightSum + Price
       /\ from \notin Flying /\ to \notin Flying => InFlightSum' = InFlightSum
  BY <1>3, <1>6, <1>7, <1>8
<1>11. /\ from \in Gone /\ to \in Gone => TakenSum' = TakenSum
       /\ from \in Gone /\ to \notin Gone => TakenSum' = TakenSum - Price
       /\ from \notin Gone /\ to \in Gone => TakenSum' = TakenSum + Price
       /\ from \notin Gone /\ to \notin Gone => TakenSum' = TakenSum
  BY <1>4, <1>6, <1>7, <1>8
<1> QED BY <1>1, <1>2, <1>3, <1>9, <1>10, <1>11

\* A top-up that moves: what is owed to Redis, and which jobs are under way.
Resting == {"queued", "done", "tooMuch"}

LEMMA TopupMoves ==
    ASSUME TypeOK, NEW t \in Topups, NEW from \in TopupState, NEW to \in TopupState,
           TopupMove(t, from, to)
    PROVE  /\ tpc' \in [Topups -> TopupState] /\ tpc[t] = from /\ tpc'[t] = to
           /\ \A u \in Topups : u # t => tpc'[u] = tpc[u]
           /\ Owed' = IF to = "crediting" THEN Owed \cup {t} ELSE Owed \ {t}
           /\ from # "crediting" /\ to = "crediting" => OwedSum' = OwedSum + Credit
           /\ from = "crediting" /\ to # "crediting" => OwedSum' = OwedSum - Credit
           /\ from # "crediting" /\ to # "crediting" => OwedSum' = OwedSum
           /\ Filling' = IF to = "filling" THEN Filling \cup {t} ELSE Filling \ {t}
           /\ t \in Filling <=> from = "filling"
           /\ Busy' = IF to \in Resting THEN Busy \ {t} ELSE Busy \cup {t}
           /\ t \in Busy <=> from \notin Resting
           /\ UNCHANGED <<InFlightSum, InFlight, TakenSum, Adjusted, cpc, dpc, apc>>
<1>1. tpc' = [tpc EXCEPT ![t] = to] /\ tpc[t] = from /\ UNCHANGED <<cpc, dpc, apc>>
  BY DEF TopupMove
<1>2. /\ tpc' \in [Topups -> TopupState] /\ tpc'[t] = to
      /\ \A u \in Topups : u # t => tpc'[u] = tpc[u]
  BY <1>1 DEF TypeOK
<1>3. /\ Owed' = IF to = "crediting" THEN Owed \cup {t} ELSE Owed \ {t}
      /\ t \in Owed <=> from = "crediting"
      /\ Owed \in SUBSET Named
  BY <1>1, <1>2 DEF Owed, Named
<1>4. /\ OwedSum = CreditOf(Owed) /\ OwedSum' = CreditOf(Owed')
      /\ CreditOf(Owed) \in Nat /\ Credit \in Nat
      /\ CreditOf(Owed \cup {t}) = IF t \in Owed THEN CreditOf(Owed) ELSE CreditOf(Owed) + Credit
      /\ CreditOf(Owed \ {t}) = IF t \in Owed THEN CreditOf(Owed) - Credit ELSE CreditOf(Owed)
  <2>1. OwedSum = CreditOf(Owed) /\ OwedSum' = CreditOf(Owed')
    BY DEF OwedSum, CreditOf
  <2> QED BY <1>3, <2>1, Sums, WalletCacheAssumption
<1>5. /\ from # "crediting" /\ to = "crediting" => OwedSum' = OwedSum + Credit
      /\ from = "crediting" /\ to # "crediting" => OwedSum' = OwedSum - Credit
      /\ from # "crediting" /\ to # "crediting" => OwedSum' = OwedSum
  BY <1>3, <1>4
<1>6. /\ Filling' = IF to = "filling" THEN Filling \cup {t} ELSE Filling \ {t}
      /\ t \in Filling <=> from = "filling"
  BY <1>1, <1>2 DEF Filling
<1>7. t \notin Disputes
  BY WalletCacheAssumption
<1>8. /\ Busy' = IF to \in Resting THEN Busy \ {t} ELSE Busy \cup {t}
      /\ t \in Busy <=> from \notin Resting
  BY <1>1, <1>2, <1>7 DEF Busy, Resting
<1>9. UNCHANGED <<InFlightSum, InFlight, TakenSum, Adjusted>>
  BY <1>1 DEF InFlightSum, InFlight, TakenSum, Taken, Adjusted, PriceOf
<1> QED BY <1>1, <1>2, <1>3, <1>5, <1>6, <1>8, <1>9

-----------------------------------------------------------------------------
(***************************************************************************)
(* Types.                                                                  *)
(***************************************************************************)
LEMMA TypeInit == Init => TypeOK
<1> SUFFICES ASSUME Init PROVE TypeOK
  OBVIOUS
<1>1. db \in Int /\ ledger \in Int /\ flushes \in 0 .. MaxFaults
  <2>1. Opening \in Nat /\ MaxFaults \in Nat
    BY WalletCacheAssumption
  <2> QED BY <2>1 DEF Init
<1>2. key \in Int \cup {Absent}
  BY WalletCacheAssumption DEF Init
<1>3. /\ cpc \in [Calls -> CallState] /\ tpc \in [Topups -> TopupState]
      /\ dpc \in [Disputes -> DisputeState] /\ apc \in [Adjustments -> AdjustState]
  BY DEF Init, CallState, TopupState, DisputeState, AdjustState
<1>4. seen \in [Topups \cup Adjustments -> [cents : Int, locked : BOOLEAN]]
  BY DEF Init
<1>5. /\ expiring \in BOOLEAN /\ lockFlag \in BOOLEAN /\ dbLocked \in BOOLEAN
      /\ redisFailed \in BOOLEAN /\ overtaken \in BOOLEAN
  BY DEF Init
<1>6. /\ unheard \subseteq Calls /\ repeated \subseteq Calls \cup Topups
      /\ crossed \subseteq Calls \cup Topups /\ missed \subseteq Calls \cup Topups
      /\ fresh \subseteq Topups \cup Disputes
  BY DEF Init
<1> QED BY <1>1, <1>2, <1>3, <1>4, <1>5, <1>6 DEF TypeOK

LEMMA IncrByType ==
    ASSUME TypeOK, NEW n \in Int, IncrBy(n)
    PROVE  key' \in Int /\ Balance' = Balance + n /\ UNCHANGED <<expiring, lockFlag>>
BY WalletCacheAssumption DEF TypeOK, IncrBy, Balance

LEMMA RecordType ==
    ASSUME TypeOK, NEW x \in Calls \cup Topups, NEW n \in Int, Record(x, n)
    PROVE  /\ db' \in Int /\ ledger' \in Int /\ dbLocked' \in BOOLEAN
           /\ missed' \subseteq Calls \cup Topups
BY DEF TypeOK, Record

LEMMA CrossType ==
    ASSUME TypeOK, NEW x \in Calls \cup Topups, Cross(x)
    PROVE  crossed' \subseteq Calls \cup Topups
BY DEF TypeOK, Cross

LEMMA FlagType ==
    ASSUME TypeOK, NEW j \in Topups \cup Disputes, NEW locked \in BOOLEAN, WriteFlag(j, locked)
    PROVE  /\ lockFlag' \in BOOLEAN /\ overtaken' \in BOOLEAN
           /\ fresh' \subseteq Topups \cup Disputes /\ UNCHANGED <<key, expiring>>
BY DEF TypeOK, WriteFlag

\* What all steps of calls leave alone.
LEMMA CallLeaves ==
    ASSUME NEW c \in Calls, Call(c)
    PROVE  UNCHANGED <<expiring, lockFlag, dbLocked, seen, flushes, turns, tpc, dpc, apc>>
BY DEF Call, Charge, Reject, RecordCharge, RecordChargeFails, RecordChargeUnheard, RollbackRedis,
       RollbackRedisTwice, CallMove, IncrBy, Record, redis, rows, past, lost, marks

LEMMA TypeCall ==
    ASSUME TypeOK, NEW c \in Calls, Call(c)
    PROVE  TypeOK'
<1> DEFINE Kept == UNCHANGED <<expiring, lockFlag, dbLocked, seen, flushes, turns, tpc, dpc, apc>>
<1>1. Kept
  BY CallLeaves
<1>2. Price \in Int /\ -Price \in Int /\ 2 * Price \in Int
  BY WalletCacheAssumption
<1>3. ASSUME cpc' \in [Calls -> CallState], key' \in Int \cup {Absent}, db' \in Int,
             ledger' \in Int, redisFailed' \in BOOLEAN, unheard' \subseteq Calls,
             repeated' \subseteq Calls \cup Topups, crossed' \subseteq Calls \cup Topups,
             missed' \subseteq Calls \cup Topups
      PROVE  TypeOK'
  BY <1>1, <1>3 DEF TypeOK, turns
<1>4. CASE Charge(c)
  <2>1. key' \in Int /\ crossed' \subseteq Calls \cup Topups
    BY <1>2, <1>4, IncrByType, CrossType DEF Charge
  <2> QED BY <1>3, <1>4, <2>1 DEF TypeOK, Charge, CallMove, rows, lost, CallState
<1>5. CASE Reject(c)
  BY <1>3, <1>5 DEF TypeOK, Reject, CallMove, redis, rows, past, lost, marks, CallState
<1>6. CASE RecordCharge(c)
  <2>1. db' \in Int /\ ledger' \in Int /\ missed' \subseteq Calls \cup Topups
    BY <1>2, <1>6, RecordType DEF RecordCharge
  <2> QED BY <1>3, <1>6, <2>1 DEF TypeOK, RecordCharge, CallMove, redis, lost, CallState
<1>7. CASE RecordChargeFails(c)
  BY <1>3, <1>7 DEF TypeOK, RecordChargeFails, CallMove, redis, rows, past, lost, marks, CallState
<1>8. CASE RecordChargeUnheard(c)
  <2>1. db' \in Int /\ ledger' \in Int /\ missed' \subseteq Calls \cup Topups
    BY <1>2, <1>8, RecordType DEF RecordChargeUnheard
  <2> QED BY <1>3, <1>8, <2>1 DEF TypeOK, RecordChargeUnheard, CallMove, redis, CallState
<1>9. CASE RollbackRedis(c)
  <2>1. key' \in Int \cup {Absent} /\ redisFailed' \in BOOLEAN
    <3>1. CASE IncrBy(Price) /\ UNCHANGED redisFailed
      BY <1>2, <3>1, IncrByType DEF TypeOK
    <3>2. CASE UNCHANGED redis /\ redisFailed' = TRUE
      BY <3>2 DEF TypeOK, redis
    <3> QED BY <1>9, <3>1, <3>2 DEF RollbackRedis
  <2>2. cpc' \in [Calls -> CallState]
    BY <1>9 DEF TypeOK, RollbackRedis, CallMove, CallState
  <2> QED BY <1>3, <1>9, <2>1, <2>2 DEF TypeOK, RollbackRedis, rows, lost, marks
<1>10. CASE RollbackRedisTwice(c)
  <2>1. key' \in Int
    BY <1>2, <1>10, IncrByType DEF RollbackRedisTwice
  <2> QED BY <1>3, <1>10, <2>1 DEF TypeOK, RollbackRedisTwice, CallMove, rows, marks, CallState
<1> QED BY <1>4, <1>5, <1>6, <1>7, <1>8, <1>9, <1>10 DEF Call

LEMMA CheckedType == ASSUME NEW n PROVE Checked(n) \in {"tooMuch", "checked"}
BY DEF Checked

\* What all steps of top-ups leave alone.
LEMMA TopupLeaves ==
    ASSUME NEW t \in Topups, Topup(t)
    PROVE  UNCHANGED <<dbLocked, flushes, unheard, cpc, dpc, apc>>
BY DEF Topup, TopupRead, TopupLoad, TopupFill, TopupFlag, TopupFillFails, TopupDb, TopupRedis,
       TopupRedisTwice, TopupMove, Record, rows, past, lost

LEMMA TypeTopup ==
    ASSUME TypeOK, NEW t \in Topups, Topup(t)
    PROVE  TypeOK'
<1>1. UNCHANGED <<dbLocked, flushes, unheard, cpc, dpc, apc>>
  BY TopupLeaves
<1>2. Credit \in Int /\ 2 * Credit \in Int
  BY WalletCacheAssumption
<1>3. tpc' \in [Topups -> TopupState]
  BY CheckedType DEF TypeOK, Topup, TopupRead, TopupLoad, TopupFill, TopupFlag, TopupFillFails,
     TopupDb, TopupRedis, TopupRedisTwice, TopupMove, TopupState
<1>4. ASSUME key' \in Int \cup {Absent}, expiring' \in BOOLEAN, lockFlag' \in BOOLEAN,
             db' \in Int, ledger' \in Int, redisFailed' \in BOOLEAN,
             seen' \in [Topups \cup Adjustments -> [cents : Int, locked : BOOLEAN]],
             repeated' \subseteq Calls \cup Topups, crossed' \subseteq Calls \cup Topups,
             missed' \subseteq Calls \cup Topups, fresh' \subseteq Topups \cup Disputes,
             overtaken' \in BOOLEAN
      PROVE  TypeOK'
  BY <1>1, <1>3, <1>4 DEF TypeOK
<1>5. CASE TopupRead(t)
  BY <1>4, <1>5 DEF TypeOK, TopupRead, redis, rows, lost, marks, turns
<1>6. CASE TopupLoad(t)
  <2>1. crossed' \subseteq Calls \cup Topups
    <3>1. Uneven \subseteq Calls \cup Topups
      BY DEF TypeOK, Uneven, InFlight, Owed
    <3> QED BY <1>6, <3>1 DEF TypeOK, TopupLoad
  <2>2. fresh' \subseteq Topups \cup Disputes
    BY <1>6 DEF TypeOK, TopupLoad, Know
  <2>3. seen' \in [Topups \cup Adjustments -> [cents : Int, locked : BOOLEAN]]
    BY <1>6 DEF TypeOK, TopupLoad, Row
  <2> QED BY <1>4, <1>6, <2>1, <2>2, <2>3 DEF TypeOK, TopupLoad, redis, rows, lost
<1>7. CASE TopupFill(t)
  BY <1>4, <1>7 DEF TypeOK, TopupFill, SetKey, rows, past, lost, marks, turns
<1>8. CASE TopupFlag(t)
  <2>1. seen[t].locked \in BOOLEAN
    BY DEF TypeOK
  <2>2. /\ lockFlag' \in BOOLEAN /\ overtaken' \in BOOLEAN
        /\ fresh' \subseteq Topups \cup Disputes /\ UNCHANGED <<key, expiring>>
    BY <1>8, <2>1, FlagType DEF TopupFlag
  <2> QED BY <1>4, <1>8, <2>2 DEF TypeOK, TopupFlag, rows, lost, marks
<1>9. CASE TopupFillFails(t)
  BY <1>4, <1>9 DEF TypeOK, TopupFillFails, redis, rows, lost, marks, turns
<1>10. CASE TopupDb(t)
  <2>1. /\ db' \in Int /\ ledger' \in Int /\ missed' \subseteq Calls \cup Topups
        /\ crossed' \subseteq Calls \cup Topups
    BY <1>2, <1>10, RecordType, CrossType DEF TopupDb
  <2> QED BY <1>4, <1>10, <2>1 DEF TypeOK, TopupDb, redis, lost, turns
<1>11. CASE TopupRedis(t)
  <2>1. key' \in Int \cup {Absent} /\ redisFailed' \in BOOLEAN /\ UNCHANGED <<expiring, lockFlag>>
    <3>1. CASE IncrBy(Credit) /\ UNCHANGED redisFailed
      BY <1>2, <3>1, IncrByType DEF TypeOK
    <3>2. CASE UNCHANGED redis /\ redisFailed' = TRUE
      BY <3>2 DEF TypeOK, redis
    <3> QED BY <1>11, <3>1, <3>2 DEF TopupRedis
  <2> QED BY <1>4, <1>11, <2>1 DEF TypeOK, TopupRedis, rows, lost, marks, turns
<1>12. CASE TopupRedisTwice(t)
  <2>1. key' \in Int /\ UNCHANGED <<expiring, lockFlag>>
    BY <1>2, <1>12, IncrByType DEF TopupRedisTwice
  <2> QED BY <1>4, <1>12, <2>1 DEF TypeOK, TopupRedisTwice, rows, marks, turns
<1> QED BY <1>5, <1>6, <1>7, <1>8, <1>9, <1>10, <1>11, <1>12 DEF Topup

\* What dispute jobs leave alone.
LEMMA DisputeLeaves ==
    ASSUME NEW d \in Disputes, Dispute(d)
    PROVE  UNCHANGED <<key, expiring, db, ledger, cpc, tpc, apc, seen,
                       redisFailed, flushes, lost, marks>>
BY DEF Dispute, LockDb, LockRedis, UnlockDb, UnlockRedis, FlagFails, WriteFlag, DisputeMove,
       redis, rows

LEMMA TypeDispute ==
    ASSUME TypeOK, NEW d \in Disputes, Dispute(d)
    PROVE  TypeOK'
<1>1. UNCHANGED <<key, expiring, db, ledger, cpc, tpc, apc, seen, redisFailed, flushes, lost, marks>>
  BY DisputeLeaves
<1>2. lockFlag' \in BOOLEAN /\ dbLocked' \in BOOLEAN
  BY DEF TypeOK, Dispute, LockDb, LockRedis, UnlockDb, UnlockRedis, FlagFails, WriteFlag, redis, rows
<1>3. fresh' \subseteq Topups \cup Disputes /\ overtaken' \in BOOLEAN
  BY DEF TypeOK, Dispute, LockDb, LockRedis, UnlockDb, UnlockRedis, FlagFails, WriteFlag, Know, turns
<1>4. \E to \in DisputeState : dpc' = [dpc EXCEPT ![d] = to]
  BY DEF Dispute, LockDb, LockRedis, UnlockDb, UnlockRedis, FlagFails, DisputeMove, DisputeState
<1>5. dpc' \in [Disputes -> DisputeState]
  BY <1>4 DEF TypeOK
<1> QED BY <1>1, <1>2, <1>3, <1>5 DEF TypeOK, lost, marks

LEMMA TypeAdjust ==
    ASSUME TypeOK, NEW a \in Adjustments, Adjust(a)
    PROVE  TypeOK'
<1>1. CASE AdjustRead(a)
  BY <1>1 DEF TypeOK, AdjustRead, AdjustMove, Row, redis, rows, past, lost, marks, turns, AdjustState
<1>2. CASE AdjustWrite(a)
  <2>1. seen[a].cents \in Int /\ Amount[a] \in Int
    BY WalletCacheAssumption DEF TypeOK
  <2> QED BY <1>2, <2>1
          DEF TypeOK, AdjustWrite, AdjustMove, redis, past, lost, marks, turns, AdjustState
<1>3. CASE AdjustRefused(a)
  BY <1>3 DEF TypeOK, AdjustRefused, AdjustMove, redis, rows, past, lost, marks, turns, AdjustState
<1>4. CASE AdjustReload(a)
  BY <1>4 DEF TypeOK, AdjustReload, AdjustMove, Row, redis, rows, past, lost, marks, turns, AdjustState
<1>5. CASE AdjustSet(a)
  <2>1. apc' \in [Adjustments -> AdjustState] /\ UNCHANGED <<cpc, tpc, dpc>>
    BY <1>5 DEF TypeOK, AdjustSet, AdjustMove, AdjustState
  <2>2. key' \in Int \cup {Absent} /\ expiring' \in BOOLEAN /\ redisFailed' \in BOOLEAN
    <3>1. CASE SetKey(seen[a].cents, TRUE) /\ UNCHANGED redisFailed
      BY <3>1 DEF TypeOK, SetKey
    <3>2. CASE UNCHANGED <<key, expiring>> /\ redisFailed' = TRUE
      BY <3>2 DEF TypeOK
    <3> QED BY <1>5, <3>1, <3>2 DEF AdjustSet
  <2> QED BY <1>5, <2>1, <2>2 DEF TypeOK, AdjustSet, rows, lost, marks, turns
<1> QED BY <1>1, <1>2, <1>3, <1>4, <1>5 DEF Adjust

LEMMA TypeLoss ==
    ASSUME TypeOK, Expire \/ Flush
    PROVE  TypeOK'
<1>1. CASE Expire
  BY <1>1 DEF TypeOK, Expire, rows, pcs, past, lost, marks, turns
<1>2. CASE Flush
  <2>1. flushes < MaxFaults
    <3>1. IsFiniteSet(Calls) /\ IsFiniteSet(Calls \cup Topups)
      BY WalletCacheAssumption, FS_Union
    <3>2. unheard \in SUBSET Calls /\ repeated \in SUBSET (Calls \cup Topups)
      BY DEF TypeOK
    <3>3. Cardinality(unheard) \in Nat /\ Cardinality(repeated) \in Nat
      BY <3>1, <3>2, FS_Subset, FS_CardinalityType
    <3>4. flushes \in Nat /\ MaxFaults \in Nat
      BY WalletCacheAssumption DEF TypeOK
    <3>5. flushes + Cardinality(unheard) + Cardinality(repeated) < MaxFaults
      BY <1>2 DEF Flush, MayFail
    <3> QED BY <3>3, <3>4, <3>5
  <2>2. flushes' \in 0 .. MaxFaults
    BY <1>2, <2>1, WalletCacheAssumption DEF TypeOK, Flush
  <2> QED BY <1>2, <2>2 DEF TypeOK, Flush, rows, pcs, lost, marks, turns
<1> QED BY <1>1, <1>2

LEMMA TypeStep == TypeOK /\ [Next]_vars => TypeOK'
<1> SUFFICES ASSUME TypeOK, [Next]_vars PROVE TypeOK'
  OBVIOUS
<1>1. CASE UNCHANGED vars
  BY <1>1 DEF TypeOK, vars, redis, rows, pcs, past, lost, marks, turns
<1> QED BY <1>1, TypeCall, TypeTopup, TypeDispute, TypeAdjust, TypeLoss DEF Next

\* The Redis keys, the row and its ledger, and what each call, top-up, dispute
\* and adjustment has reached and read, have their types.
THEOREM TypeCorrect == Spec => []TypeOK
BY TypeInit, TypeStep, PTL DEF Spec

-----------------------------------------------------------------------------
(***************************************************************************)
(* Lost replies, jobs under way, and what crosses a fill.                  *)
(***************************************************************************)
LEMMA LostInit == Init => LostInv
BY DEF Init, LostInv

LEMMA LostStep == TypeOK /\ LostInv /\ [Next]_vars => LostInv'
<1> SUFFICES ASSUME TypeOK, LostInv, [Next]_vars PROVE LostInv'
  OBVIOUS
<1>1. ASSUME NEW c \in Calls, Call(c) PROVE LostInv'
  <2>1. c \notin Topups
    BY WalletCacheAssumption
  <2>2. CASE Charge(c) \/ Reject(c) \/ RecordCharge(c) \/ RecordChargeFails(c)
    BY <2>2 DEF TypeOK, LostInv, Charge, Reject, RecordCharge, RecordChargeFails, CallMove, past, lost
  <2>3. CASE RecordChargeUnheard(c)
    BY <2>3 DEF TypeOK, LostInv, RecordChargeUnheard, CallMove
  <2>4. CASE RollbackRedis(c)
    BY <2>4 DEF TypeOK, LostInv, RollbackRedis, CallMove, lost
  <2>5. CASE RollbackRedisTwice(c)
    BY <2>1, <2>5 DEF TypeOK, LostInv, RollbackRedisTwice, CallMove
  <2> QED BY <1>1, <2>2, <2>3, <2>4, <2>5 DEF Call
<1>2. ASSUME NEW t \in Topups, Topup(t) PROVE LostInv'
  <2>1. t \notin Calls
    BY WalletCacheAssumption
  <2>2. CASE TopupRedisTwice(t)
    BY <2>1, <2>2 DEF TypeOK, LostInv, TopupRedisTwice, TopupMove
  <2>3. CASE ~TopupRedisTwice(t)
    <3>1. /\ UNCHANGED <<cpc, lost>> /\ tpc[t] # "done"
          /\ \A u \in Topups : u # t => tpc'[u] = tpc[u]
      BY <1>2, <2>3
      DEF TypeOK, Topup, TopupRead, TopupLoad, TopupFill, TopupFlag, TopupFillFails, TopupDb,
          TopupRedis, TopupMove, past
    <3> QED BY <3>1 DEF LostInv, lost
  <2> QED BY <2>2, <2>3
<1>3. ASSUME NEW d \in Disputes, Dispute(d) PROVE LostInv'
  BY <1>3, DisputeLeaves DEF LostInv, lost
<1>4. ASSUME NEW a \in Adjustments, Adjust(a) PROVE LostInv'
  BY <1>4 DEF LostInv, Adjust, AdjustRead, AdjustWrite, AdjustRefused, AdjustReload, AdjustSet,
              AdjustMove, past, lost
<1>5. CASE Expire \/ Flush
  BY <1>5 DEF LostInv, Expire, Flush, pcs, past, lost
<1>6. CASE UNCHANGED vars
  BY <1>6 DEF LostInv, vars, pcs, past, lost
<1> QED BY <1>1, <1>2, <1>3, <1>4, <1>5, <1>6 DEF Next

\* The other steps leave the jobs where they are.
LEMMA OthersLeaveJobs ==
    ASSUME \/ \E c \in Calls : Call(c)
           \/ \E a \in Adjustments : Adjust(a)
           \/ Expire \/ Flush \/ UNCHANGED vars
    PROVE  UNCHANGED <<tpc, dpc, dbLocked, fresh, overtaken>>
BY DEF Call, Charge, Reject, RecordCharge, RecordChargeFails, RecordChargeUnheard, RollbackRedis,
       RollbackRedisTwice, CallMove, Record, Adjust, AdjustRead, AdjustWrite, AdjustRefused,
       AdjustReload, AdjustSet, AdjustMove, Expire, Flush, vars, pcs, rows, past, turns

\* A job counts as one, and the jobs under way are finitely many.
LEMMA BusySizes ==
    /\ Busy \in SUBSET (Topups \cup Disputes)
    /\ Busy' \in SUBSET (Topups \cup Disputes)
    /\ Cardinality({}) = 0
    /\ \A S \in SUBSET (Topups \cup Disputes) : Cardinality(S) \in Nat
    /\ \A S \in SUBSET (Topups \cup Disputes), x \in Topups \cup Disputes :
          /\ Cardinality(S \cup {x}) <= Cardinality(S) + 1
          /\ x \in S => Cardinality(S \ {x}) = Cardinality(S) - 1
    /\ \A S, T \in SUBSET (Topups \cup Disputes) :
          S \subseteq T => Cardinality(S) <= Cardinality(T)
<1>1. IsFiniteSet(Topups \cup Disputes)
  BY WalletCacheAssumption, FS_Union
<1>2. Busy \in SUBSET (Topups \cup Disputes) /\ Busy' \in SUBSET (Topups \cup Disputes)
  BY DEF Busy
<1>3. /\ \A S \in SUBSET (Topups \cup Disputes) : Cardinality(S) \in Nat
      /\ \A S \in SUBSET (Topups \cup Disputes), x \in Topups \cup Disputes :
            Cardinality(S \cup {x}) = IF x \in S THEN Cardinality(S) ELSE Cardinality(S) + 1
      /\ \A S \in SUBSET (Topups \cup Disputes), x \in Topups \cup Disputes :
            Cardinality(S \ {x}) = IF x \in S THEN Cardinality(S) - 1 ELSE Cardinality(S)
      /\ \A S, T \in SUBSET (Topups \cup Disputes) :
            S \subseteq T => Cardinality(S) <= Cardinality(T)
  BY <1>1, Sizes
<1>4. \A S \in SUBSET (Topups \cup Disputes), x \in Topups \cup Disputes :
         /\ Cardinality(S \cup {x}) <= Cardinality(S) + 1
         /\ x \in S => Cardinality(S \ {x}) = Cardinality(S) - 1
  <2> SUFFICES ASSUME NEW S \in SUBSET (Topups \cup Disputes), NEW x \in Topups \cup Disputes
               PROVE  /\ Cardinality(S \cup {x}) <= Cardinality(S) + 1
                      /\ x \in S => Cardinality(S \ {x}) = Cardinality(S) - 1
    OBVIOUS
  <2>1. Cardinality(S) \in Nat
    BY <1>3
  <2>2. Cardinality(S \cup {x}) = IF x \in S THEN Cardinality(S) ELSE Cardinality(S) + 1
    BY <1>3
  <2>3. Cardinality(S \ {x}) = IF x \in S THEN Cardinality(S) - 1 ELSE Cardinality(S)
    BY <1>3
  <2> QED BY <2>1, <2>2, <2>3
<1> QED BY <1>2, <1>3, <1>4, FS_EmptySet

LEMMA BusyInit == Init => BusyInv
<1> SUFFICES ASSUME Init PROVE BusyInv
  OBVIOUS
<1>1. Busy = {}
  BY DEF Init, Busy
<1> QED BY <1>1, BusySizes, WalletCacheAssumption DEF BusyInv

LEMMA BusyStep == TypeOK /\ BusyInv /\ [Next]_vars => BusyInv'
<1> SUFFICES ASSUME TypeOK, BusyInv, [Next]_vars PROVE BusyInv'
  OBVIOUS
<1>1. Workers \in Nat /\ Cardinality(Busy) \in Nat /\ Cardinality(Busy') \in Nat
  BY BusySizes, WalletCacheAssumption
<1>2. CASE WorkerFree /\ \E x \in Topups \cup Disputes : Busy' \subseteq Busy \cup {x}
  <2>1. PICK x \in Topups \cup Disputes : Busy' \subseteq Busy \cup {x}
    BY <1>2
  <2>2. Busy \cup {x} \in SUBSET (Topups \cup Disputes)
    BY BusySizes
  <2>3. /\ Cardinality(Busy') <= Cardinality(Busy \cup {x})
        /\ Cardinality(Busy \cup {x}) <= Cardinality(Busy) + 1
        /\ Cardinality(Busy \cup {x}) \in Nat
    BY <2>1, <2>2, BusySizes
  <2>4. Cardinality(Busy) < Workers
    BY <1>2 DEF WorkerFree
  <2>5. Cardinality(Busy') <= Workers
    BY <1>1, <2>3, <2>4
  <2> QED BY <2>5 DEF BusyInv
<1>3. CASE Busy' \subseteq Busy
  <2>1. Cardinality(Busy') <= Cardinality(Busy)
    BY <1>3, BusySizes
  <2>2. Cardinality(Busy') <= Workers
    BY <1>1, <2>1 DEF BusyInv
  <2> QED BY <2>2 DEF BusyInv
<1>4. ASSUME NEW t \in Topups, Topup(t) PROVE BusyInv'
  <2>1. \A u \in Topups : u # t => tpc'[u] = tpc[u]
    BY <1>4 DEF TypeOK, Topup, TopupRead, TopupLoad, TopupFill, TopupFlag, TopupFillFails, TopupDb,
                TopupRedis, TopupRedisTwice, TopupMove
  <2>2. Busy' \subseteq Busy \cup {t}
    BY <1>4, <2>1, TopupLeaves DEF Busy
  <2>3. CASE TopupRead(t)
    BY <1>2, <2>2, <2>3 DEF TopupRead
  <2>4. CASE ~TopupRead(t)
    <3>1. tpc[t] \notin Resting
      BY <1>4, <2>4 DEF Topup, TopupLoad, TopupFill, TopupFlag, TopupFillFails, TopupDb,
                TopupRedis, TopupRedisTwice, TopupMove, Resting
    <3>2. t \in Busy
      BY <3>1 DEF Busy, Resting
    <3> QED BY <1>3, <2>2, <3>2
  <2> QED BY <2>3, <2>4
<1>5. ASSUME NEW d \in Disputes, Dispute(d) PROVE BusyInv'
  <2>1. \A e \in Disputes : e # d => dpc'[e] = dpc[e]
    BY <1>5 DEF TypeOK, Dispute, LockDb, LockRedis, UnlockDb, UnlockRedis, FlagFails, DisputeMove
  <2>2. Busy' \subseteq Busy \cup {d}
    BY <1>5, <2>1, DisputeLeaves DEF Busy
  <2>3. CASE LockDb(d) \/ UnlockDb(d)
    BY <1>2, <2>2, <2>3 DEF LockDb, UnlockDb
  <2>4. CASE ~LockDb(d) /\ ~UnlockDb(d)
    <3>1. dpc[d] \in {"locking", "unlocking"}
      BY <1>5, <2>4 DEF Dispute, LockRedis, UnlockRedis, FlagFails, DisputeMove
    <3>2. d \in Busy
      BY <3>1 DEF Busy
    <3> QED BY <1>3, <2>2, <3>2
  <2> QED BY <2>3, <2>4
<1>6. UNCHANGED <<tpc, dpc>> => Busy' = Busy
  BY DEF Busy
<1> QED BY <1>3, <1>4, <1>5, <1>6, OthersLeaveJobs DEF Next

LEMMA CrossInit == Init => CrossInv
BY DEF Init, CrossInv, Filling

LEMMA CrossStep == TypeOK /\ LostInv /\ CrossInv /\ [Next]_vars => CrossInv'
<1> SUFFICES ASSUME TypeOK, LostInv, CrossInv, [Next]_vars PROVE CrossInv'
  OBVIOUS
<1>0. Calls \cap Topups = {}
  BY WalletCacheAssumption
<1>1. ASSUME NEW c \in Calls, Call(c) PROVE CrossInv'
  <2>1. UNCHANGED <<tpc, dpc, apc>>
    BY <1>1, CallLeaves
  <2>2. Filling' = Filling /\ Owed' = Owed
    BY <2>1 DEF Filling, Owed
  <2>3. CASE Charge(c)
    <3>1. /\ cpc[c] = "arrived" /\ cpc'[c] = "recording" /\ UNCHANGED lost
          /\ \A d \in Calls : d # c => cpc'[d] = cpc[d]
      BY <2>3 DEF TypeOK, Charge, CallMove
    <3>2. crossed' = IF Filling = {} THEN crossed ELSE crossed \cup {c}
      BY <2>3 DEF Charge, Cross
    <3>3. InFlight' = InFlight \cup {c}
      BY <3>1 DEF InFlight
    <3>4. Uneven' = Uneven \cup {c}
      BY <2>2, <3>1, <3>3 DEF Uneven, lost
    <3>5. CASE Filling = {}
      BY <1>0, <2>1, <2>2, <3>1, <3>2, <3>5 DEF CrossInv
    <3>6. CASE Filling # {}
      BY <1>0, <2>1, <2>2, <3>1, <3>2, <3>4, <3>6 DEF CrossInv
    <3> QED BY <3>5, <3>6
  <2>4. CASE ~Charge(c)
    <3>1. /\ cpc'[c] \notin {"arrived"} /\ crossed' = crossed
          /\ cpc'[c] = "rejected" => cpc[c] = "arrived"
          /\ \A d \in Calls : d # c => cpc'[d] = cpc[d]
      BY <1>1, <2>4 DEF TypeOK, Call, Reject, RecordCharge, RecordChargeFails,
             RecordChargeUnheard, RollbackRedis, RollbackRedisTwice, CallMove, past, marks
    <3>2. /\ unheard' = unheard \/ (c \in InFlight /\ unheard' = unheard \cup {c})
          /\ repeated' = repeated \/ (c \in InFlight /\ repeated' = repeated \cup {c})
          /\ InFlight' \subseteq InFlight
      <4>1. CASE RecordChargeUnheard(c)
        BY <4>1 DEF TypeOK, RecordChargeUnheard, CallMove, InFlight
      <4>2. CASE RollbackRedisTwice(c)
        BY <4>2 DEF TypeOK, RollbackRedisTwice, CallMove, InFlight
      <4>3. CASE ~RecordChargeUnheard(c) /\ ~RollbackRedisTwice(c)
        BY <1>1, <2>4, <4>3 DEF TypeOK, Call, Reject, RecordCharge, RecordChargeFails,
             RollbackRedis, CallMove, past, lost, InFlight
      <4> QED BY <4>1, <4>2, <4>3
    <3>3. Uneven' \subseteq Uneven
      BY <2>2, <3>2 DEF Uneven
    <3> QED BY <2>1, <2>2, <3>1, <3>3 DEF CrossInv
  <2> QED BY <2>3, <2>4
<1>2. ASSUME NEW t \in Topups, Topup(t) PROVE CrossInv'
  <2>1. UNCHANGED <<cpc, unheard>>
    BY <1>2, TopupLeaves
  <2>2. InFlight' = InFlight
    BY <2>1 DEF InFlight
  <2>3. /\ \A u \in Topups : u # t => tpc'[u] = tpc[u]
        /\ tpc[t] \notin {"done", "tooMuch"}
    BY <1>2 DEF TypeOK, Topup, TopupRead, TopupLoad, TopupFill, TopupFlag, TopupFillFails, TopupDb,
                TopupRedis, TopupRedisTwice, TopupMove
  <2>4. CASE TopupLoad(t)
    <3>1. /\ tpc[t] \in {"loading", "fallback"} /\ tpc'[t] \notin {"crediting", "done"}
          /\ tpc'[t] = "filling" => tpc[t] = "loading"
          /\ UNCHANGED lost
          /\ crossed' = IF tpc[t] = "loading" THEN crossed \cup Uneven ELSE crossed
      BY <2>4, CheckedType DEF TypeOK, TopupLoad, TopupMove
    <3>2. Owed' = Owed
      BY <2>3, <3>1 DEF Owed
    <3>3. Uneven' = Uneven
      BY <2>2, <3>1, <3>2 DEF Uneven, lost
    <3>4. /\ \A c \in Uneven \cap Calls : cpc[c] \notin {"arrived", "rejected"}
          /\ \A u \in Uneven \cap Topups : tpc[u] \in {"crediting", "done"}
      BY <1>0 DEF LostInv, Uneven, InFlight, Owed, TypeOK
    <3>5. CASE tpc[t] = "loading"
      BY <2>1, <2>3, <3>1, <3>3, <3>4, <3>5 DEF CrossInv
    <3>6. CASE tpc[t] = "fallback"
      <4>1. Filling' \subseteq Filling
        BY <2>3, <3>1, <3>6 DEF Filling
      <4> QED BY <2>1, <2>3, <3>1, <3>3, <3>6, <4>1 DEF CrossInv
    <3> QED BY <3>1, <3>5, <3>6
  <2>5. CASE TopupDb(t)
    <3>1. /\ tpc[t] = "checked" /\ tpc'[t] = "crediting" /\ UNCHANGED lost
          /\ crossed' = IF Filling = {} THEN crossed ELSE crossed \cup {t}
      BY <2>5 DEF TypeOK, TopupDb, TopupMove, Cross
    <3>2. Filling' = Filling /\ Owed' = Owed \cup {t}
      BY <2>3, <3>1 DEF Filling, Owed
    <3>3. Uneven' = Uneven \cup {t}
      BY <2>2, <3>1, <3>2 DEF Uneven, lost
    <3>5. CASE Filling = {}
      BY <1>0, <2>1, <2>3, <3>1, <3>2, <3>5 DEF CrossInv
    <3>6. CASE Filling # {}
      BY <1>0, <2>1, <2>3, <3>1, <3>2, <3>3, <3>6 DEF CrossInv
    <3> QED BY <3>5, <3>6
  <2>6. CASE ~TopupLoad(t) /\ ~TopupDb(t)
    <3>1. /\ crossed' = crossed /\ tpc'[t] # "filling"
          /\ tpc[t] = "crediting" => tpc'[t] = "done"
          /\ tpc'[t] # "crediting"
          /\ repeated' = repeated \/ (tpc[t] = "crediting" /\ repeated' = repeated \cup {t})
      BY <1>2, <2>6, CheckedType
      DEF TypeOK, Topup, TopupRead, TopupFill, TopupFlag, TopupFillFails,
                TopupRedis, TopupRedisTwice, TopupMove, past, marks, lost
    <3>2. Filling' \subseteq Filling /\ Owed' \subseteq Owed
      BY <2>3, <3>1 DEF Filling, Owed
    <3>3. tpc[t] = "crediting" => t \in Owed
      BY DEF Owed
    <3>4. Uneven' \subseteq Uneven
      BY <2>1, <2>2, <3>1, <3>2, <3>3 DEF Uneven
    <3> QED BY <2>1, <2>3, <3>1, <3>2, <3>4 DEF CrossInv
  <2> QED BY <2>4, <2>5, <2>6
<1>3. ASSUME UNCHANGED <<cpc, tpc, crossed, lost>> PROVE CrossInv'
  BY <1>3 DEF CrossInv, Filling, Uneven, InFlight, Owed, lost
<1>4. ASSUME NEW d \in Disputes, Dispute(d) PROVE CrossInv'
  BY <1>3, <1>4, DisputeLeaves DEF marks
<1>5. ASSUME NEW a \in Adjustments, Adjust(a) PROVE CrossInv'
  BY <1>3, <1>5 DEF Adjust, AdjustRead, AdjustWrite, AdjustRefused, AdjustReload, AdjustSet,
              AdjustMove, past, marks
<1>6. CASE Expire \/ Flush \/ UNCHANGED vars
  BY <1>3, <1>6 DEF Expire, Flush, vars, pcs, past, marks
<1> QED BY <1>1, <1>2, <1>4, <1>5, <1>6 DEF Next

-----------------------------------------------------------------------------
(***************************************************************************)
(* The lock.                                                               *)
(***************************************************************************)
LEMMA LockInit == Init => LockInv
BY DEF Init, LockInv, LockAgrees, Unlocked

\* Steps that leave the flag, the row's lock and the jobs alone.
LEMMA LockUntouched ==
    ASSUME LockInv, UNCHANGED <<lockFlag, dbLocked, tpc, dpc, fresh, overtaken>>,
           flushes' = flushes, redisFailed' = FALSE => redisFailed = FALSE,
           redisFailed \in BOOLEAN, redisFailed' \in BOOLEAN,
           \A t \in Topups : seen'[t] = seen[t]
    PROVE  LockInv'
BY DEF LockInv, LockAgrees, Unlocked

LEMMA LockTopup ==
    ASSUME TypeOK, TypeOK', LockInv, NEW t \in Topups, Topup(t)
    PROVE  LockInv'
<1>1. /\ \A u \in Topups : u # t => tpc'[u] = tpc[u]
      /\ UNCHANGED <<dpc, dbLocked, flushes>>
      /\ redisFailed' = FALSE => redisFailed = FALSE
  <2>1. redisFailed' = FALSE => redisFailed = FALSE
    BY DEF TypeOK, Topup, TopupRead, TopupLoad, TopupFill, TopupFlag, TopupFillFails, TopupDb,
           TopupRedis, TopupRedisTwice, past
  <2>2. \A u \in Topups : u # t => tpc'[u] = tpc[u]
    BY DEF TypeOK, Topup, TopupRead, TopupLoad, TopupFill, TopupFlag, TopupFillFails, TopupDb,
           TopupRedis, TopupRedisTwice, TopupMove
  <2> QED BY <2>1, <2>2, TopupLeaves
<1>2. t \notin Disputes
  BY WalletCacheAssumption
<1>3. CASE TopupLoad(t)
  <2>1. /\ seen'[t] = Row /\ \A u \in Topups : u # t => seen'[u] = seen[u]
        /\ UNCHANGED <<lockFlag, overtaken>>
    BY <1>3 DEF TopupLoad, TypeOK, redis
  <2>2. fresh' = fresh \cup {t}
    BY <1>3 DEF TopupLoad, Know
  <2> QED BY <1>1, <1>2, <2>1, <2>2 DEF TypeOK, LockInv, LockAgrees, Unlocked, Row
<1>4. CASE TopupFlag(t)
  <2>1. /\ tpc[t] = "flagging" /\ tpc'[t] \in {"checked", "tooMuch"} /\ lockFlag' = seen[t].locked
        /\ overtaken' = (t \notin fresh) /\ fresh' = fresh \ {t} /\ UNCHANGED seen
    BY <1>4, CheckedType DEF TopupFlag, TopupMove, TypeOK, WriteFlag
  <2>2. lockFlag' = dbLocked \/ overtaken'
    BY <2>1 DEF LockInv
  <2> QED BY <1>1, <1>2, <2>1, <2>2 DEF TypeOK, LockInv, LockAgrees, Unlocked
<1>5. CASE ~TopupLoad(t) /\ ~TopupFlag(t)
  <2>1. UNCHANGED <<lockFlag, seen, fresh, overtaken>>
    BY <1>5
    DEF Topup, TopupRead, TopupFill, TopupFillFails, TopupDb, TopupRedis, TopupRedisTwice,
        IncrBy, SetKey, redis, past, turns
  <2>2. tpc'[t] \in {"filling", "flagging"} => tpc[t] \in {"filling", "flagging"}
    BY <1>5, CheckedType
    DEF TypeOK, Topup, TopupRead, TopupFill, TopupFillFails, TopupDb, TopupRedis, TopupRedisTwice,
        TopupMove
  <2> QED BY <1>1, <2>1, <2>2 DEF TypeOK, LockInv, LockAgrees, Unlocked
<1> QED BY <1>3, <1>4, <1>5

LEMMA LockDispute ==
    ASSUME TypeOK, TypeOK', LockInv, NEW d \in Disputes, Dispute(d)
    PROVE  LockInv'
<1>1. /\ UNCHANGED <<tpc, seen, redisFailed, flushes>> /\ d \notin Topups
      /\ \A e \in Disputes : e # d => dpc'[e] = dpc[e]
  <2>1. \A e \in Disputes : e # d => dpc'[e] = dpc[e]
    BY DEF TypeOK, Dispute, LockDb, LockRedis, UnlockDb, UnlockRedis, FlagFails, DisputeMove
  <2> QED BY <2>1, DisputeLeaves, WalletCacheAssumption
<1>2. ASSUME NEW locked \in BOOLEAN, WriteFlag(d, locked), UNCHANGED dbLocked,
             dpc[d] \in {"locking", "unlocking"}, locked = (dpc[d] = "locking"),
             dpc'[d] \in IF locked THEN {"locked", "opened"} ELSE {"closed", "unlockAgain"}
      PROVE  LockInv'
  <2>1. lockFlag' = locked /\ overtaken' = (d \notin fresh) /\ fresh' = fresh \ {d}
    BY <1>2 DEF WriteFlag
  <2>2. lockFlag' = dbLocked \/ overtaken'
    BY <1>2, <2>1 DEF LockInv, TypeOK
  <2>3. /\ Unlocked => Unlocked'
        /\ ~locked => Unlocked'
        /\ locked => lockFlag'
    BY <1>1, <1>2, <2>1 DEF Unlocked
  <2>4. /\ \A t \in Topups \cap fresh' :
              tpc'[t] \in {"filling", "flagging"} => seen'[t].locked = dbLocked'
        /\ \A e \in Disputes \cap fresh' : dpc'[e] = "locking" => dbLocked'
        /\ \A e \in Disputes \cap fresh' : dpc'[e] = "unlocking" => ~dbLocked'
    BY <1>1, <1>2, <2>1 DEF LockInv
  <2>5. LockAgrees'
    BY <1>2, <2>2 DEF LockAgrees
  <2>6. ~Unlocked' /\ (\E e \in Disputes : dpc'[e] \in {"locking", "locked"}) => dbLocked'
    BY <1>1, <1>2, <2>3 DEF LockInv
  <2>7. flushes' = 0 /\ ~Unlocked' /\ (\E e \in Disputes : dpc'[e] = "locked")
            => lockFlag' \/ overtaken'
    BY <2>3
  <2> QED BY <2>4, <2>5, <2>6, <2>7 DEF LockInv
<1>3. CASE LockDb(d)
  <2>1. /\ dpc[d] = "opened" /\ dpc'[d] = "locking"
        /\ dbLocked' = TRUE /\ UNCHANGED <<lockFlag, overtaken>>
        /\ fresh' = (IF dbLocked THEN fresh ELSE {}) \cup {d}
    BY <1>3 DEF LockDb, DisputeMove, TypeOK, redis, Know
  <2> QED BY <1>1, <2>1 DEF TypeOK, LockInv, LockAgrees, Unlocked
<1>4. CASE UnlockDb(d)
  <2>1. /\ dpc[d] \in {"locked", "unlockAgain"} /\ dpc'[d] = "unlocking"
        /\ dbLocked' = FALSE /\ UNCHANGED <<lockFlag, overtaken>>
        /\ fresh' = (IF dbLocked THEN {} ELSE fresh) \cup {d}
    BY <1>4 DEF UnlockDb, DisputeMove, TypeOK, redis, Know
  <2> QED BY <1>1, <2>1 DEF TypeOK, LockInv, LockAgrees, Unlocked
<1>5. CASE LockRedis(d)
  <2>1. /\ dpc[d] = "locking" /\ dpc'[d] = "locked"
        /\ UNCHANGED dbLocked /\ WriteFlag(d, TRUE)
    BY <1>5 DEF LockRedis, DisputeMove, TypeOK, rows
  <2> QED BY <1>2, <2>1
<1>6. CASE UnlockRedis(d)
  <2>1. /\ dpc[d] = "unlocking" /\ dpc'[d] = "closed"
        /\ UNCHANGED dbLocked /\ WriteFlag(d, FALSE)
    BY <1>6 DEF UnlockRedis, DisputeMove, TypeOK, rows
  <2> QED BY <1>2, <2>1
<1>7. CASE FlagFails(d)
  <2>1. CASE DisputeMove(d, "locking", "opened") /\ WriteFlag(d, TRUE)
    BY <1>2, <1>7, <2>1 DEF FlagFails, DisputeMove, TypeOK, rows
  <2>2. CASE DisputeMove(d, "unlocking", "unlockAgain") /\ WriteFlag(d, FALSE)
    BY <1>2, <1>7, <2>2 DEF FlagFails, DisputeMove, TypeOK, rows
  <2>3. CASE UNCHANGED <<redis, turns>>
    <3>1. /\ \/ dpc[d] = "locking" /\ dpc'[d] = "opened"
             \/ dpc[d] = "unlocking" /\ dpc'[d] = "unlockAgain"
          /\ UNCHANGED <<dbLocked, lockFlag, fresh, overtaken>>
      BY <1>7, <2>3 DEF FlagFails, DisputeMove, TypeOK, redis, rows, turns
    <3> QED BY <1>1, <3>1 DEF TypeOK, LockInv, LockAgrees, Unlocked
  <2> QED BY <1>7, <2>1, <2>2, <2>3 DEF FlagFails
<1> QED BY <1>3, <1>4, <1>5, <1>6, <1>7 DEF Dispute

LEMMA LockStep == TypeOK /\ TypeOK' /\ LockInv /\ [Next]_vars => LockInv'
<1> SUFFICES ASSUME TypeOK, TypeOK', LockInv, [Next]_vars PROVE LockInv'
  OBVIOUS
<1>1. ASSUME NEW c \in Calls, Call(c) PROVE LockInv'
  <2>1. redisFailed' = FALSE => redisFailed = FALSE
    BY <1>1 DEF TypeOK, Call, Charge, Reject, RecordCharge, RecordChargeFails, RecordChargeUnheard,
                RollbackRedis, RollbackRedisTwice, past
  <2> QED BY <1>1, <2>1, CallLeaves, OthersLeaveJobs, LockUntouched DEF TypeOK
<1>2. ASSUME NEW a \in Adjustments, Adjust(a) PROVE LockInv'
  <2>1. a \notin Topups
    BY WalletCacheAssumption
  <2>2. /\ UNCHANGED <<lockFlag, flushes>>
        /\ redisFailed' = FALSE => redisFailed = FALSE
        /\ \A t \in Topups : seen'[t] = seen[t]
    BY <1>2, <2>1 DEF TypeOK, Adjust, AdjustRead, AdjustWrite, AdjustRefused, AdjustReload,
                      AdjustSet, redis, past
  <2> QED BY <1>2, <2>2, OthersLeaveJobs, LockUntouched DEF TypeOK
<1>3. CASE Expire
  <2>1. UNCHANGED <<lockFlag, seen, flushes, redisFailed>>
    BY <1>3 DEF Expire, past
  <2> QED BY <1>3, <2>1, OthersLeaveJobs, LockUntouched DEF TypeOK
<1>4. CASE Flush
  <2>1. flushes' # 0
    BY <1>4 DEF Flush, TypeOK
  <2>2. UNCHANGED <<seen, tpc, dpc, dbLocked, fresh>>
    BY <1>4, OthersLeaveJobs DEF Flush
  <2> QED BY <2>1, <2>2 DEF LockInv, LockAgrees, Unlocked
<1>5. CASE UNCHANGED vars
  <2>1. UNCHANGED <<lockFlag, seen, flushes, redisFailed>>
    BY <1>5 DEF vars, redis, past
  <2> QED BY <1>5, <2>1, OthersLeaveJobs, LockUntouched DEF TypeOK
<1> QED BY <1>1, <1>2, <1>3, <1>4, <1>5, LockTopup, LockDispute DEF Next

\* With any number of workers: with no dispute job under way and nothing lost,
\* the Redis flag and is_locked agree, or a job that was overtaken was the last
\* to write the flag (lockWallet, unlockWallet, bootstrapWalletCache).
THEOREM LockAgreement == Spec => []LockAgrees
<1>1. Init => TypeOK /\ LockInv
  BY TypeInit, LockInit
<1>2. (TypeOK /\ LockInv) /\ [Next]_vars => (TypeOK /\ LockInv)'
  BY TypeStep, LockStep
<1>3. LockInv => LockAgrees
  BY DEF LockInv
<1> QED BY <1>1, <1>2, <1>3, PTL DEF Spec

\* Until Redis loses its keys, or a job that was overtaken writes the flag,
\* billing.lua charges no call between the end of a lock job and the first
\* unlock, whichever fills and adjustments there are.
THEOREM LockHolds == Spec => LockedNeverCharged
<1> DEFINE Step == \A c \in Calls : cpc[c] = "arrived" /\ cpc'[c] = "recording" /\ flushes = 0
                      => Unlocked \/ overtaken \/ \A d \in Disputes : dpc[d] # "locked"
<1>1. Init => TypeOK /\ LockInv
  BY TypeInit, LockInit
<1>2. (TypeOK /\ LockInv) /\ [Next]_vars => (TypeOK /\ LockInv)'
  BY TypeStep, LockStep
<1>3. TypeOK /\ LockInv /\ [Next]_vars => [Step]_vars
  <2> SUFFICES ASSUME TypeOK, LockInv, Next, NEW c \in Calls,
                      cpc[c] = "arrived", cpc'[c] = "recording", flushes = 0
               PROVE  Unlocked \/ overtaken \/ \A d \in Disputes : dpc[d] # "locked"
    OBVIOUS
  <2>1. ~lockFlag
    <3>1. PICK b \in Calls : Call(b)
      BY TopupLeaves, DisputeLeaves
      DEF Next, Adjust, AdjustRead, AdjustWrite, AdjustRefused,
             AdjustReload, AdjustSet, AdjustMove, Expire, Flush, pcs
    <3> QED BY <3>1 DEF TypeOK, Call, Charge, Reject, RecordCharge, RecordChargeFails,
                RecordChargeUnheard, RollbackRedis, RollbackRedisTwice, CallMove
  <2> QED BY <2>1 DEF LockInv
<1> QED BY <1>1, <1>2, <1>3, PTL DEF Spec, LockedNeverCharged

-----------------------------------------------------------------------------
(***************************************************************************)
(* What each step does to the balances.                                    *)
(***************************************************************************)
SurplusOf(U, R, S) == PriceOf(U \ S) + PriceOf(R \ S) + CreditOf(R \ S)

LEMMA SurplusType ==
    ASSUME NEW U \in SUBSET Calls, NEW R \in SUBSET Named, NEW S
    PROVE  /\ SurplusOf(U, R, S) \in Nat
           /\ PriceOf(U \ S) \in Nat /\ PriceOf(R \ S) \in Nat /\ CreditOf(R \ S) \in Nat
           /\ U \ S \in SUBSET Named /\ R \ S \in SUBSET Named
<1>1. U \ S \in SUBSET Named /\ R \ S \in SUBSET Named
  BY DEF Named
<1>2. /\ PriceOf(U \ S) \in Nat /\ PriceOf(R \ S) \in Nat /\ CreditOf(R \ S) \in Nat
  BY <1>1, Sums
<1> QED BY <1>1, <1>2 DEF SurplusOf

\* One more charge that is unheard.
LEMMA SurplusUnheard ==
    ASSUME NEW U \in SUBSET Calls, NEW R \in SUBSET Named, NEW S, NEW c \in Calls \ U
    PROVE  SurplusOf(U \cup {c}, R, S) = SurplusOf(U, R, S) + IF c \in S THEN 0 ELSE Price
<1> DEFINE u == PriceOf(U \ S)
           r == PriceOf(R \ S)
           k == CreditOf(R \ S)
<1>1. u \in Nat /\ r \in Nat /\ k \in Nat /\ Price \in Nat /\ SurplusOf(U, R, S) = u + r + k
  BY SurplusType, WalletCacheAssumption DEF SurplusOf
<1>2. CASE c \in S
  <2>1. (U \cup {c}) \ S = U \ S
    BY <1>2
  <2>2. SurplusOf(U \cup {c}, R, S) = u + r + k
    BY <2>1 DEF SurplusOf
  <2> HIDE DEF u, r, k
  <2> QED BY <1>1, <1>2, <2>2
<1>3. CASE c \notin S
  <2>1. (U \cup {c}) \ S = (U \ S) \cup {c} /\ c \notin U \ S
    BY <1>3
  <2>2. PriceOf((U \ S) \cup {c}) = u + Price
    BY <2>1, SurplusType, Sums
  <2>3. SurplusOf(U \cup {c}, R, S) = (u + Price) + r + k
    BY <2>1, <2>2 DEF SurplusOf
  <2> HIDE DEF u, r, k
  <2> QED BY <1>1, <1>3, <2>3
<1> QED BY <1>2, <1>3

\* One more rollback, or one more top-up, that counted twice.
LEMMA SurplusRepeated ==
    ASSUME NEW U \in SUBSET Calls, NEW R \in SUBSET Named, NEW S, NEW x \in Named \ R
    PROVE  /\ x \in Calls =>
                 SurplusOf(U, R \cup {x}, S) = SurplusOf(U, R, S) + IF x \in S THEN 0 ELSE Price
           /\ x \in Topups =>
                 SurplusOf(U, R \cup {x}, S) = SurplusOf(U, R, S) + IF x \in S THEN 0 ELSE Credit
<1> DEFINE u == PriceOf(U \ S)
           r == PriceOf(R \ S)
           k == CreditOf(R \ S)
<1>1. /\ u \in Nat /\ r \in Nat /\ k \in Nat /\ Price \in Nat /\ Credit \in Nat
      /\ SurplusOf(U, R, S) = u + r + k
  BY SurplusType, WalletCacheAssumption DEF SurplusOf
<1>2. CASE x \in S
  <2>1. (R \cup {x}) \ S = R \ S
    BY <1>2
  <2>2. SurplusOf(U, R \cup {x}, S) = u + r + k
    BY <2>1 DEF SurplusOf
  <2> HIDE DEF u, r, k
  <2> QED BY <1>1, <1>2, <2>2
<1>3. CASE x \notin S
  <2>1. (R \cup {x}) \ S = (R \ S) \cup {x} /\ x \notin R \ S
    BY <1>3
  <2>2. SurplusOf(U, R \cup {x}, S) = u + PriceOf((R \ S) \cup {x}) + CreditOf((R \ S) \cup {x})
    BY <2>1 DEF SurplusOf
  <2>3. /\ x \in Calls => PriceOf((R \ S) \cup {x}) = r + Price /\ CreditOf((R \ S) \cup {x}) = k
        /\ x \in Topups => PriceOf((R \ S) \cup {x}) = r /\ CreditOf((R \ S) \cup {x}) = k + Credit
    BY <2>1, SurplusType, Sums
  <2> HIDE DEF u, r, k
  <2> QED BY <1>1, <1>3, <2>2, <2>3
<1> QED BY <1>2, <1>3

\* What is left out is not counted.
LEMMA SurplusLess ==
    ASSUME NEW U \in SUBSET Calls, NEW R \in SUBSET Named, NEW S, NEW T, S \subseteq T
    PROVE  /\ SurplusOf(U, R, T) <= SurplusOf(U, R, S)
           /\ U \cup R \subseteq S => SurplusOf(U, R, S) = 0
<1>1. U \ T \subseteq U \ S /\ R \ T \subseteq R \ S
  OBVIOUS
<1>2. /\ PriceOf(U \ T) <= PriceOf(U \ S) /\ PriceOf(R \ T) <= PriceOf(R \ S)
      /\ CreditOf(R \ T) <= CreditOf(R \ S)
  BY <1>1, SurplusType, Sums
<1>3. SurplusOf(U, R, T) <= SurplusOf(U, R, S)
  <2>1. /\ PriceOf(U \ T) \in Nat /\ PriceOf(R \ T) \in Nat /\ CreditOf(R \ T) \in Nat
        /\ PriceOf(U \ S) \in Nat /\ PriceOf(R \ S) \in Nat /\ CreditOf(R \ S) \in Nat
    BY SurplusType
  <2> QED BY <1>2, <2>1 DEF SurplusOf
<1>4. ASSUME U \cup R \subseteq S PROVE SurplusOf(U, R, S) = 0
  <2>1. U \ S = {} /\ R \ S = {}
    BY <1>4
  <2> QED BY <2>1, Sums DEF SurplusOf
<1> QED BY <1>3, <1>4

\* The same for the two surpluses of the state.
LEMMA Surpluses ==
    ASSUME TypeOK
    PROVE  /\ UNCHANGED lost => Left' = Left
           /\ UNCHANGED lost /\ UNCHANGED crossed => LeftEven' = LeftEven
           /\ UNCHANGED lost /\ crossed \subseteq crossed' => LeftEven' <= LeftEven
           /\ \A x : UNCHANGED lost /\ crossed' = crossed \cup {x} /\ x \notin unheard \cup repeated
                        => LeftEven' = LeftEven
           /\ unheard \cup repeated \subseteq crossed => LeftEven = 0
<1>1. unheard \in SUBSET Calls /\ repeated \in SUBSET Named
  BY DEF TypeOK, Named
<1>2. /\ Left = SurplusOf(unheard, repeated, {}) /\ LeftEven = SurplusOf(unheard, repeated, crossed)
      /\ Left' = SurplusOf(unheard', repeated', {})
      /\ LeftEven' = SurplusOf(unheard', repeated', crossed')
  BY DEF Left, LeftEven, Surplus, SurplusOf, PriceOf, CreditOf
<1>3. UNCHANGED lost => unheard' = unheard /\ repeated' = repeated
  BY DEF lost
<1>4. UNCHANGED lost => Left' = Left
  BY <1>2, <1>3
<1>5. UNCHANGED lost /\ UNCHANGED crossed => LeftEven' = LeftEven
  BY <1>2, <1>3
<1>6. UNCHANGED lost /\ crossed \subseteq crossed' => LeftEven' <= LeftEven
  BY <1>1, <1>2, <1>3, SurplusLess
<1>7. ASSUME NEW x, UNCHANGED lost, crossed' = crossed \cup {x}, x \notin unheard \cup repeated
      PROVE  LeftEven' = LeftEven
  <2>1. unheard \ crossed' = unheard \ crossed /\ repeated \ crossed' = repeated \ crossed
    BY <1>7
  <2>2. SurplusOf(unheard, repeated, crossed') = SurplusOf(unheard, repeated, crossed)
    BY <2>1 DEF SurplusOf
  <2> QED BY <1>2, <1>3, <1>7, <2>2
<1>8. unheard \cup repeated \subseteq crossed => LeftEven = 0
  BY <1>1, <1>2, SurplusLess
<1> QED BY <1>4, <1>5, <1>6, <1>7, <1>8

\* A lost reply adds to them, but for what crossed a fill.
LEMMA SurplusesGrow ==
    ASSUME TypeOK, UNCHANGED crossed
    PROVE  /\ \A c \in Calls :
                 \/ c \notin unheard /\ unheard' = unheard \cup {c} /\ repeated' = repeated
                 \/ c \notin repeated /\ repeated' = repeated \cup {c} /\ unheard' = unheard
                 => Left' = Left + Price /\ LeftEven' \in {LeftEven, LeftEven + Price}
           /\ \A t \in Topups :
                 t \notin repeated /\ repeated' = repeated \cup {t} /\ unheard' = unheard
                 => Left' = Left + Credit /\ LeftEven' \in {LeftEven, LeftEven + Credit}
<1>1. unheard \in SUBSET Calls /\ repeated \in SUBSET Named
  BY DEF TypeOK, Named
<1>2. /\ Left = SurplusOf(unheard, repeated, {}) /\ LeftEven = SurplusOf(unheard, repeated, crossed)
      /\ Left' = SurplusOf(unheard', repeated', {})
      /\ LeftEven' = SurplusOf(unheard', repeated', crossed)
  BY DEF Left, LeftEven, Surplus, SurplusOf, PriceOf, CreditOf
<1>3. \A S : SurplusOf(unheard, repeated, S) \in Nat
  BY <1>1, SurplusType
<1>4. ASSUME NEW n \in Nat, NEW x,
             \A S : SurplusOf(unheard', repeated', S) =
                       SurplusOf(unheard, repeated, S) + IF x \in S THEN 0 ELSE n
      PROVE  Left' = Left + n /\ LeftEven' \in {LeftEven, LeftEven + n}
  <2>1. Left' = Left + IF x \in {} THEN 0 ELSE n
    BY <1>2, <1>4
  <2>2. LeftEven' = LeftEven + IF x \in crossed THEN 0 ELSE n
    BY <1>2, <1>4
  <2>3. LeftEven \in Nat
    BY <1>2, <1>3
  <2> QED BY <2>1, <2>2, <2>3
<1>5. Price \in Nat /\ Credit \in Nat
  BY WalletCacheAssumption
<1>6. ASSUME NEW c \in Calls, c \notin unheard, unheard' = unheard \cup {c}, repeated' = repeated
      PROVE  Left' = Left + Price /\ LeftEven' \in {LeftEven, LeftEven + Price}
  <2>1. \A S : SurplusOf(unheard', repeated', S) =
                  SurplusOf(unheard, repeated, S) + IF c \in S THEN 0 ELSE Price
    <3> SUFFICES ASSUME NEW S
                 PROVE  SurplusOf(unheard \cup {c}, repeated, S) =
                           SurplusOf(unheard, repeated, S) + IF c \in S THEN 0 ELSE Price
      BY <1>6
    <3>1. c \in Calls \ unheard
      BY <1>6
    <3> QED BY <1>1, <3>1, SurplusUnheard
  <2> QED BY <1>4, <1>5, <2>1
<1>7. ASSUME NEW x \in Named, x \notin repeated, repeated' = repeated \cup {x}, unheard' = unheard,
             NEW n \in Nat, (x \in Calls /\ n = Price) \/ (x \in Topups /\ n = Credit)
      PROVE  Left' = Left + n /\ LeftEven' \in {LeftEven, LeftEven + n}
  <2>1. \A S : SurplusOf(unheard', repeated', S) =
                  SurplusOf(unheard, repeated, S) + IF x \in S THEN 0 ELSE n
    <3> SUFFICES ASSUME NEW S
                 PROVE  SurplusOf(unheard, repeated \cup {x}, S) =
                           SurplusOf(unheard, repeated, S) + IF x \in S THEN 0 ELSE n
      BY <1>7
    <3>1. x \in Named \ repeated
      BY <1>7
    <3> QED BY <1>1, <1>7, <3>1, SurplusRepeated
  <2> QED BY <1>4, <2>1
<1>8. Calls \subseteq Named /\ Topups \subseteq Named
  BY DEF Named
<1> QED BY <1>5, <1>6, <1>7, <1>8

\* What is added to the spendable balance, to the sums in flight and owed, to
\* the row, to what lost replies left and to what calls may have taken.
Changes(b, f, o, d, s, n) ==
    /\ Balance' = Balance + b /\ InFlightSum' = InFlightSum + f /\ OwedSum' = OwedSum + o
    /\ db' = db + d /\ Left' = Left + s /\ TakenSum' = TakenSum + n

Unspent == Changes(0, 0, 0, 0, 0, 0) /\ UNCHANGED <<key, lost>>

\* Nothing crosses a fill, and the lost replies that did not are n more.
Uncrossed(n) ==
    UNCHANGED <<CrossedPrice, CrossedTopup>> /\ LeftEven' \in {LeftEven, LeftEven + n}

LEMMA CallEffect ==
    ASSUME TypeOK, LostInv, CrossInv, NEW c \in Calls, Call(c)
    PROVE  /\ UNCHANGED <<tpc, dpc, apc, seen, flushes, expiring, Filling, Adjusted>>
           /\ redisFailed' = FALSE => redisFailed = FALSE
           /\ \A d \in Calls : d # c => cpc'[d] = cpc[d]
           /\ \/ /\ Changes(-Price, Price, 0, 0, 0, Price) /\ Balance >= Price
                 /\ key # Absent /\ key' # Absent
                 /\ LeftEven' = LeftEven /\ CrossedTopup' = CrossedTopup
                 /\ CrossedPrice' = IF Filling = {} THEN CrossedPrice ELSE CrossedPrice + Price
              \/ Unspent /\ Uncrossed(0) /\ cpc[c] = "arrived" /\ cpc'[c] = "rejected"
              \/ /\ c \in InFlight
                 /\ \/ /\ Changes(0, -Price, 0, -Price, 0, -Price) /\ UNCHANGED key
                       /\ Uncrossed(0)
                    \/ Unspent /\ Uncrossed(0)
                    \/ Changes(0, 0, 0, -Price, Price, 0) /\ UNCHANGED key /\ Uncrossed(Price)
                    \/ Changes(Price, -Price, 0, 0, 0, 0) /\ key' # Absent /\ Uncrossed(0)
                    \/ /\ Changes(0, -Price, 0, 0, 0, -Price) /\ UNCHANGED key /\ redisFailed'
                       /\ Uncrossed(0)
                    \/ Changes(2 * Price, -Price, 0, 0, Price, 0) /\ key' # Absent /\ Uncrossed(Price)
<1>1. /\ Price \in Nat /\ Price > 0 /\ Absent \notin Int /\ -Price \in Int /\ 2 * Price \in Int
      /\ InFlightSum \in Nat /\ OwedSum \in Nat /\ TakenSum \in Nat /\ Left \in Nat
      /\ LeftEven \in Nat /\ Balance \in Int /\ db \in Int
  BY Amounts, WalletCacheAssumption DEF AmountsOK
<1>2. /\ UNCHANGED <<tpc, dpc, apc, seen, flushes, expiring>>
      /\ redisFailed' = FALSE => redisFailed = FALSE
  <2>1. redisFailed' = FALSE => redisFailed = FALSE
    BY DEF TypeOK, Call, Charge, Reject, RecordCharge, RecordChargeFails, RecordChargeUnheard,
           RollbackRedis, RollbackRedisTwice, past
  <2> QED BY <2>1, CallLeaves
<1>3. OwedSum' = OwedSum /\ UNCHANGED <<Filling, Adjusted>>
  BY <1>2 DEF Adjusted, OwedSum, Owed, Filling, CreditOf
<1>4. UNCHANGED key => Balance' = Balance
  BY DEF Balance
<1>5. \A d \in Calls : d # c => cpc'[d] = cpc[d]
  BY DEF TypeOK, Call, Charge, Reject, RecordCharge, RecordChargeFails, RecordChargeUnheard,
         RollbackRedis, RollbackRedisTwice, CallMove
<1>6. UNCHANGED crossed => UNCHANGED <<CrossedPrice, CrossedTopup>>
  BY DEF CrossedPrice, CrossedTopup, PriceOf, CreditOf
<1>7. UNCHANGED crossed /\ UNCHANGED lost => Left' = Left /\ Uncrossed(0)
  BY <1>6, Surpluses DEF Uncrossed
<1>8. \A n \in Int : IncrBy(n) => key' # Absent /\ Balance' = Balance + n
  BY <1>1, IncrByType
<1>9. CASE Charge(c)
  <2>1. /\ CallMove(c, "arrived", "recording") /\ UNCHANGED <<lost, db>> /\ IncrBy(-Price)
        /\ crossed' = IF Filling = {} THEN crossed ELSE crossed \cup {c}
    BY <1>9 DEF Charge, rows, Cross
  <2>2. Balance >= Price /\ key # Absent
    BY <1>1, <1>9 DEF Charge, Balance
  <2>3. Balance' = Balance - Price /\ key' # Absent
    BY <1>1, <1>8, <2>1
  <2>4. InFlightSum' = InFlightSum + Price /\ TakenSum' = TakenSum + Price
    BY <2>1, CallMoves DEF CallState, Flying, Gone
  <2>5. Changes(-Price, Price, 0, 0, 0, Price)
    <3>1. Left' = Left
      BY <2>1, Surpluses
    <3> QED BY <1>1, <1>3, <2>1, <2>3, <2>4, <3>1 DEF Changes
  <2>6. c \notin unheard \cup repeated \cup crossed
    BY <2>1 DEF CallMove, LostInv, CrossInv
  <2>7. LeftEven' = LeftEven
    BY <2>1, <2>6, Surpluses
  <2>8. /\ CrossedPrice' = PriceOf(crossed') /\ CrossedPrice = PriceOf(crossed)
        /\ CrossedTopup' = CreditOf(crossed') /\ CrossedTopup = CreditOf(crossed)
    BY DEF CrossedPrice, CrossedTopup, PriceOf, CreditOf
  <2>9. /\ CrossedPrice' = IF Filling = {} THEN CrossedPrice ELSE CrossedPrice + Price
        /\ CrossedTopup' = CrossedTopup
    <3>1. crossed \in SUBSET Named
      BY DEF TypeOK, Named
    <3>2. /\ PriceOf(crossed \cup {c}) = PriceOf(crossed) + Price
          /\ CreditOf(crossed \cup {c}) = CreditOf(crossed)
      BY <2>6, <3>1, Sums
    <3> QED BY <2>1, <2>8, <3>2
  <2> QED BY <1>2, <1>3, <1>5, <2>2, <2>3, <2>5, <2>7, <2>9
<1>10. CASE Reject(c)
  <2>1. CallMove(c, "arrived", "rejected") /\ UNCHANGED <<key, db, lost, crossed>>
    BY <1>10 DEF Reject, redis, rows, past, marks
  <2>2. /\ cpc[c] = "arrived" /\ cpc'[c] = "rejected"
        /\ InFlightSum' = InFlightSum /\ TakenSum' = TakenSum
    BY <2>1, CallMoves DEF CallState, Flying, Gone
  <2>3. Unspent /\ Uncrossed(0)
    BY <1>1, <1>3, <1>4, <1>7, <2>1, <2>2 DEF Changes, Unspent
  <2> QED BY <1>2, <1>3, <1>5, <2>2, <2>3
<1>11. CASE RecordCharge(c)
  <2>1. /\ CallMove(c, "recording", "charged") /\ UNCHANGED <<key, lost, crossed>>
        /\ db' = db + (-Price)
    BY <1>11 DEF RecordCharge, Record, redis
  <2>2. c \in InFlight /\ InFlightSum' = InFlightSum - Price /\ TakenSum' = TakenSum - Price
    BY <2>1, CallMoves DEF CallState, Flying, Gone
  <2>3. Changes(0, -Price, 0, -Price, 0, -Price) /\ Uncrossed(0)
    BY <1>1, <1>3, <1>4, <1>7, <2>1, <2>2 DEF Changes
  <2> QED BY <1>2, <1>3, <1>5, <2>1, <2>2, <2>3
<1>12. CASE RecordChargeFails(c)
  <2>1. CallMove(c, "recording", "unwinding") /\ UNCHANGED <<key, db, lost, crossed>>
    BY <1>12 DEF RecordChargeFails, redis, rows, past, marks
  <2>2. c \in InFlight /\ InFlightSum' = InFlightSum /\ TakenSum' = TakenSum
    BY <2>1, CallMoves DEF CallState, Flying, Gone
  <2>3. Unspent /\ Uncrossed(0)
    BY <1>1, <1>3, <1>4, <1>7, <2>1, <2>2 DEF Changes, Unspent
  <2> QED BY <1>2, <1>3, <1>5, <2>2, <2>3
<1>13. CASE RecordChargeUnheard(c)
  <2>1. /\ CallMove(c, "recording", "unwinding") /\ UNCHANGED <<key, crossed>>
        /\ db' = db + (-Price)
        /\ unheard' = unheard \cup {c} /\ repeated' = repeated
    BY <1>13 DEF RecordChargeUnheard, Record, redis
  <2>2. c \in InFlight /\ InFlightSum' = InFlightSum /\ TakenSum' = TakenSum
    BY <2>1, CallMoves DEF CallState, Flying, Gone
  <2>3. c \notin unheard
    BY <2>1 DEF LostInv, CallMove
  <2>4. Left' = Left + Price /\ Uncrossed(Price)
    BY <1>6, <2>1, <2>3, SurplusesGrow DEF Uncrossed
  <2>5. Changes(0, 0, 0, -Price, Price, 0)
    BY <1>1, <1>3, <1>4, <2>1, <2>2, <2>4 DEF Changes
  <2> QED BY <1>2, <1>3, <1>5, <2>1, <2>2, <2>4, <2>5
<1>14. CASE RollbackRedis(c)
  <2>1. UNCHANGED <<lost, db, crossed>>
    BY <1>14 DEF RollbackRedis, rows, marks
  <2>2. CASE CallMove(c, "unwinding", "undone") /\ IncrBy(Price)
    <3>1. c \in InFlight /\ InFlightSum' = InFlightSum - Price /\ TakenSum' = TakenSum
      BY <2>2, CallMoves DEF CallState, Flying, Gone
    <3>2. Balance' = Balance + Price /\ key' # Absent
      BY <1>1, <1>8, <2>2
    <3>3. Changes(Price, -Price, 0, 0, 0, 0) /\ Uncrossed(0)
      BY <1>1, <1>3, <1>7, <2>1, <3>1, <3>2 DEF Changes
    <3> QED BY <1>2, <1>3, <1>5, <3>1, <3>2, <3>3
  <2>3. CASE CallMove(c, "unwinding", "leaked") /\ UNCHANGED redis /\ redisFailed' = TRUE
    <3>1. c \in InFlight /\ InFlightSum' = InFlightSum - Price /\ TakenSum' = TakenSum - Price
      BY <2>3, CallMoves DEF CallState, Flying, Gone
    <3>2. UNCHANGED key
      BY <2>3 DEF redis
    <3>3. Changes(0, -Price, 0, 0, 0, -Price) /\ Uncrossed(0)
      BY <1>1, <1>3, <1>4, <1>7, <2>1, <3>1, <3>2 DEF Changes
    <3> QED BY <1>2, <1>3, <1>5, <2>3, <3>1, <3>2, <3>3
  <2> QED BY <1>14, <2>2, <2>3 DEF RollbackRedis
<1>15. CASE RollbackRedisTwice(c)
  <2>1. /\ CallMove(c, "unwinding", "undone") /\ IncrBy(2 * Price) /\ UNCHANGED <<db, crossed>>
        /\ repeated' = repeated \cup {c} /\ unheard' = unheard
    BY <1>15 DEF RollbackRedisTwice, rows, marks
  <2>2. c \in InFlight /\ InFlightSum' = InFlightSum - Price /\ TakenSum' = TakenSum
    BY <2>1, CallMoves DEF CallState, Flying, Gone
  <2>3. c \notin repeated
    BY <2>1 DEF LostInv, CallMove
  <2>4. Left' = Left + Price /\ Uncrossed(Price)
    BY <1>6, <2>1, <2>3, SurplusesGrow DEF Uncrossed
  <2>5. Balance' = Balance + 2 * Price /\ key' # Absent
    BY <1>1, <1>8, <2>1
  <2>6. Changes(2 * Price, -Price, 0, 0, Price, 0)
    BY <1>1, <1>3, <2>1, <2>2, <2>4, <2>5 DEF Changes
  <2> QED BY <1>2, <1>3, <1>5, <2>2, <2>4, <2>5, <2>6
<1> QED BY <1>9, <1>10, <1>11, <1>12, <1>13, <1>14, <1>15 DEF Call

\* By how much what crossed grows, and what lost replies left besides.
Crosses(x, y, e) ==
    /\ CrossedPrice' = CrossedPrice + x /\ CrossedTopup' = CrossedTopup + y
    /\ LeftEven' = LeftEven + e

\* A reading of the row: what is uneven crosses the fill that follows.
Widens(x, y, e) ==
    /\ Crosses(x, y, e) /\ e <= 0
    /\ InFlightSum <= CrossedPrice + x /\ OwedSum <= CrossedTopup + y

\* What a step of a top-up may be.
TopupReads(t) ==
    /\ Unspent /\ Uncrossed(0) /\ seen'[t] = seen[t] /\ tpc[t] = "queued"
    /\ \/ tpc'[t] = Checked(key) /\ key # Absent /\ WorkerFree
       \/ tpc'[t] = "loading" /\ key = Absent
TopupReadsOn(t) ==
    /\ Unspent /\ Uncrossed(0)
    /\ \/ tpc[t] = "flagging" /\ tpc'[t] = Checked(seen[t].cents) /\ seen'[t] = seen[t]
       \/ tpc[t] = "fallback" /\ tpc'[t] = Checked(db)
TopupFails(t) ==
    /\ redisFailed'
    /\ \/ /\ Unspent /\ Uncrossed(0) /\ seen'[t] = seen[t]
          /\ \/ tpc[t] = "queued" /\ tpc'[t] = "fallback"
             \/ tpc[t] \in {"filling", "flagging"} /\ tpc'[t] \in {"checked", "tooMuch"}
       \/ /\ tpc[t] = "crediting" /\ tpc'[t] = "done" /\ seen'[t] = seen[t]
          /\ Changes(0, 0, -Credit, 0, 0, 0) /\ UNCHANGED key /\ Uncrossed(0)
TopupLoads(t) ==
    /\ Unspent /\ seen'[t].cents = db /\ tpc[t] = "loading" /\ tpc'[t] = "filling"
    /\ \E x, y \in Nat, e \in Int : Widens(x, y, e)
TopupFills(t) ==
    /\ tpc[t] = "filling" /\ tpc'[t] = "flagging" /\ seen'[t] = seen[t]
    /\ key' = seen[t].cents /\ UNCHANGED <<db, lost>> /\ Uncrossed(0)
    /\ UNCHANGED <<InFlightSum, OwedSum, Left, TakenSum>>
TopupCredits(t) ==
    /\ tpc[t] = "checked" /\ tpc'[t] = "crediting" /\ seen'[t] = seen[t]
    /\ Changes(0, 0, Credit, Credit, 0, 0) /\ UNCHANGED <<key, lost>>
    /\ LeftEven' = LeftEven /\ CrossedPrice' = CrossedPrice
    /\ CrossedTopup' = IF Filling = {} THEN CrossedTopup ELSE CrossedTopup + Credit
TopupPays(t) ==
    /\ tpc[t] = "crediting" /\ tpc'[t] = "done" /\ seen'[t] = seen[t] /\ key' # Absent
    /\ \/ Changes(Credit, 0, -Credit, 0, 0, 0) /\ Uncrossed(0)
       \/ Changes(2 * Credit, 0, -Credit, 0, Credit, 0) /\ Uncrossed(Credit)

LEMMA TopupEffect ==
    ASSUME TypeOK, TypeOK', LostInv, CrossInv, NEW t \in Topups, Topup(t)
    PROVE  /\ UNCHANGED <<cpc, dpc, apc, flushes, Adjusted, InFlight>>
           /\ redisFailed' = FALSE => redisFailed = FALSE
           /\ expiring' = TRUE => expiring = TRUE
           /\ \A u \in Topups : u # t => tpc'[u] = tpc[u] /\ seen'[u] = seen[u]
           /\ \/ TopupReads(t) \/ TopupReadsOn(t) \/ TopupFails(t) \/ TopupLoads(t)
              \/ TopupFills(t) \/ TopupCredits(t) \/ TopupPays(t)
<1>1. /\ Credit \in Nat /\ Credit > 0 /\ Absent \notin Int /\ 2 * Credit \in Int
      /\ InFlightSum \in Nat /\ OwedSum \in Nat /\ TakenSum \in Nat /\ Left \in Nat
      /\ LeftEven \in Nat /\ Balance \in Int /\ db \in Int
  BY Amounts, WalletCacheAssumption DEF AmountsOK
<1>2. UNCHANGED <<cpc, dpc, apc, flushes>>
  BY TopupLeaves
<1>3. /\ redisFailed' = FALSE => redisFailed = FALSE
      /\ expiring' = TRUE => expiring = TRUE
  <2>1. redisFailed' = FALSE => redisFailed = FALSE
    BY DEF TypeOK, Topup, TopupRead, TopupLoad, TopupFill, TopupFlag, TopupFillFails, TopupDb,
           TopupRedis, TopupRedisTwice, past
  <2>2. expiring' = TRUE => expiring = TRUE
    BY DEF TypeOK, Topup, TopupRead, TopupLoad, TopupFill, TopupFlag, TopupFillFails, TopupDb,
           TopupRedis, TopupRedisTwice, IncrBy, SetKey, WriteFlag, redis
  <2> QED BY <2>1, <2>2
<1>4. UNCHANGED <<InFlight, InFlightSum, TakenSum, Adjusted>>
  BY <1>2 DEF Adjusted, InFlight, InFlightSum, TakenSum, Taken, PriceOf
<1>5. UNCHANGED key => Balance' = Balance
  BY DEF Balance
<1>6. UNCHANGED crossed => UNCHANGED <<CrossedPrice, CrossedTopup>>
  BY DEF CrossedPrice, CrossedTopup, PriceOf, CreditOf
<1>7. UNCHANGED crossed /\ UNCHANGED lost => Left' = Left /\ Uncrossed(0)
  BY <1>6, Surpluses DEF Uncrossed
<1>8. /\ \A u \in Topups : u # t => tpc'[u] = tpc[u] /\ seen'[u] = seen[u]
      /\ ~TopupLoad(t) => seen' = seen
  <2>1. \A u \in Topups : u # t => tpc'[u] = tpc[u]
    BY DEF TypeOK, Topup, TopupRead, TopupLoad, TopupFill, TopupFlag, TopupFillFails, TopupDb,
           TopupRedis, TopupRedisTwice, TopupMove
  <2>2. ~TopupLoad(t) => seen' = seen
    BY DEF Topup, TopupRead, TopupFill, TopupFlag, TopupFillFails, TopupDb,
           TopupRedis, TopupRedisTwice
  <2>3. TopupLoad(t) => seen' = [seen EXCEPT ![t] = Row]
    BY DEF TopupLoad
  <2> QED BY <2>1, <2>2, <2>3 DEF TypeOK
<1>9. \A from, to \in TopupState : TopupMove(t, from, to) =>
         /\ tpc[t] = from /\ tpc'[t] = to
         /\ from # "crediting" /\ to # "crediting" => OwedSum' = OwedSum
         /\ from # "crediting" /\ to = "crediting" => OwedSum' = OwedSum + Credit
         /\ from = "crediting" /\ to # "crediting" => OwedSum' = OwedSum - Credit
  BY TopupMoves
<1>10. \A n \in Int : IncrBy(n) => key' # Absent /\ Balance' = Balance + n
  BY <1>1, IncrByType
<1>11. \A n : Checked(n) \in {"tooMuch", "checked"} /\ Checked(n) \in TopupState
  BY CheckedType DEF TopupState
<1> DEFINE Rest == /\ UNCHANGED <<cpc, dpc, apc, flushes, Adjusted, InFlight>>
                   /\ redisFailed' = FALSE => redisFailed = FALSE
                   /\ expiring' = TRUE => expiring = TRUE
                   /\ \A u \in Topups : u # t => tpc'[u] = tpc[u] /\ seen'[u] = seen[u]
<1>12. Rest
  BY <1>2, <1>3, <1>4, <1>8
<1>13. ASSUME UNCHANGED <<key, db, lost, OwedSum>> PROVE Unspent
  BY <1>1, <1>4, <1>5, <1>13, Surpluses DEF Unspent, Changes
<1> HIDE DEF Rest
<1>14. CASE TopupRead(t)
  <2>1. UNCHANGED <<key, db, lost, crossed>> /\ WorkerFree /\ seen' = seen
    BY <1>14 DEF TopupRead, redis, rows, marks
  <2>2. /\ OwedSum' = OwedSum
        /\ \/ tpc[t] = "queued" /\ tpc'[t] = Checked(key) /\ key # Absent
           \/ tpc[t] = "queued" /\ tpc'[t] = "loading" /\ key = Absent
           \/ tpc[t] = "queued" /\ tpc'[t] = "fallback"
    BY <1>9, <1>11, <1>14 DEF TopupRead, TopupState
  <2>3. tpc'[t] = "fallback" => redisFailed'
    BY <1>14 DEF TopupRead
  <2>4. Unspent /\ Uncrossed(0)
    BY <1>7, <1>13, <2>1, <2>2
  <2> QED BY <1>12, <2>1, <2>2, <2>3, <2>4 DEF Rest, TopupReads, TopupFails
<1>15. CASE TopupLoad(t)
  <2>1. UNCHANGED <<key, db, lost>> /\ seen'[t].cents = db
    BY <1>15 DEF TopupLoad, redis, rows, Row, TypeOK
  <2>2. /\ OwedSum' = OwedSum
        /\ \/ tpc[t] = "loading" /\ tpc'[t] = "filling"
           \/ tpc[t] = "fallback" /\ tpc'[t] = Checked(db)
    BY <1>9, <1>11, <1>15 DEF TopupLoad, TopupState
  <2>3. Unspent
    BY <1>13, <2>1, <2>2
  <2>4. CASE tpc[t] = "fallback"
    <3>1. crossed' = crossed
      BY <1>15, <2>4 DEF TopupLoad
    <3> QED BY <1>7, <1>12, <2>1, <2>2, <2>3, <2>4, <3>1 DEF Rest, TopupReadsOn
  <2>5. CASE tpc[t] = "loading"
    <3>1. crossed' = crossed \cup Uneven
      BY <1>15, <2>5 DEF TopupLoad
    <3>2. crossed \subseteq crossed' /\ InFlight \subseteq crossed' /\ Owed \subseteq crossed'
      BY <3>1 DEF Uneven
    <3>3. /\ crossed \in SUBSET Named /\ crossed' \in SUBSET Named
          /\ InFlight \in SUBSET Named /\ Owed \in SUBSET Named
      BY DEF TypeOK, Named, InFlight, Owed
    <3>4. /\ CrossedPrice' = PriceOf(crossed') /\ CrossedPrice = PriceOf(crossed)
          /\ CrossedTopup' = CreditOf(crossed') /\ CrossedTopup = CreditOf(crossed)
          /\ InFlightSum = PriceOf(InFlight) /\ OwedSum = CreditOf(Owed)
      BY DEF CrossedPrice, CrossedTopup, InFlightSum, OwedSum, PriceOf, CreditOf
    <3>5. /\ PriceOf(crossed) <= PriceOf(crossed') /\ CreditOf(crossed) <= CreditOf(crossed')
          /\ PriceOf(InFlight) <= PriceOf(crossed') /\ CreditOf(Owed) <= CreditOf(crossed')
      BY <3>2, <3>3, Sums
    <3>6. /\ PriceOf(crossed) \in Nat /\ CreditOf(crossed) \in Nat /\ PriceOf(crossed') \in Nat
          /\ CreditOf(crossed') \in Nat /\ PriceOf(InFlight) \in Nat /\ CreditOf(Owed) \in Nat
      BY <3>3, Sums
    <3>7. LeftEven' <= LeftEven
      BY <2>1, <3>2, Surpluses
    <3> DEFINE x == PriceOf(crossed') - PriceOf(crossed)
               y == CreditOf(crossed') - CreditOf(crossed)
               e == LeftEven' - LeftEven
    <3>8. x \in Nat /\ y \in Nat
      BY <3>5, <3>6
    <3>9. e \in Int /\ e <= 0
      BY <1>1, <3>7, AmountsNext DEF AmountsOK
    <3>10. Crosses(x, y, e)
      BY <1>1, <3>4, <3>6, AmountsNext DEF AmountsOK, Crosses
    <3>11. InFlightSum <= CrossedPrice + x /\ OwedSum <= CrossedTopup + y
      BY <3>4, <3>5, <3>6
    <3> HIDE DEF x, y, e
    <3>12. \E p, q \in Nat, r \in Int : Widens(p, q, r)
      BY <3>8, <3>9, <3>10, <3>11 DEF Widens
    <3> QED BY <1>12, <2>1, <2>2, <2>3, <2>5, <3>12 DEF Rest, TopupLoads
  <2> QED BY <2>2, <2>4, <2>5
<1>16. CASE TopupFill(t)
  <2>1. UNCHANGED <<db, lost, seen, crossed>> /\ key' = seen[t].cents
    BY <1>16 DEF TopupFill, SetKey, rows, past, marks
  <2>2. OwedSum' = OwedSum /\ tpc[t] = "filling" /\ tpc'[t] = "flagging"
    BY <1>9, <1>16 DEF TopupFill, TopupState
  <2> QED BY <1>4, <1>7, <1>12, <2>1, <2>2 DEF Rest, TopupFills
<1>17. CASE TopupFlag(t)
  <2>1. UNCHANGED <<key, db, lost, seen, crossed>>
    BY <1>17 DEF TopupFlag, WriteFlag, rows, marks
  <2>2. OwedSum' = OwedSum /\ tpc[t] = "flagging" /\ tpc'[t] = Checked(seen[t].cents)
    BY <1>9, <1>11, <1>17 DEF TopupFlag, TopupState
  <2>3. Unspent /\ Uncrossed(0)
    BY <1>7, <1>13, <2>1, <2>2
  <2> QED BY <1>12, <2>1, <2>2, <2>3 DEF Rest, TopupReadsOn
<1>18. CASE TopupFillFails(t)
  <2>1. UNCHANGED <<key, db, lost, seen, crossed>> /\ redisFailed'
    BY <1>18 DEF TopupFillFails, redis, rows, marks
  <2>2. /\ OwedSum' = OwedSum /\ tpc[t] \in {"filling", "flagging"}
        /\ tpc'[t] \in {"checked", "tooMuch"}
    BY <1>9, <1>11, <1>18 DEF TopupFillFails, TopupState
  <2>3. Unspent /\ Uncrossed(0)
    BY <1>7, <1>13, <2>1, <2>2
  <2> QED BY <1>12, <2>1, <2>2, <2>3 DEF Rest, TopupFails
<1>19. CASE TopupDb(t)
  <2>1. /\ UNCHANGED <<key, lost, seen>> /\ db' = db + Credit
        /\ crossed' = IF Filling = {} THEN crossed ELSE crossed \cup {t}
    BY <1>19 DEF TopupDb, Record, Cross, redis
  <2>2. OwedSum' = OwedSum + Credit /\ tpc[t] = "checked" /\ tpc'[t] = "crediting"
    BY <1>9, <1>19 DEF TopupDb, TopupState
  <2>3. Changes(0, 0, Credit, Credit, 0, 0)
    BY <1>1, <1>4, <1>5, <2>1, <2>2, Surpluses DEF Changes
  <2>4. t \notin unheard \cup repeated \cup crossed
    BY <2>2, WalletCacheAssumption DEF LostInv, CrossInv, TypeOK
  <2>5. LeftEven' = LeftEven
    BY <2>1, <2>4, Surpluses
  <2>6. /\ CrossedPrice' = PriceOf(crossed') /\ CrossedPrice = PriceOf(crossed)
        /\ CrossedTopup' = CreditOf(crossed') /\ CrossedTopup = CreditOf(crossed)
    BY DEF CrossedPrice, CrossedTopup, PriceOf, CreditOf
  <2>7. /\ CrossedTopup' = IF Filling = {} THEN CrossedTopup ELSE CrossedTopup + Credit
        /\ CrossedPrice' = CrossedPrice
    <3>1. crossed \in SUBSET Named
      BY DEF TypeOK, Named
    <3>2. /\ CreditOf(crossed \cup {t}) = CreditOf(crossed) + Credit
          /\ PriceOf(crossed \cup {t}) = PriceOf(crossed)
      BY <2>4, <3>1, Sums
    <3> QED BY <2>1, <2>6, <3>2
  <2> QED BY <1>12, <2>1, <2>2, <2>3, <2>5, <2>7 DEF Rest, TopupCredits
<1>20. CASE TopupRedis(t)
  <2>1. UNCHANGED <<db, lost, seen, crossed>>
    BY <1>20 DEF TopupRedis, rows, marks
  <2>2. OwedSum' = OwedSum - Credit /\ tpc[t] = "crediting" /\ tpc'[t] = "done"
    BY <1>9, <1>20 DEF TopupRedis, TopupState
  <2>3. CASE IncrBy(Credit)
    <3>1. Changes(Credit, 0, -Credit, 0, 0, 0) /\ key' # Absent
      BY <1>1, <1>4, <1>7, <1>10, <2>1, <2>2, <2>3 DEF Changes
    <3> QED BY <1>7, <1>12, <2>1, <2>2, <3>1 DEF Rest, TopupPays
  <2>4. CASE UNCHANGED redis /\ redisFailed' = TRUE
    <3>1. UNCHANGED key
      BY <2>4 DEF redis
    <3>2. Changes(0, 0, -Credit, 0, 0, 0)
      BY <1>1, <1>4, <1>5, <1>7, <2>1, <2>2, <3>1 DEF Changes
    <3> QED BY <1>7, <1>12, <2>1, <2>2, <2>4, <3>1, <3>2 DEF Rest, TopupFails
  <2> QED BY <1>20, <2>3, <2>4 DEF TopupRedis
<1>21. CASE TopupRedisTwice(t)
  <2>1. /\ UNCHANGED <<db, seen, crossed>> /\ IncrBy(2 * Credit)
        /\ repeated' = repeated \cup {t} /\ unheard' = unheard
    BY <1>21 DEF TopupRedisTwice, rows, marks
  <2>2. OwedSum' = OwedSum - Credit /\ tpc[t] = "crediting" /\ tpc'[t] = "done"
    BY <1>9, <1>21 DEF TopupRedisTwice, TopupState
  <2>3. t \notin repeated
    BY <2>2 DEF LostInv
  <2>4. Left' = Left + Credit /\ Uncrossed(Credit)
    BY <1>6, <2>1, <2>3, SurplusesGrow DEF Uncrossed
  <2>5. Changes(2 * Credit, 0, -Credit, 0, Credit, 0) /\ key' # Absent
    BY <1>1, <1>4, <1>10, <2>1, <2>2, <2>4 DEF Changes
  <2> QED BY <1>12, <2>1, <2>2, <2>4, <2>5 DEF Rest, TopupPays
<1> QED BY <1>14, <1>15, <1>16, <1>17, <1>18, <1>19, <1>20, <1>21 DEF Topup

\* Dispute jobs, and adjustments up to their write, leave the balances alone.
LEMMA OthersLeaveBalances ==
    ASSUME TypeOK,
           \/ \E d \in Disputes : Dispute(d)
           \/ \E a \in Adjustments : Adjust(a) /\ ~Adjusted'
           \/ UNCHANGED vars
    PROVE  /\ UNCHANGED <<key, expiring, db, ledger, cpc, tpc, redisFailed, flushes, lost, marks>>
           /\ \A t \in Topups : seen'[t] = seen[t]
           /\ Adjusted' => Adjusted
<1>1. CASE \E d \in Disputes : Dispute(d)
  <2>1. /\ UNCHANGED <<key, expiring, db, ledger, cpc, tpc, redisFailed, flushes, lost, marks>>
        /\ UNCHANGED <<apc, seen>>
    BY <1>1, DisputeLeaves
  <2> QED BY <2>1 DEF Adjusted
<1>2. ASSUME NEW a \in Adjustments, Adjust(a), ~Adjusted'
      PROVE  /\ UNCHANGED <<key, expiring, db, ledger, cpc, tpc, redisFailed, flushes, lost, marks>>
             /\ \A t \in Topups : seen'[t] = seen[t]
             /\ Adjusted' => Adjusted
  <2>1. AdjustRead(a) \/ AdjustRefused(a)
    BY <1>2 DEF TypeOK, Adjusted, Adjust, AdjustWrite, AdjustReload, AdjustSet, AdjustMove
  <2>2. UNCHANGED <<key, expiring, db, ledger, cpc, tpc, redisFailed, flushes, lost, marks>>
    BY <2>1 DEF AdjustRead, AdjustRefused, AdjustMove, redis, rows, past
  <2>3. seen' = seen \/ seen' = [seen EXCEPT ![a] = Row]
    BY <2>1 DEF AdjustRead, AdjustRefused
  <2>4. a \notin Topups
    BY WalletCacheAssumption
  <2> QED BY <1>2, <2>2, <2>3, <2>4 DEF TypeOK
<1>3. CASE UNCHANGED vars
  BY <1>3 DEF vars, redis, rows, pcs, past, Adjusted
<1> QED BY <1>1, <1>2, <1>3

\* What depends on the variables named in OthersLeaveBalances.
LEMMA SameBalances ==
    ASSUME UNCHANGED <<db, cpc, tpc, lost, marks>>
    PROVE  /\ UNCHANGED <<InFlight, InFlightSum, Owed, OwedSum, TakenSum>>
           /\ UNCHANGED <<CrossedPrice, CrossedTopup, Left, LeftEven>>
<1>1. UNCHANGED <<crossed, unheard, repeated>>
  BY DEF lost, marks
<1>2. UNCHANGED <<InFlight, InFlightSum, Owed, OwedSum, TakenSum>>
  BY DEF InFlight, InFlightSum, OwedSum, Owed, TakenSum, Taken, PriceOf, CreditOf
<1>3. UNCHANGED <<CrossedPrice, CrossedTopup, Left, LeftEven>>
  BY <1>1 DEF CrossedPrice, CrossedTopup, Left, LeftEven, Surplus, PriceOf, CreditOf
<1> QED BY <1>2, <1>3

\* An adjustment that was written stays written.
LEMMA AdjustedStays ==
    ASSUME TypeOK, [Next]_vars, Adjusted
    PROVE  Adjusted'
<1>1. CASE \E a \in Adjustments : Adjust(a)
  BY <1>1 DEF TypeOK, Adjusted, Adjust, AdjustRead, AdjustWrite, AdjustRefused, AdjustReload,
              AdjustSet, AdjustMove
<1>2. CASE UNCHANGED apc
  BY <1>2 DEF Adjusted
<1>3. CASE Expire \/ Flush \/ UNCHANGED vars
  BY <1>2, <1>3 DEF Expire, Flush, vars, pcs
<1>4. CASE \E d \in Disputes : Dispute(d)
  BY <1>2, <1>4, DisputeLeaves
<1>5. CASE (\E c \in Calls : Call(c)) \/ (\E t \in Topups : Topup(t))
  BY <1>2, <1>5, CallLeaves, TopupLeaves
<1> QED BY <1>1, <1>3, <1>4, <1>5 DEF Next

LEMMA ExpiryInit == Init => ExpiryInv
BY DEF Init, ExpiryInv

LEMMA ExpiryStep ==
    TypeOK /\ TypeOK' /\ LostInv /\ CrossInv /\ ExpiryInv /\ [Next]_vars => ExpiryInv'
<1> SUFFICES ASSUME TypeOK, TypeOK', LostInv, CrossInv, ExpiryInv, [Next]_vars, expiring',
                    ~Adjusted'
             PROVE  FALSE
  BY DEF ExpiryInv
<1>1. ~expiring
  BY AdjustedStays DEF ExpiryInv
<1>2. CASE Expire \/ Flush
  BY <1>1, <1>2 DEF Expire, Flush
<1>3. CASE ~(Expire \/ Flush)
  BY <1>1, <1>3, CallLeaves, TopupEffect, OthersLeaveBalances DEF Next, TypeOK
<1> QED BY <1>2, <1>3

-----------------------------------------------------------------------------
(***************************************************************************)
(* While nothing is lost.                                                  *)
(***************************************************************************)
\* What was ready after a step was so before it.
LEMMA ReadyBefore ==
    ASSUME TypeOK, TypeOK', LostInv, CrossInv, [Next]_vars, Ready'
    PROVE  Ready /\ flushes' = flushes /\ ~redisFailed'
<1>1. ~Adjusted
  BY AdjustedStays DEF Ready
<1>2. ~redisFailed /\ flushes = 0
  <2>1. CASE Expire \/ Flush
    BY <2>1 DEF Expire, Flush, Ready, TypeOK, past
  <2>2. CASE ~(Expire \/ Flush)
    BY <2>2, CallEffect, TopupEffect, OthersLeaveBalances DEF Next, Ready, TypeOK
  <2> QED BY <2>1, <2>2
<1> QED BY <1>1, <1>2 DEF Ready

\* Before the first fill no call is in flight.
LEMMA NothingYet ==
    ASSUME TypeOK, Ready, CacheInv, key = Absent
    PROVE  /\ InFlight = {} /\ InFlightSum = 0 /\ OwedSum = 0 /\ LeftEven = 0
           /\ \A t \in Topups : tpc[t] \in {"queued", "loading", "filling"}
<1>1. /\ unheard = {} /\ repeated = {}
      /\ \A c \in Calls : cpc[c] \in {"arrived", "rejected"}
      /\ \A t \in Topups : tpc[t] \in {"queued", "loading", "filling"}
  BY DEF CacheInv
<1>2. InFlight = {} /\ Owed = {} /\ unheard \cup repeated \subseteq crossed
  BY <1>1 DEF InFlight, Owed
<1> QED BY <1>1, <1>2, Sums, Surpluses DEF InFlightSum, OwedSum

LEMMA CacheInit == Init => CacheInv
<1> SUFFICES ASSUME Init PROVE CacheInv
  OBVIOUS
<1>1. InFlight = {} /\ Owed = {} /\ unheard = {} /\ repeated = {} /\ crossed = {}
  BY DEF Init, InFlight, Owed
<1>2. /\ InFlightSum = 0 /\ OwedSum = 0 /\ CrossedPrice = 0 /\ CrossedTopup = 0
      /\ Left = 0 /\ LeftEven = 0
  <2>1. unheard \ {} = {} /\ repeated \ {} = {} /\ unheard \ crossed = {} /\ repeated \ crossed = {}
    BY <1>1
  <2> QED BY <1>1, <2>1, Sums
          DEF InFlightSum, OwedSum, CrossedPrice, CrossedTopup, Left, LeftEven, Surplus
<1>3. key # Absent => key = db /\ db \in Int
  BY WalletCacheAssumption DEF Init
<1>4. key # Absent => key <= Highest /\ Lowest <= key
  BY <1>2, <1>3 DEF Highest, Lowest
<1>5. /\ unheard = {} /\ repeated = {}
      /\ \A c \in Calls : cpc[c] \in {"arrived", "rejected"}
      /\ \A t \in Topups : tpc[t] = "queued"
  BY DEF Init
<1> QED BY <1>4, <1>5 DEF CacheInv

\* How the bounds follow the row and the sums.
LEMMA BoundsMove ==
    ASSUME AmountsOK, NEW b \in Int, NEW f \in Int, NEW o \in Int, NEW d \in Int, NEW s \in Int,
           NEW n \in Int, Changes(b, f, o, d, s, n), NEW x \in Int, NEW y \in Int, NEW e \in Int,
           Crosses(x, y, e)
    PROVE  /\ Highest' = Highest + (d - f - o + s + x + y)
           /\ Lowest' = Lowest + (d - f - o + e - y)
           /\ Highest \in Int /\ Lowest \in Int
BY DEF AmountsOK, Changes, Crosses, Highest, Lowest

LEMMA CacheCall ==
    ASSUME TypeOK, TypeOK', LostInv, CrossInv, Ready, CacheInv, ~redisFailed',
           NEW c \in Calls, Call(c)
    PROVE  CacheInv'
<1>1. /\ InFlightSum \in Nat /\ OwedSum \in Nat /\ Left \in Nat /\ LeftEven \in Nat
      /\ CrossedPrice \in Nat /\ CrossedTopup \in Nat /\ Balance \in Int /\ db \in Int
      /\ Price \in Nat /\ \A t \in Topups : seen[t].cents \in Int
  BY Amounts, WalletCacheAssumption DEF AmountsOK
<1>2. /\ key # Absent => key = Balance
      /\ key' # Absent => key' = Balance'
  BY DEF Balance
<1>3. UNCHANGED <<tpc, seen, Filling>> /\ \A d \in Calls : d # c => cpc'[d] = cpc[d]
  BY CallEffect
<1>4. CASE Unspent /\ Uncrossed(0) /\ cpc[c] = "arrived" /\ cpc'[c] = "rejected"
  <2>1. key' = key /\ db' = db /\ UNCHANGED <<unheard, repeated>>
    BY <1>1, <1>4 DEF Unspent, Changes, lost
  <2>2. UNCHANGED <<InFlightSum, OwedSum, Left, LeftEven, CrossedPrice, CrossedTopup>>
    BY <1>1, <1>4 DEF Unspent, Changes, Uncrossed
  <2>3. Highest' = Highest /\ Lowest' = Lowest
    BY <2>1, <2>2 DEF Highest, Lowest
  <2> QED BY <1>3, <1>4, <2>1, <2>2, <2>3 DEF CacheInv, Ready
<1>5. CASE key = Absent /\ c \in InFlight
  BY <1>5, NothingYet
<1>6. CASE key # Absent /\ key' # Absent
  <2>1. key = Balance /\ key' = Balance' /\ key <= Highest /\ Lowest <= key
    BY <1>2, <1>6 DEF CacheInv
  <2>2. \/ /\ Changes(-Price, Price, 0, 0, 0, Price) /\ Balance >= Price
           /\ key # Absent /\ key' # Absent
           /\ LeftEven' = LeftEven /\ CrossedTopup' = CrossedTopup
           /\ CrossedPrice' = IF Filling = {} THEN CrossedPrice ELSE CrossedPrice + Price
        \/ Changes(0, -Price, 0, -Price, 0, -Price) /\ Uncrossed(0)
        \/ Unspent /\ Uncrossed(0)
        \/ Changes(0, 0, 0, -Price, Price, 0) /\ Uncrossed(Price)
        \/ Changes(Price, -Price, 0, 0, 0, 0) /\ Uncrossed(0)
        \/ Changes(2 * Price, -Price, 0, 0, Price, 0) /\ Uncrossed(Price)
    BY CallEffect
  <2>3. /\ key' <= Highest' /\ Lowest' <= key'
        /\ Filling # {} => Highest <= Highest' /\ db' - CrossedTopup' <= db - CrossedTopup
    <3>1. /\ AmountsOK /\ -Price \in Int /\ 2 * Price \in Int /\ Price \in Int /\ 0 \in Int
          /\ Highest \in Int /\ Lowest \in Int
      BY <1>1, Amounts DEF Highest, Lowest
    <3>2. CASE /\ Changes(-Price, Price, 0, 0, 0, Price)
               /\ LeftEven' = LeftEven /\ CrossedTopup' = CrossedTopup
               /\ CrossedPrice' = IF Filling = {} THEN CrossedPrice ELSE CrossedPrice + Price
      <4>1. Balance' = Balance - Price /\ db' = db
        BY <1>1, <3>2 DEF Changes
      <4>3. CASE Filling = {}
        <5>1. Crosses(0, 0, 0)
          BY <1>1, <3>2, <4>3 DEF Crosses
        <5>2. /\ Highest' = Highest + (0 - Price - 0 + 0 + 0 + 0)
              /\ Lowest' = Lowest + (0 - Price - 0 + 0 - 0)
          BY <3>1, <3>2, <5>1, BoundsMove
        <5> QED BY <1>1, <2>1, <3>1, <4>1, <4>3, <5>2
      <4>4. CASE Filling # {}
        <5>1. Crosses(Price, 0, 0)
          BY <1>1, <3>2, <4>4 DEF Crosses
        <5>2. /\ Highest' = Highest + (0 - Price - 0 + 0 + Price + 0)
              /\ Lowest' = Lowest + (0 - Price - 0 + 0 - 0)
          BY <3>1, <3>2, <5>1, BoundsMove
        <5>3. Highest' = Highest /\ Lowest' = Lowest - Price /\ key' = key - Price
          BY <1>1, <2>1, <3>1, <4>1, <5>2
        <5>4. db' - CrossedTopup' = db - CrossedTopup
          BY <3>2, <4>1
        <5>5. key' <= Highest' /\ Lowest' <= key'
          BY <1>1, <2>1, <3>1, <5>3
        <5>6. Highest <= Highest' /\ db' - CrossedTopup' <= db - CrossedTopup
          BY <1>1, <3>1, <5>3, <5>4
        <5> QED BY <5>5, <5>6
      <4> QED BY <4>3, <4>4
    <3>3. ASSUME NEW b \in Int, NEW f \in Int, NEW d \in Int, NEW s \in Nat, NEW n \in Int,
                 NEW m \in 0 .. s, Changes(b, f, 0, d, s, n), Uncrossed(m),
                 b = d - f + s, b >= 0, d <= 0
          PROVE  /\ key' <= Highest' /\ Lowest' <= key'
                 /\ Filling # {} => Highest <= Highest' /\ db' - CrossedTopup' <= db - CrossedTopup
      <4>1. Balance' = Balance + b /\ db' = db + d
        BY <3>3 DEF Changes
      <4>2. CrossedTopup' = CrossedTopup
        BY <3>3 DEF Uncrossed
      <4>3. PICK e \in {0, m} : Crosses(0, 0, e)
        BY <1>1, <3>3 DEF Uncrossed, Crosses
      <4>4. e \in Int /\ e <= s
        BY <4>3
      <4>5. Highest' = Highest + (d - f - 0 + s + 0 + 0) /\ Lowest' = Lowest + (d - f - 0 + e - 0)
        BY <1>1, <3>3, <4>3, <4>4 DEF Changes, Crosses, Highest, Lowest
      <4>6. Highest' = Highest + b /\ Lowest' <= Lowest + b
        BY <3>1, <3>3, <4>4, <4>5
      <4>7. key' = key + b
        BY <2>1, <4>1
      <4>8. key' <= Highest' /\ Lowest' <= key'
        <5>1. key \in Int /\ Lowest' \in Int
          BY <1>1, <2>1, <3>1, <3>3, <4>4, <4>5
        <5> QED BY <2>1, <3>1, <3>3, <4>6, <4>7, <5>1
      <4>9. db' - CrossedTopup' <= db - CrossedTopup
        BY <1>1, <3>3, <4>1, <4>2
      <4>10. Highest <= Highest'
        BY <3>1, <3>3, <4>6
      <4> QED BY <4>8, <4>9, <4>10
    <3>4. CASE Changes(0, -Price, 0, -Price, 0, -Price) /\ Uncrossed(0)
      <4>1. 0 \in 0 .. 0 /\ 0 = (-Price) - (-Price) + 0 /\ 0 >= 0 /\ -Price <= 0
        BY <1>1
      <4> QED BY <1>1, <3>1, <3>3, <3>4, <4>1
    <3>5. CASE Unspent /\ Uncrossed(0)
      <4>1. UNCHANGED <<db, InFlightSum, OwedSum, Left, LeftEven, CrossedPrice, CrossedTopup>>
        BY <1>1, <3>5 DEF Unspent, Changes, Uncrossed
      <4>2. Highest' = Highest /\ Lowest' = Lowest /\ key' = key
        BY <3>5, <4>1 DEF Highest, Lowest, Unspent
      <4>3. Highest <= Highest' /\ db' - CrossedTopup' <= db - CrossedTopup
        BY <1>1, <3>1, <4>1, <4>2
      <4>4. key' <= Highest' /\ Lowest' <= key'
        BY <2>1, <4>2
      <4> QED BY <4>3, <4>4
    <3>6. CASE Changes(0, 0, 0, -Price, Price, 0) /\ Uncrossed(Price)
      <4>1. Price \in 0 .. Price /\ 0 = (-Price) - 0 + Price /\ 0 >= 0 /\ -Price <= 0
        BY <1>1
      <4> QED BY <1>1, <3>1, <3>3, <3>6, <4>1
    <3>7. CASE Changes(Price, -Price, 0, 0, 0, 0) /\ Uncrossed(0)
      <4>1. 0 \in 0 .. 0 /\ Price = 0 - (-Price) + 0 /\ Price >= 0 /\ 0 <= 0
        BY <1>1
      <4> QED BY <1>1, <3>1, <3>3, <3>7, <4>1
    <3>8. CASE Changes(2 * Price, -Price, 0, 0, Price, 0) /\ Uncrossed(Price)
      <4>1. /\ Price \in 0 .. Price /\ 2 * Price = 0 - (-Price) + Price /\ 2 * Price >= 0
            /\ 0 <= 0
        BY <1>1
      <4> QED BY <1>1, <3>1, <3>3, <3>8, <4>1
    <3> QED BY <2>2, <3>2, <3>4, <3>5, <3>6, <3>7, <3>8
  <2>4. ASSUME NEW t \in Topups, tpc'[t] = "filling"
        PROVE  seen'[t].cents <= Highest' /\ db' - CrossedTopup' <= seen'[t].cents
    <3>1. tpc[t] = "filling" /\ seen'[t] = seen[t] /\ Filling # {}
      BY <1>3, <2>4 DEF Filling
    <3>2. seen[t].cents <= Highest /\ db - CrossedTopup <= seen[t].cents
      BY <3>1 DEF CacheInv
    <3>3. /\ Highest \in Int /\ Highest' \in Int /\ db' \in Int /\ CrossedTopup' \in Int
          /\ seen[t].cents \in Int
      BY <1>1, AmountsNext DEF AmountsOK, Highest
    <3> QED BY <1>1, <2>3, <3>1, <3>2, <3>3
  <2> QED BY <1>6, <2>3, <2>4 DEF CacheInv
<1>7. CASE key # Absent /\ key' = Absent
  BY <1>4, <1>7, CallEffect DEF Unspent
<1> QED BY <1>4, <1>5, <1>6, <1>7, CallEffect

LEMMA CacheTopup ==
    ASSUME TypeOK, TypeOK', LostInv, CrossInv, Ready, CacheInv, ~redisFailed',
           NEW t \in Topups, Topup(t)
    PROVE  CacheInv'
<1>1. /\ InFlightSum \in Nat /\ OwedSum \in Nat /\ Left \in Nat /\ LeftEven \in Nat
      /\ CrossedPrice \in Nat /\ CrossedTopup \in Nat /\ Balance \in Int /\ db \in Int
      /\ Credit \in Nat /\ \A u \in Topups : seen[u].cents \in Int
      /\ Highest \in Int /\ Lowest \in Int /\ Absent \notin Int
  <2>1. AmountsOK
    BY Amounts
  <2> QED BY <2>1, WalletCacheAssumption DEF AmountsOK, Highest, Lowest
<1>2. /\ CrossedPrice' \in Nat /\ CrossedTopup' \in Nat /\ LeftEven' \in Nat /\ db' \in Int
      /\ Highest' \in Int /\ Lowest' \in Int /\ \A u \in Topups : seen'[u].cents \in Int
  <2>1. AmountsOK'
    BY AmountsNext
  <2> QED BY <2>1 DEF AmountsOK, Highest, Lowest
<1>3. /\ key # Absent => key = Balance /\ key <= Highest /\ Lowest <= key
      /\ key' # Absent => key' = Balance'
  BY DEF Balance, CacheInv
<1>4. UNCHANGED cpc /\ \A u \in Topups : u # t => tpc'[u] = tpc[u] /\ seen'[u] = seen[u]
  BY TopupEffect
<1>5. \A n : Checked(n) \in {"tooMuch", "checked"}
  BY CheckedType
<1>6. ASSUME Filling # {} => Highest <= Highest' /\ db' - CrossedTopup' <= db - CrossedTopup,
             tpc'[t] = "filling" => seen'[t].cents <= Highest' /\ db' - CrossedTopup' <= seen'[t].cents
      PROVE  \A u \in Topups :
                tpc'[u] = "filling" =>
                    seen'[u].cents <= Highest' /\ db' - CrossedTopup' <= seen'[u].cents
  <2> SUFFICES ASSUME NEW u \in Topups, tpc'[u] = "filling", u # t
               PROVE  seen'[u].cents <= Highest' /\ db' - CrossedTopup' <= seen'[u].cents
    BY <1>6
  <2>1. tpc[u] = "filling" /\ seen'[u] = seen[u] /\ Filling # {}
    BY <1>4 DEF Filling
  <2>2. seen[u].cents <= Highest /\ db - CrossedTopup <= seen[u].cents
    BY <2>1 DEF CacheInv
  <2>3. Highest <= Highest' /\ db' - CrossedTopup' <= db - CrossedTopup
    BY <1>6, <2>1
  <2> QED BY <1>1, <1>2, <2>1, <2>2, <2>3
<1>7. ASSUME key' = Absent, key = Absent, UNCHANGED lost,
             tpc'[t] \in {"queued", "loading", "filling"}
      PROVE  /\ unheard' = {} /\ repeated' = {}
             /\ \A c \in Calls : cpc'[c] \in {"arrived", "rejected"}
             /\ \A u \in Topups : tpc'[u] \in {"queued", "loading", "filling"}
  BY <1>4, <1>7 DEF CacheInv, Ready, lost
<1>8. ASSUME key' # Absent => key' <= Highest' /\ Lowest' <= key',
             key' = Absent => key = Absent /\ UNCHANGED lost
                                /\ tpc'[t] \in {"queued", "loading", "filling"},
             Filling # {} => Highest <= Highest' /\ db' - CrossedTopup' <= db - CrossedTopup,
             tpc'[t] = "filling" => seen'[t].cents <= Highest' /\ db' - CrossedTopup' <= seen'[t].cents
      PROVE  CacheInv'
  BY <1>6, <1>7, <1>8 DEF CacheInv
<1>9. ASSUME Unspent, Uncrossed(0), tpc'[t] # "filling",
             key = Absent => tpc'[t] \in {"queued", "loading", "filling"}
      PROVE  CacheInv'
  <2>1. UNCHANGED <<key, lost, db, InFlightSum, OwedSum, Left, LeftEven, CrossedPrice, CrossedTopup>>
    BY <1>1, <1>9 DEF Unspent, Changes, Uncrossed
  <2>2. Highest' = Highest /\ Lowest' = Lowest
    BY <2>1 DEF Highest, Lowest
  <2>3. Highest <= Highest' /\ db' - CrossedTopup' <= db - CrossedTopup
    BY <1>1, <2>1, <2>2
  <2>4. key' # Absent => key' <= Highest' /\ Lowest' <= key'
    BY <1>3, <2>1, <2>2
  <2> QED BY <1>8, <1>9, <2>1, <2>3, <2>4
<1>10. key = Absent => tpc[t] \in {"queued", "loading", "filling"}
  BY DEF CacheInv, Ready
<1>11. CASE TopupReads(t) \/ TopupReadsOn(t)
  <2>1. tpc'[t] # "filling"
    BY <1>5, <1>11 DEF TopupReads, TopupReadsOn
  <2>2. key = Absent => tpc'[t] \in {"queued", "loading", "filling"}
    BY <1>10, <1>11 DEF TopupReads, TopupReadsOn
  <2>3. Unspent /\ Uncrossed(0)
    BY <1>11 DEF TopupReads, TopupReadsOn
  <2> QED BY <1>9, <2>1, <2>2, <2>3
<1>12. CASE TopupLoads(t)
  <2> PICK x, y \in Nat, e \in Int : Widens(x, y, e)
    BY <1>12 DEF TopupLoads
  <2>1. UNCHANGED <<key, lost, db, InFlightSum, OwedSum, Left>>
    BY <1>1, <1>12 DEF TopupLoads, Unspent, Changes
  <2>2. Highest <= Highest' /\ Lowest' <= Lowest /\ db <= Highest'
    <3>1. Crosses(x, y, e) /\ e <= 0 /\ InFlightSum <= CrossedPrice + x /\ OwedSum <= CrossedTopup + y
      BY DEF Widens
    <3>2. /\ Highest' = Highest + (0 - 0 - 0 + 0 + x + y)
          /\ Lowest' = Lowest + (0 - 0 - 0 + e - y)
      <4>1. AmountsOK /\ 0 \in Int /\ Changes(0, 0, 0, 0, 0, 0)
        BY <1>12, Amounts DEF TopupLoads, Unspent
      <4> QED BY <3>1, <4>1, BoundsMove
    <3>3. Highest <= Highest' /\ Lowest' <= Lowest
      BY <1>1, <3>1, <3>2
    <3>4. db <= Highest'
      BY <1>1, <3>1, <3>2 DEF Highest
    <3> QED BY <3>3, <3>4
  <2>3. Highest <= Highest' /\ db' - CrossedTopup' <= db - CrossedTopup
    <3>1. CrossedTopup' = CrossedTopup + y
      BY DEF Widens, Crosses
    <3> QED BY <1>1, <1>2, <2>1, <2>2, <3>1
  <2>4. key' # Absent => key' <= Highest' /\ Lowest' <= key'
    <3> SUFFICES ASSUME key # Absent PROVE key <= Highest' /\ Lowest' <= key
      BY <2>1
    <3>1. key \in Int /\ key <= Highest /\ Lowest <= key
      BY <1>1, <1>3
    <3> QED BY <1>1, <1>2, <2>2, <3>1
  <2>5. seen'[t].cents <= Highest' /\ db' - CrossedTopup' <= seen'[t].cents
    <3>1. CrossedTopup' \in Nat /\ seen'[t].cents = db
      BY <1>2, <1>12 DEF TopupLoads
    <3> QED BY <1>1, <2>1, <2>2, <3>1
  <2>6. key' = Absent => key = Absent /\ UNCHANGED lost
                           /\ tpc'[t] \in {"queued", "loading", "filling"}
    BY <1>12, <2>1 DEF TopupLoads
  <2> QED BY <1>8, <2>3, <2>4, <2>5, <2>6
<1>13. ASSUME tpc[t] = "filling", tpc'[t] = "flagging", key' = seen[t].cents,
              UNCHANGED <<db, lost>>, Uncrossed(0),
              UNCHANGED <<InFlightSum, OwedSum, Left, TakenSum>>
       PROVE  CacheInv'
  <2>1. UNCHANGED <<LeftEven, CrossedPrice, CrossedTopup>>
    BY <1>1, <1>13 DEF Uncrossed
  <2>2. Highest' = Highest /\ Lowest' = Lowest
    BY <1>13, <2>1 DEF Highest, Lowest
  <2>3. LeftEven = 0
    <3>1. Filling # {}
      BY <1>13 DEF Filling
    <3>2. unheard \cup repeated \subseteq crossed
      BY <3>1 DEF CrossInv, Uneven
    <3> QED BY <3>2, Surpluses
  <2>4. Lowest <= db - CrossedTopup
    BY <1>1, <2>3 DEF Lowest
  <2>5. seen[t].cents <= Highest /\ db - CrossedTopup <= seen[t].cents
    BY <1>13 DEF CacheInv
  <2>6. key' <= Highest' /\ Lowest' <= key' /\ key' # Absent
    BY <1>1, <1>13, <2>2, <2>4, <2>5
  <2>7. Highest <= Highest' /\ db' - CrossedTopup' <= db - CrossedTopup
    BY <1>1, <1>13, <2>1, <2>2
  <2> QED BY <1>8, <1>13, <2>6, <2>7
<1>14. ASSUME tpc[t] = "checked", tpc'[t] = "crediting", Changes(0, 0, Credit, Credit, 0, 0),
              UNCHANGED <<key, lost>>, LeftEven' = LeftEven, CrossedPrice' = CrossedPrice,
              CrossedTopup' = IF Filling = {} THEN CrossedTopup ELSE CrossedTopup + Credit
       PROVE  CacheInv'
  <2>1. key # Absent /\ key' # Absent /\ key' = key
    BY <1>10, <1>14
  <2>2. /\ db' = db + Credit /\ OwedSum' = OwedSum + Credit /\ InFlightSum' = InFlightSum
        /\ Left' = Left
    BY <1>1, <1>14 DEF Changes
  <2>3. CrossedTopup' = CrossedTopup \/ CrossedTopup' = CrossedTopup + Credit
    BY <1>14
  <2>4. Highest <= Highest' /\ Lowest' <= Lowest
    BY <1>1, <1>14, <2>2, <2>3 DEF Highest, Lowest
  <2>5. key' <= Highest' /\ Lowest' <= key'
    <3>1. key \in Int /\ key <= Highest /\ Lowest <= key
      BY <1>1, <1>3, <2>1
    <3> QED BY <1>1, <1>2, <2>1, <2>4, <3>1
  <2>6. ASSUME Filling # {} PROVE Highest <= Highest' /\ db' - CrossedTopup' <= db - CrossedTopup
    <3>1. CrossedTopup' = CrossedTopup + Credit
      BY <1>14, <2>6
    <3> QED BY <1>1, <2>2, <2>4, <3>1
  <2> QED BY <1>8, <1>14, <2>1, <2>5, <2>6
<1>15. ASSUME tpc[t] = "crediting", tpc'[t] = "done", key' # Absent,
              NEW n \in {0, Credit}, Changes(Credit + n, 0, -Credit, 0, n, 0), Uncrossed(n)
       PROVE  CacheInv'
  <2>1. key # Absent /\ key \in Int /\ key <= Highest /\ Lowest <= key
    BY <1>1, <1>3, <1>10, <1>15
  <2>2. /\ db' = db /\ OwedSum' = OwedSum - Credit /\ InFlightSum' = InFlightSum
        /\ Left' = Left + n /\ Balance' = Balance + (Credit + n)
        /\ CrossedPrice' = CrossedPrice /\ CrossedTopup' = CrossedTopup
    BY <1>1, <1>15 DEF Changes, Uncrossed
  <2>3. LeftEven' = LeftEven \/ LeftEven' = LeftEven + n
    BY <1>15 DEF Uncrossed
  <2>4. n \in Nat /\ -Credit \in Int
    BY <1>1
  <2>5. Highest' = Highest + Credit + n /\ Lowest' <= Lowest + Credit + n
    BY <1>1, <2>2, <2>3, <2>4 DEF Highest, Lowest
  <2>6. key' = key + Credit + n
    BY <1>1, <1>3, <1>15, <2>1, <2>2, <2>4
  <2>7. key' <= Highest' /\ Lowest' <= key'
    BY <1>1, <1>2, <2>1, <2>4, <2>5, <2>6
  <2>8. Highest <= Highest' /\ db' - CrossedTopup' <= db - CrossedTopup
    BY <1>1, <2>2, <2>4, <2>5
  <2> QED BY <1>8, <1>15, <2>7, <2>8
<1>16. CASE TopupPays(t)
  <2>1. Credit + 0 = Credit /\ Credit + Credit = 2 * Credit
    BY <1>1
  <2>2. CASE Changes(Credit, 0, -Credit, 0, 0, 0) /\ Uncrossed(0)
    <3>1. Changes(Credit + 0, 0, -Credit, 0, 0, 0)
      BY <2>1, <2>2
    <3> QED BY <1>15, <1>16, <2>2, <3>1 DEF TopupPays
  <2>3. CASE Changes(2 * Credit, 0, -Credit, 0, Credit, 0) /\ Uncrossed(Credit)
    <3>1. Changes(Credit + Credit, 0, -Credit, 0, Credit, 0)
      BY <2>1, <2>3
    <3> QED BY <1>15, <1>16, <2>3, <3>1 DEF TopupPays
  <2> QED BY <1>16, <2>2, <2>3 DEF TopupPays
<1>17. CASE TopupFills(t)
  BY <1>13, <1>17 DEF TopupFills
<1>18. CASE TopupCredits(t)
  BY <1>14, <1>18 DEF TopupCredits
<1>19. ~TopupFails(t)
  BY DEF TopupFails
<1> QED BY <1>11, <1>12, <1>16, <1>17, <1>18, <1>19, TopupEffect

LEMMA CacheStep ==
    TypeOK /\ TypeOK' /\ LostInv /\ CrossInv /\ ExpiryInv /\ CacheInv /\ [Next]_vars => CacheInv'
<1> SUFFICES ASSUME TypeOK, TypeOK', LostInv, CrossInv, ExpiryInv, CacheInv, [Next]_vars, Ready'
             PROVE  CacheInv'
  BY DEF CacheInv
<1>1. Ready /\ flushes' = flushes /\ ~redisFailed'
  BY ReadyBefore
<1>2. ~(Expire \/ Flush)
  BY <1>1 DEF Expire, Flush, ExpiryInv, Ready, TypeOK
<1>3. CASE \/ \E d \in Disputes : Dispute(d)
           \/ \E a \in Adjustments : Adjust(a)
           \/ UNCHANGED vars
  <2>1. /\ UNCHANGED <<key, db, cpc, tpc, lost, marks>>
        /\ \A t \in Topups : seen'[t] = seen[t]
    BY <1>3, OthersLeaveBalances DEF Ready
  <2>2. /\ UNCHANGED <<InFlightSum, OwedSum, CrossedPrice, CrossedTopup, Left, LeftEven>>
        /\ unheard' = unheard /\ repeated' = repeated
    BY <2>1, SameBalances DEF lost
  <2>3. Highest' = Highest /\ Lowest' = Lowest
    BY <2>1, <2>2 DEF Highest, Lowest
  <2> QED BY <1>1, <2>1, <2>2, <2>3 DEF CacheInv
<1> QED BY <1>1, <1>2, <1>3, CacheCall, CacheTopup DEF Next

\* With any number of workers: until a command fails, a key is lost or an
\* adjustment is written, a balance in Redis is the row's, less what is in
\* flight or owed, plus what lost replies left, but for the charges and top-ups
\* that crossed a fill (bootstrapWalletCache against billing.lua, recordCharge
\* and addBalance).
THEOREM CacheAgreement == Spec => []CacheAgrees
<1> DEFINE I == TypeOK /\ LostInv /\ CrossInv /\ ExpiryInv /\ CacheInv
<1>1. Init => I
  BY TypeInit, LostInit, CrossInit, ExpiryInit, CacheInit
<1>2. I /\ [Next]_vars => I'
  BY TypeStep, LostStep, CrossStep, ExpiryStep, CacheStep
<1>3. I => CacheAgrees
  <2> SUFFICES ASSUME I, key # Absent, Ready
               PROVE  /\ key <= Even + Surplus({}) + PriceOf(crossed) + CreditOf(crossed)
                      /\ key >= Even + Surplus(crossed) - CreditOf(crossed)
    BY DEF CacheAgrees, Ready
  <2>1. key <= Highest /\ Lowest <= key /\ key \in Int
    BY DEF CacheInv, TypeOK
  <2>2. AmountsOK
    BY Amounts
  <2>3. /\ Highest = Even + Surplus({}) + PriceOf(crossed) + CreditOf(crossed)
        /\ Lowest = Even + Surplus(crossed) - CreditOf(crossed)
    BY DEF Highest, Lowest, Even, InFlightSum, OwedSum, Left, LeftEven, CrossedPrice, CrossedTopup
  <2>4. Highest \in Int /\ Lowest \in Int
    BY <2>2 DEF AmountsOK, Highest, Lowest
  <2> QED BY <2>1, <2>3, <2>4
<1> QED BY <1>1, <1>2, <1>3, PTL DEF Spec

-----------------------------------------------------------------------------
(***************************************************************************)
(* The maximum.                                                            *)
(***************************************************************************)
\* The credits owed, and those that passed the check, are of jobs under way.
LEMMA RoomFor ==
    ASSUME TypeOK, NEW n \in Nat
    PROVE  /\ Cardinality(Busy) <= n => OwedSum + PotSum <= Credit * n
           /\ \A t \in (Busy \cap Topups) \ Pot :
                 Cardinality(Busy) <= n + 1 => PotSum <= Credit * n
<1>1. IsFiniteSet(Topups) /\ Credit \in Nat
  BY WalletCacheAssumption
<1>2. /\ Pot \subseteq Busy \cap Topups /\ Owed \subseteq Busy \cap Topups /\ Pot \cap Owed = {}
      /\ Pot \cap Topups = Pot /\ Owed \cap Topups = Owed
  BY DEF Pot, Owed, Busy
<1>3. PotSum = Credit * Cardinality(Pot) /\ OwedSum = Credit * Cardinality(Owed)
  BY <1>2 DEF PotSum, OwedSum, CreditOf
<1>4. /\ Pot \in SUBSET (Topups \cup Disputes) /\ Owed \in SUBSET (Topups \cup Disputes)
      /\ Owed \cup Pot \in SUBSET (Topups \cup Disputes)
      /\ Busy \in SUBSET (Topups \cup Disputes)
  BY <1>2, BusySizes
<1>5. /\ Cardinality(Pot) \in Nat /\ Cardinality(Owed) \in Nat /\ Cardinality(Owed \cup Pot) \in Nat
      /\ Cardinality(Busy) \in Nat
  BY <1>4, BusySizes
<1>6. Cardinality(Owed \cup Pot) = Cardinality(Owed) + Cardinality(Pot)
  <2>1. IsFiniteSet(Owed) /\ IsFiniteSet(Pot)
    BY <1>1, <1>2, FS_Subset
  <2>2. Cardinality(Owed \cup Pot)
          = Cardinality(Owed) + Cardinality(Pot) - Cardinality(Owed \cap Pot)
    BY <2>1, FS_Union
  <2>3. Cardinality(Owed \cap Pot) = 0
    BY <1>2, BusySizes
  <2> QED BY <1>5, <2>2, <2>3
<1>7. ASSUME Cardinality(Busy) <= n PROVE OwedSum + PotSum <= Credit * n
  <2>1. Cardinality(Owed \cup Pot) <= Cardinality(Busy)
    BY <1>2, <1>4, BusySizes
  <2>2. Cardinality(Owed) + Cardinality(Pot) <= n
    BY <1>5, <1>6, <1>7, <2>1
  <2>3. Cardinality(Owed) + Cardinality(Pot) \in Nat
    BY <1>5
  <2>4. Credit * (Cardinality(Owed) + Cardinality(Pot)) <= Credit * n
    BY <1>1, <2>2, <2>3, Multiples
  <2>5. Credit * (Cardinality(Owed) + Cardinality(Pot))
          = Credit * Cardinality(Owed) + Credit * Cardinality(Pot)
    BY <1>1, <1>5, Multiples
  <2> QED BY <1>3, <2>4, <2>5
<1>8. ASSUME NEW t \in (Busy \cap Topups) \ Pot, Cardinality(Busy) <= n + 1
      PROVE  PotSum <= Credit * n
  <2>1. Pot \subseteq Busy \ {t} /\ Busy \ {t} \in SUBSET (Topups \cup Disputes)
    BY <1>2, <1>4, <1>8
  <2>2. Cardinality(Pot) <= Cardinality(Busy \ {t}) /\ Cardinality(Busy \ {t}) \in Nat
    BY <1>4, <2>1, BusySizes
  <2>3. Cardinality(Busy \ {t}) = Cardinality(Busy) - 1
    BY <1>4, <1>8, BusySizes
  <2>4. Cardinality(Pot) <= n
    BY <1>5, <1>8, <2>2, <2>3
  <2> QED BY <1>1, <1>3, <1>5, <2>4, Multiples
<1> QED BY <1>7, <1>8

LEMMA LimitInit == Init /\ Opening <= MaxBalance => LimitInv
<1> SUFFICES ASSUME Init, Opening <= MaxBalance PROVE LimitInv
  OBVIOUS
<1>1. \A t \in Topups : tpc[t] = "queued"
  BY DEF Init
<1>2. Pot = {} /\ PotSum = 0
  <2>1. Pot = {}
    BY <1>1 DEF Pot
  <2> QED BY <2>1, Sums DEF PotSum
<1>3. /\ CrossedTopup \in Nat /\ TakenSum \in Nat /\ db = Opening
  BY TypeInit, Amounts DEF AmountsOK, Init
<1>4. Credit * (Workers - 1) \in Nat /\ MaxBalance \in Nat /\ Opening \in Nat
  <2>1. Credit \in Nat /\ Workers - 1 \in Nat
    BY WalletCacheAssumption
  <2> QED BY <2>1, Multiples, WalletCacheAssumption
<1>5. db + PotSum <= MaxBalance + Credit * (Workers - 1) + CrossedTopup + TakenSum
  BY <1>2, <1>3, <1>4
<1> QED BY <1>1, <1>5 DEF LimitInv

\* Calls only change the row and what they may have taken.
LEMMA LimitCall ==
    ASSUME TypeOK, TypeOK', LostInv, CrossInv, Ready, LimitInv, ~redisFailed',
           NEW c \in Calls, Call(c)
    PROVE  LimitInv'
<1> DEFINE M == MaxBalance + Credit * (Workers - 1)
<1>1. /\ PotSum \in Nat /\ CrossedTopup \in Nat /\ TakenSum \in Nat /\ db \in Int
      /\ Price \in Nat /\ M \in Int
  BY Amounts, WalletCacheAssumption DEF AmountsOK
<1>2. UNCHANGED <<tpc, seen>>
  BY CallEffect
<1>3. PotSum' = PotSum
  BY <1>2 DEF PotSum, Pot, CreditOf
<1>4. db + PotSum <= M + CrossedTopup + TakenSum /\ \A t \in Topups : tpc'[t] # "fallback"
  BY <1>2 DEF LimitInv
<1> HIDE DEF M
<1>5. CrossedTopup' = CrossedTopup
  BY CallEffect DEF Uncrossed
<1>6. \/ db' = db /\ TakenSum' = TakenSum + Price
      \/ db' = db - Price /\ TakenSum' = TakenSum - Price
      \/ db' = db /\ TakenSum' = TakenSum
      \/ db' = db - Price /\ TakenSum' = TakenSum
  <2>1. \/ Changes(-Price, Price, 0, 0, 0, Price)
        \/ Changes(0, -Price, 0, -Price, 0, -Price)
        \/ Changes(0, 0, 0, 0, 0, 0)
        \/ Changes(0, 0, 0, -Price, Price, 0)
        \/ Changes(Price, -Price, 0, 0, 0, 0)
        \/ Changes(2 * Price, -Price, 0, 0, Price, 0)
    BY CallEffect DEF Unspent
  <2>2. \A b, f, o, d, s, n \in Int :
           Changes(b, f, o, d, s, n) => db' = db + d /\ TakenSum' = TakenSum + n
    BY DEF Changes
  <2>3. -Price \in Int /\ 2 * Price \in Int /\ Price \in Int /\ 0 \in Int
    BY <1>1
  <2> QED BY <1>1, <2>1, <2>2, <2>3
<1>7. db' + PotSum' <= M + CrossedTopup' + TakenSum'
  BY <1>1, <1>3, <1>4, <1>5, <1>6
<1> QED BY <1>4, <1>7 DEF LimitInv, M

\* What a step of a top-up does to the pot.
LEMMA PotMoves ==
    ASSUME TypeOK, NEW t \in Topups,
           \A u \in Topups : u # t => tpc'[u] = tpc[u] /\ seen'[u] = seen[u]
    PROVE  /\ t \in Pot' /\ t \notin Pot => PotSum' = PotSum + Credit
           /\ t \notin Pot' /\ t \in Pot => PotSum' = PotSum - Credit
           /\ (t \in Pot' <=> t \in Pot) => PotSum' = PotSum
<1>1. Pot \in SUBSET Named
  BY DEF Pot, Named
<1>2. PotSum = CreditOf(Pot) /\ PotSum' = CreditOf(Pot')
  BY DEF PotSum, CreditOf
<1>3. \A u \in Topups : u # t => (u \in Pot' <=> u \in Pot)
  BY DEF Pot
<1>4. Pot \subseteq Topups /\ Pot' \subseteq Topups
  BY DEF Pot
<1>5. CASE t \in Pot' /\ t \notin Pot
  <2>1. Pot' = Pot \cup {t}
    BY <1>3, <1>4, <1>5
  <2> QED BY <1>1, <1>2, <1>5, <2>1, Sums
<1>6. CASE t \notin Pot' /\ t \in Pot
  <2>1. Pot' = Pot \ {t}
    BY <1>3, <1>4, <1>6
  <2> QED BY <1>1, <1>2, <1>6, <2>1, Sums
<1>7. CASE t \in Pot' <=> t \in Pot
  <2>1. Pot' = Pot
    BY <1>3, <1>4, <1>7
  <2> QED BY <1>2, <1>7, <2>1
<1> QED BY <1>5, <1>6, <1>7

\* The inequality of LimitInv.
Fits(b, p, m, d, x, n) == b + p <= m + d + x + n

LEMMA FitsFilled ==
    ASSUME NEW b \in Int, NEW p \in Int, NEW c \in Int, NEW m \in Int, NEW d \in Int,
           NEW x \in Nat, NEW n \in Nat, b + c <= m, p <= d
    PROVE  Fits(b, p + c, m, d, x, n)
BY DEF Fits

LEMMA FitsCredited ==
    ASSUME NEW b \in Int, NEW p \in Int, NEW r \in Int, NEW q \in Int, NEW m \in Int,
           NEW d \in Int, NEW x \in Int, NEW y \in Int, NEW n \in Int,
           Fits(b, p, m, d, x, n), r + q = b + p, x <= y
    PROVE  Fits(r, q, m, d, y, n)
BY DEF Fits

\* The check sees the row, but for what is in flight, owed or crossed a fill; a
\* fill reads the row itself; the credits that follow fit in what is left.
LEMMA LimitTopup ==
    ASSUME TypeOK, TypeOK', LostInv, BusyInv, CrossInv, Ready, CacheInv, LimitInv, ~redisFailed',
           NEW t \in Topups, Topup(t)
    PROVE  LimitInv'
<1> DEFINE D == Credit * (Workers - 1)
<1>1. /\ PotSum \in Nat /\ CrossedTopup \in Nat /\ TakenSum \in Nat /\ InFlightSum \in Nat
      /\ OwedSum \in Nat /\ db \in Int /\ Credit \in Nat /\ MaxBalance \in Nat
      /\ LeftEven \in Nat /\ D \in Nat /\ \A u \in Topups : seen[u].cents \in Int
  <2>1. AmountsOK
    BY Amounts
  <2>2. Credit \in Nat /\ Workers - 1 \in Nat /\ MaxBalance \in Nat
    BY WalletCacheAssumption
  <2>3. D \in Nat
    BY <2>2, Multiples
  <2> QED BY <2>1, <2>2, <2>3 DEF AmountsOK
<1>2. /\ PotSum' \in Nat /\ CrossedTopup' \in Nat /\ TakenSum' \in Nat /\ db' \in Int
  BY AmountsNext DEF AmountsOK
<1>3. /\ db + PotSum <= MaxBalance + D + CrossedTopup + TakenSum
      /\ \A u \in Topups : tpc[u] # "fallback"
  BY DEF LimitInv
<1>4. \A u \in Topups : u # t => tpc'[u] = tpc[u] /\ seen'[u] = seen[u]
  BY TopupEffect
<1>5. \A n \in Int : Checked(n) = IF n + Credit > MaxBalance THEN "tooMuch" ELSE "checked"
  BY DEF Checked
<1>6. /\ t \in Pot' /\ t \notin Pot => PotSum' = PotSum + Credit
      /\ t \notin Pot' /\ t \in Pot => PotSum' = PotSum - Credit
      /\ (t \in Pot' <=> t \in Pot) => PotSum' = PotSum
  BY <1>4, PotMoves
<1>7. /\ t \in Pot <=> \/ tpc[t] = "checked"
                       \/ /\ tpc[t] \in {"filling", "flagging"}
                          /\ seen[t].cents + Credit <= MaxBalance
      /\ t \in Pot' <=> \/ tpc'[t] = "checked"
                        \/ /\ tpc'[t] \in {"filling", "flagging"}
                           /\ seen'[t].cents + Credit <= MaxBalance
  BY DEF Pot
<1>8. (Cardinality(Busy) <= Workers - 1 => OwedSum + PotSum <= D)
      /\ (t \in (Busy \cap Topups) \ Pot => PotSum <= D)
  <2>1. Workers - 1 \in Nat /\ (Workers - 1) + 1 = Workers
    BY WalletCacheAssumption
  <2> QED BY <2>1, RoomFor DEF BusyInv
<1>9. ASSUME tpc'[t] # "fallback",
             db' + PotSum' <= MaxBalance + D + CrossedTopup' + TakenSum'
      PROVE  LimitInv'
  BY <1>3, <1>4, <1>9 DEF LimitInv
<1> HIDE DEF D
<1>10. ASSUME Unspent, Uncrossed(0) PROVE UNCHANGED <<db, TakenSum, CrossedTopup>>
  BY <1>1, <1>10 DEF Unspent, Changes, Uncrossed
<1>11. CASE TopupReads(t)
  <2>1. UNCHANGED <<db, TakenSum, CrossedTopup>> /\ seen'[t] = seen[t] /\ tpc[t] = "queued"
    BY <1>10, <1>11 DEF TopupReads
  <2>2. CASE tpc'[t] = "loading"
    <3>1. PotSum' = PotSum
      BY <1>6, <1>7, <2>1, <2>2
    <3> QED BY <1>3, <1>9, <2>1, <2>2, <3>1
  <2>3. CASE tpc'[t] = Checked(key) /\ key # Absent /\ WorkerFree
    <3>1. key \in Int
      BY <2>3 DEF TypeOK
    <3>2. CASE key + Credit > MaxBalance
      <4>1. tpc'[t] = "tooMuch"
        BY <1>5, <2>3, <3>1, <3>2
      <4>2. PotSum' = PotSum
        BY <1>6, <1>7, <2>1, <4>1
      <4> QED BY <1>3, <1>9, <2>1, <4>1, <4>2
    <3>3. CASE key + Credit <= MaxBalance
      <4>1. tpc'[t] = "checked"
        BY <1>1, <1>5, <2>3, <3>1, <3>3
      <4>2. PotSum' = PotSum + Credit
        BY <1>6, <1>7, <2>1, <4>1
      <4>3. OwedSum + PotSum <= D
        <5>1. Cardinality(Busy) \in Nat /\ Workers \in Nat /\ Cardinality(Busy) < Workers
          BY <2>3, BusySizes, WalletCacheAssumption DEF WorkerFree
        <5>2. Cardinality(Busy) <= Workers - 1
          BY <5>1
        <5> QED BY <1>8, <5>2
      <4>4. db - InFlightSum - OwedSum + LeftEven - CrossedTopup <= key
        BY <2>3 DEF CacheInv, Lowest
      <4>5. InFlightSum <= TakenSum
        <5>1. /\ InFlight \in SUBSET Named /\ Taken \in SUBSET Named /\ InFlight \subseteq Taken
          BY DEF InFlight, Taken, Named
        <5> QED BY <5>1, Sums DEF InFlightSum, TakenSum
      <4>6. db <= key + InFlightSum + OwedSum + CrossedTopup
        BY <1>1, <3>1, <4>4
      <4>7. db + (PotSum + Credit) <= MaxBalance + D + CrossedTopup + TakenSum
        BY <1>1, <3>1, <3>3, <4>3, <4>5, <4>6
      <4> QED BY <1>9, <2>1, <4>1, <4>2, <4>7
    <3> QED BY <1>1, <3>1, <3>2, <3>3
  <2> QED BY <1>11, <2>2, <2>3 DEF TopupReads
<1>12. CASE TopupReadsOn(t)
  <2>1. /\ UNCHANGED <<db, TakenSum, CrossedTopup>> /\ seen'[t] = seen[t]
        /\ tpc[t] = "flagging" /\ tpc'[t] = Checked(seen[t].cents)
    BY <1>3, <1>10, <1>12 DEF TopupReadsOn
  <2>2. seen[t].cents + Credit > MaxBalance <=> ~(seen[t].cents + Credit <= MaxBalance)
    BY <1>1
  <2>3. /\ tpc'[t] # "fallback" /\ tpc'[t] \notin {"filling", "flagging"}
        /\ tpc'[t] = "checked" <=> seen[t].cents + Credit <= MaxBalance
    BY <1>1, <1>5, <2>1, <2>2
  <2>4. PotSum' = PotSum
    BY <1>6, <1>7, <2>1, <2>3
  <2> QED BY <1>3, <1>9, <2>1, <2>3, <2>4
<1>13. CASE TopupLoads(t)
  <2>1. /\ db' = db /\ TakenSum' = TakenSum /\ seen'[t].cents = db
        /\ tpc[t] = "loading" /\ tpc'[t] = "filling"
    BY <1>1, <1>13 DEF TopupLoads, Unspent, Changes
  <2>2. CrossedTopup <= CrossedTopup'
    <3>1. PICK x, y \in Nat, e \in Int : Widens(x, y, e)
      BY <1>13 DEF TopupLoads
    <3>2. CrossedTopup' = CrossedTopup + y
      BY <3>1 DEF Widens, Crosses
    <3> QED BY <1>1, <3>2
  <2>3. t \notin Pot /\ t \in Busy \cap Topups
    BY <1>7, <2>1 DEF Busy
  <2>4. CASE db + Credit <= MaxBalance
    <3>1. PotSum' = PotSum + Credit
      BY <1>6, <1>7, <2>1, <2>3, <2>4
    <3>2. PotSum <= D
      BY <1>8, <2>3
    <3>3. Fits(db, PotSum + Credit, MaxBalance, D, CrossedTopup', TakenSum)
      BY <1>1, <1>2, <2>4, <3>2, FitsFilled
    <3> QED BY <1>9, <2>1, <3>1, <3>3 DEF Fits
  <2>5. CASE ~(db + Credit <= MaxBalance)
    <3>1. PotSum' = PotSum
      BY <1>6, <1>7, <2>1, <2>3, <2>5
    <3>2. db + PotSum <= MaxBalance + D + CrossedTopup' + TakenSum
      BY <1>1, <1>2, <1>3, <2>2
    <3> QED BY <1>9, <2>1, <3>1, <3>2
  <2> QED BY <2>4, <2>5
<1>14. CASE TopupFills(t)
  <2>1. /\ UNCHANGED <<db, TakenSum, CrossedTopup>> /\ seen'[t] = seen[t]
        /\ tpc[t] = "filling" /\ tpc'[t] = "flagging"
    BY <1>14 DEF TopupFills, Uncrossed
  <2>2. PotSum' = PotSum
    BY <1>6, <1>7, <2>1
  <2> QED BY <1>3, <1>9, <2>1, <2>2
<1>15. CASE TopupCredits(t)
  <2>1. /\ db' = db + Credit /\ TakenSum' = TakenSum /\ tpc[t] = "checked" /\ tpc'[t] = "crediting"
    BY <1>1, <1>15 DEF TopupCredits, Changes
  <2>2. CrossedTopup <= CrossedTopup'
    BY <1>1, <1>15 DEF TopupCredits
  <2>3. PotSum' = PotSum - Credit
    BY <1>6, <1>7, <2>1
  <2>4. Fits(db, PotSum, MaxBalance, D, CrossedTopup, TakenSum)
    BY <1>3 DEF Fits
  <2>5. Fits(db + Credit, PotSum - Credit, MaxBalance, D, CrossedTopup', TakenSum)
    <3>1. (db + Credit) + (PotSum - Credit) = db + PotSum
      BY <1>1
    <3>2. db + Credit \in Int /\ PotSum - Credit \in Int
      BY <1>1
    <3> QED BY <1>1, <1>2, <2>2, <2>4, <3>1, <3>2, FitsCredited
  <2> QED BY <1>9, <2>1, <2>3, <2>5 DEF Fits
<1>16. CASE TopupPays(t)
  <2>1. tpc[t] = "crediting" /\ tpc'[t] = "done" /\ CrossedTopup' = CrossedTopup
    BY <1>16 DEF TopupPays, Uncrossed
  <2>2. db' = db /\ TakenSum' = TakenSum
    BY <1>1, <1>16 DEF TopupPays, Changes
  <2>3. PotSum' = PotSum
    BY <1>6, <1>7, <2>1
  <2> QED BY <1>3, <1>9, <2>1, <2>2, <2>3
<1>17. ~TopupFails(t)
  BY DEF TopupFails
<1> QED BY <1>11, <1>12, <1>13, <1>14, <1>15, <1>16, <1>17, TopupEffect

LEMMA LimitStep ==
    TypeOK /\ TypeOK' /\ LostInv /\ BusyInv /\ CrossInv /\ ExpiryInv /\ CacheInv /\ LimitInv
        /\ [Next]_vars => LimitInv'
<1> SUFFICES ASSUME TypeOK, TypeOK', LostInv, BusyInv, CrossInv, ExpiryInv, CacheInv, LimitInv,
                    [Next]_vars, Ready'
             PROVE  LimitInv'
  BY DEF LimitInv
<1>1. Ready /\ flushes' = flushes /\ ~redisFailed'
  BY ReadyBefore
<1>2. ~(Expire \/ Flush)
  BY <1>1 DEF Expire, Flush, ExpiryInv, Ready, TypeOK
<1>3. CASE \/ \E d \in Disputes : Dispute(d)
           \/ \E a \in Adjustments : Adjust(a)
           \/ UNCHANGED vars
  <2>1. /\ UNCHANGED <<db, cpc, tpc, lost, marks>>
        /\ \A t \in Topups : seen'[t] = seen[t]
    BY <1>3, OthersLeaveBalances DEF Ready
  <2>2. UNCHANGED <<TakenSum, CrossedTopup>>
    BY <2>1, SameBalances
  <2>3. Pot' = Pot
    BY <2>1 DEF Pot
  <2>4. PotSum' = PotSum
    BY <2>3 DEF PotSum, CreditOf
  <2> QED BY <1>1, <2>1, <2>2, <2>4 DEF LimitInv
<1> QED BY <1>1, <1>2, <1>3, LimitCall, LimitTopup DEF Next

\* When the opening balance is within the maximum, and until a command fails, a
\* key is lost or an adjustment is written, the row exceeds
\* MAX_WALLET_BALANCE_CENTS at most by a credit for every other worker, the
\* top-ups that crossed a fill, and charges in flight or taken back: addBalance
\* checks a reading of Redis or of the row before its transaction.
THEOREM MaximumKept == Opening <= MaxBalance => (Spec => []MaxBalanceBound)
<1> SUFFICES ASSUME Opening <= MaxBalance PROVE Spec => []MaxBalanceBound
  OBVIOUS
<1> DEFINE I == TypeOK /\ LostInv /\ BusyInv /\ CrossInv /\ ExpiryInv /\ CacheInv /\ LimitInv
<1>1. Init => I
  BY TypeInit, LostInit, BusyInit, CrossInit, ExpiryInit, CacheInit, LimitInit
<1>2. I /\ [Next]_vars => I'
  BY TypeStep, LostStep, BusyStep, CrossStep, ExpiryStep, CacheStep, LimitStep
<1>3. I => MaxBalanceBound
  <2> SUFFICES ASSUME I, Ready
               PROVE  db <= MaxBalance + Credit * (Workers - 1) + CreditOf(crossed)
                              + PriceOf({c \in Calls : cpc[c] \in {"recording", "unwinding", "undone"}})
    BY DEF MaxBalanceBound, Ready
  <2>1. db + PotSum <= MaxBalance + Credit * (Workers - 1) + CrossedTopup + TakenSum
    BY DEF LimitInv
  <2>2. PotSum \in Nat /\ CrossedTopup \in Nat /\ TakenSum \in Nat /\ db \in Int
    BY Amounts DEF AmountsOK
  <2>3. /\ CrossedTopup = CreditOf(crossed)
        /\ TakenSum = PriceOf({c \in Calls : cpc[c] \in {"recording", "unwinding", "undone"}})
    BY DEF CrossedTopup, TakenSum, Taken
  <2>4. MaxBalance + Credit * (Workers - 1) \in Int
    BY WalletCacheAssumption
  <2> QED BY <2>1, <2>2, <2>3, <2>4
<1> QED BY <1>1, <1>2, <1>3, PTL DEF Spec

-----------------------------------------------------------------------------
(***************************************************************************)
(* What may be spent.                                                      *)
(***************************************************************************)
CoveredNext(n) == n + InFlightSum' + OwedSum' <= db' + CrossedPrice' + CrossedTopup' + Left'

\* What is covered stays so when the row and the rest grow as much as it does.
LEMMA CoverMoves ==
    ASSUME AmountsOK, NEW b \in Int, NEW f \in Int, NEW o \in Int, NEW d \in Int, NEW s \in Int,
           NEW n \in Int, Changes(b, f, o, d, s, n), NEW x \in Int, NEW y \in Int, NEW e \in Int,
           Crosses(x, y, e), NEW p \in Int, NEW q \in Int, Covered(p),
           q + f + o <= p + d + s + x + y
    PROVE  CoveredNext(q)
BY DEF AmountsOK, Changes, Crosses, Covered, CoveredNext

LEMMA PositiveType == \A n \in Int : Positive(n) \in Int
BY DEF Positive

LEMMA UncrossedCrosses ==
    ASSUME AmountsOK, NEW m \in Int, Uncrossed(m)
    PROVE  \E e \in Int : Crosses(0, 0, e)
<1>1. Crosses(0, 0, 0) \/ Crosses(0, 0, m)
  BY DEF AmountsOK, Uncrossed, Crosses
<1> QED BY <1>1

LEMMA SpendInit == Init => SpendInv
<1> SUFFICES ASSUME Init PROVE SpendInv
  OBVIOUS
<1>1. InFlight = {} /\ Owed = {} /\ \A t \in Topups : tpc[t] = "queued"
  BY DEF Init, InFlight, Owed
<1>2. InFlightSum = 0 /\ OwedSum = 0
  BY <1>1, Sums DEF InFlightSum, OwedSum
<1>3. CrossedPrice \in Nat /\ CrossedTopup \in Nat /\ Left \in Nat /\ db \in Nat /\ db = Opening
  BY TypeInit, Amounts, WalletCacheAssumption DEF AmountsOK, Init
<1>4. Balance = db \/ Balance = 0
  BY <1>3 DEF Balance, Init
<1>5. Positive(Balance) <= db /\ Positive(Balance) \in Nat
  BY <1>3, <1>4 DEF Positive
<1>6. Covered(Positive(Balance))
  BY <1>2, <1>3, <1>5 DEF Covered
<1> QED BY <1>1, <1>6 DEF SpendInv

\* A step of a call that lowers the row and the rest no more than what has to
\* be covered.
Affords(b, f, d, s) == b + f <= d + s /\ f <= d + s

LEMMA SpendCall ==
    ASSUME TypeOK, TypeOK', LostInv, CrossInv, SpendInv, ~Adjusted, NEW c \in Calls, Call(c)
    PROVE  SpendInv'
<1>1. /\ Price \in Nat /\ -Price \in Int /\ 2 * Price \in Nat /\ AmountsOK /\ Balance \in Int
      /\ \A t \in Topups : seen[t].cents \in Int
  BY Amounts, WalletCacheAssumption DEF AmountsOK
<1>2. UNCHANGED <<tpc, seen, Filling>>
  BY CallEffect
<1>3. Covered(Positive(Balance))
  BY DEF SpendInv
<1>4. ASSUME CoveredNext(Positive(Balance')),
             \A t \in Filling : Covered(Positive(seen[t].cents))
                                   => CoveredNext(Positive(seen[t].cents))
      PROVE  SpendInv'
  BY <1>2, <1>4 DEF SpendInv, Filling, Covered, CoveredNext
<1>5. ASSUME NEW b \in Nat, NEW f \in Int, NEW d \in Int, NEW s \in Int, NEW n \in Int,
             NEW m \in Int, Changes(b, f, 0, d, s, n), Uncrossed(m), Affords(b, f, d, s)
      PROVE  SpendInv'
  <2>1. PICK e \in Int : Crosses(0, 0, e)
    BY <1>1, <1>5, UncrossedCrosses
  <2> b \in Int /\ 0 \in Int
    OBVIOUS
  <2>2. Balance' = Balance + b
    BY <1>5 DEF Changes
  <2>3. /\ Positive(Balance') <= Positive(Balance) + b
        /\ Positive(Balance) \in Int /\ Positive(Balance') \in Int
    BY <1>1, <1>5, <2>2 DEF Positive
  <2>4. CoveredNext(Positive(Balance'))
    <3>1. Positive(Balance') + f + 0 <= Positive(Balance) + d + s + 0 + 0
      BY <1>5, <2>3 DEF Affords
    <3>2. AmountsOK /\ n \in Int /\ f \in Int /\ d \in Int /\ s \in Int
      BY <1>1
    <3>3. Changes(b, f, 0, d, s, n) /\ Crosses(0, 0, e) /\ Covered(Positive(Balance))
      BY <1>3, <1>5, <2>1
    <3>4. Positive(Balance) \in Int /\ Positive(Balance') \in Int
      BY <2>3
    <3> QED BY <3>1, <3>2, <3>3, <3>4, CoverMoves
  <2>5. ASSUME NEW t \in Filling, Covered(Positive(seen[t].cents))
        PROVE  CoveredNext(Positive(seen[t].cents))
    <3>1. Positive(seen[t].cents) \in Int
      <4>1. seen[t].cents \in Int
        BY <1>1 DEF Filling
      <4> QED BY <4>1, PositiveType
    <3>2. Positive(seen[t].cents) + f + 0 <= Positive(seen[t].cents) + d + s + 0 + 0
      BY <1>5, <3>1 DEF Affords
    <3>3. AmountsOK /\ n \in Int /\ f \in Int /\ d \in Int /\ s \in Int
      BY <1>1
    <3>4. Changes(b, f, 0, d, s, n) /\ Crosses(0, 0, e) /\ Covered(Positive(seen[t].cents))
      BY <1>5, <2>1, <2>5
    <3> QED BY <3>1, <3>2, <3>3, <3>4, CoverMoves
  <2> QED BY <1>4, <2>4, <2>5
<1>6. CASE /\ Changes(-Price, Price, 0, 0, 0, Price) /\ Balance >= Price
           /\ LeftEven' = LeftEven /\ CrossedTopup' = CrossedTopup
           /\ CrossedPrice' = IF Filling = {} THEN CrossedPrice ELSE CrossedPrice + Price
  <2>1. Balance' = Balance - Price
    BY <1>1, <1>6 DEF Changes
  <2>2. Positive(Balance') = Balance' /\ Positive(Balance) = Balance
    BY <1>1, <1>6, <2>1 DEF Positive
  <2>3. CASE Filling = {}
    <3>1. Crosses(0, 0, 0)
      BY <1>1, <1>6, <2>3 DEF AmountsOK, Crosses
    <3>2. (Balance - Price) + Price + 0 <= Balance + 0 + 0 + 0 + 0 /\ Balance - Price \in Int
      BY <1>1
    <3>3. CoveredNext(Balance - Price)
      BY <1>1, <1>3, <1>6, <2>2, <3>1, <3>2, CoverMoves
    <3> QED BY <1>4, <2>1, <2>2, <2>3, <3>3
  <2>4. CASE Filling # {}
    <3>1. Crosses(Price, 0, 0)
      BY <1>1, <1>6, <2>4 DEF AmountsOK, Crosses
    <3>2. (Balance - Price) + Price + 0 <= Balance + 0 + 0 + Price + 0 /\ Balance - Price \in Int
      BY <1>1
    <3>3. CoveredNext(Balance - Price)
      BY <1>1, <1>3, <1>6, <2>2, <3>1, <3>2, CoverMoves
    <3>4. ASSUME NEW t \in Filling, Covered(Positive(seen[t].cents))
          PROVE  CoveredNext(Positive(seen[t].cents))
      <4>1. Positive(seen[t].cents) \in Int
        <5>1. seen[t].cents \in Int
          BY <1>1 DEF Filling
        <5> QED BY <5>1, PositiveType
      <4>2. Positive(seen[t].cents) + Price + 0 <= Positive(seen[t].cents) + 0 + 0 + Price + 0
        BY <1>1, <4>1
      <4> QED BY <1>1, <1>6, <3>1, <3>4, <4>1, <4>2, CoverMoves
    <3> QED BY <1>4, <2>1, <2>2, <3>3, <3>4
  <2> QED BY <2>3, <2>4
<1>7. CASE Changes(0, -Price, 0, -Price, 0, -Price) /\ Uncrossed(0)
  <2>1. Affords(0, -Price, -Price, 0)
    BY <1>1 DEF Affords
  <2>2. 0 \in Nat /\ -Price \in Int /\ 0 \in Int
    BY <1>1
  <2> QED BY <1>5, <1>7, <2>1, <2>2
<1>8. CASE Unspent /\ Uncrossed(0)
  <2>1. Changes(0, 0, 0, 0, 0, 0) /\ Uncrossed(0)
    BY <1>8 DEF Unspent
  <2>2. Affords(0, 0, 0, 0)
    BY <1>1 DEF Affords
  <2>3. 0 \in Nat /\ 0 \in Int
    BY <1>1
  <2> QED BY <1>5, <2>1, <2>2, <2>3
<1>9. CASE Changes(0, 0, 0, -Price, Price, 0) /\ Uncrossed(Price)
  <2>1. Affords(0, 0, -Price, Price)
    BY <1>1 DEF Affords
  <2>2. 0 \in Nat /\ 0 \in Int /\ -Price \in Int /\ Price \in Int
    BY <1>1
  <2> QED BY <1>5, <1>9, <2>1, <2>2
<1>10. CASE Changes(Price, -Price, 0, 0, 0, 0) /\ Uncrossed(0)
  <2>1. Affords(Price, -Price, 0, 0)
    BY <1>1 DEF Affords
  <2>2. Price \in Nat /\ -Price \in Int /\ 0 \in Int
    BY <1>1
  <2> QED BY <1>5, <1>10, <2>1, <2>2
<1>11. CASE Changes(0, -Price, 0, 0, 0, -Price) /\ Uncrossed(0)
  <2>1. Affords(0, -Price, 0, 0)
    BY <1>1 DEF Affords
  <2>2. 0 \in Nat /\ -Price \in Int /\ 0 \in Int
    BY <1>1
  <2> QED BY <1>5, <1>11, <2>1, <2>2
<1>12. CASE Changes(2 * Price, -Price, 0, 0, Price, 0) /\ Uncrossed(Price)
  <2>1. Affords(2 * Price, -Price, 0, Price)
    BY <1>1 DEF Affords
  <2>2. 2 * Price \in Nat /\ -Price \in Int /\ 0 \in Int /\ Price \in Int
    BY <1>1
  <2> QED BY <1>5, <1>12, <2>1, <2>2
<1> QED BY <1>6, <1>7, <1>8, <1>9, <1>10, <1>11, <1>12, CallEffect

LEMMA SpendTopup ==
    ASSUME TypeOK, TypeOK', LostInv, CrossInv, SpendInv, ~Adjusted, NEW t \in Topups, Topup(t)
    PROVE  SpendInv'
<1>1. /\ Credit \in Nat /\ -Credit \in Int /\ 2 * Credit \in Nat /\ Balance \in Int /\ db \in Int
      /\ 0 \in Int /\ \A u \in Topups : seen[u].cents \in Int
      /\ InFlightSum \in Nat /\ OwedSum \in Nat /\ CrossedPrice \in Nat /\ CrossedTopup \in Nat
      /\ Left \in Nat
  BY Amounts, WalletCacheAssumption DEF AmountsOK
<1>2. AmountsOK
  BY Amounts
<1>3. \A u \in Topups : u # t => tpc'[u] = tpc[u] /\ seen'[u] = seen[u]
  BY TopupEffect
<1>4. /\ Covered(Positive(Balance)) /\ Positive(Balance) \in Int
      /\ \A u \in Topups : tpc[u] = "filling" =>
            Covered(Positive(seen[u].cents)) /\ Positive(seen[u].cents) \in Int
  BY <1>1, PositiveType DEF SpendInv
<1>5. ASSUME CoveredNext(Positive(Balance')),
             \A n \in Int : Covered(n) => CoveredNext(n),
             tpc'[t] = "filling" => CoveredNext(Positive(seen'[t].cents))
      PROVE  SpendInv'
  <2>1. Covered(Positive(Balance))'
    BY <1>5 DEF Covered, CoveredNext
  <2>2. ASSUME NEW u \in Topups, tpc'[u] = "filling"
        PROVE  Covered(Positive(seen[u].cents))'
    <3>1. CoveredNext(Positive(seen'[u].cents))
      BY <1>3, <1>4, <1>5, <2>2
    <3> QED BY <3>1 DEF Covered, CoveredNext
  <2> QED BY <2>1, <2>2 DEF SpendInv
<1>6. ASSUME NEW o \in Int, NEW d \in Int, NEW s \in Int, NEW b \in Int, Changes(b, 0, o, d, s, 0),
             NEW x \in Nat, NEW y \in Nat, NEW e \in Int, Crosses(x, y, e), o <= d + s
      PROVE  \A n \in Int : Covered(n) => CoveredNext(n)
  <2> SUFFICES ASSUME NEW n \in Int, Covered(n) PROVE CoveredNext(n)
    OBVIOUS
  <2>1. n + 0 + o <= n + d + s + x + y /\ x \in Int /\ y \in Int /\ 0 \in Int
    BY <1>6
  <2>2. Changes(b, 0, o, d, s, 0) /\ Crosses(x, y, e)
    BY <1>6
  <2> QED BY <1>2, <2>1, <2>2, CoverMoves
<1>7. ASSUME Unspent, Uncrossed(0), tpc'[t] # "filling" PROVE SpendInv'
  <2>1. PICK e \in Int : Crosses(0, 0, e)
    BY <1>1, <1>2, <1>7, UncrossedCrosses
  <2>2. Changes(0, 0, 0, 0, 0, 0) /\ Balance' = Balance
    BY <1>1, <1>7 DEF Unspent, Changes
  <2>3. \A n \in Int : Covered(n) => CoveredNext(n)
    <3>1. 0 \in Int /\ 0 \in Nat /\ 0 <= 0 + 0
      OBVIOUS
    <3> QED BY <1>6, <2>1, <2>2, <3>1
  <2> QED BY <1>4, <1>5, <1>7, <2>2, <2>3
<1>8. CASE TopupReads(t) \/ TopupReadsOn(t)
  <2>1. Unspent /\ Uncrossed(0) /\ tpc'[t] # "filling"
    BY <1>8, CheckedType DEF TopupReads, TopupReadsOn
  <2> QED BY <1>7, <2>1
<1>9. CASE TopupFails(t)
  <2>1. CASE Unspent /\ Uncrossed(0)
    <3>1. tpc'[t] # "filling"
      BY <1>9 DEF TopupFails
    <3> QED BY <1>7, <2>1, <3>1
  <2>2. CASE Changes(0, 0, -Credit, 0, 0, 0) /\ UNCHANGED key /\ Uncrossed(0) /\ tpc'[t] = "done"
    <3>1. PICK e \in Int : Crosses(0, 0, e)
      BY <1>1, <1>2, <2>2, UncrossedCrosses
    <3>2. Balance' = Balance
      BY <2>2 DEF Balance
    <3>3. -Credit <= 0 + 0
      BY <1>1
    <3>4. \A n \in Int : Covered(n) => CoveredNext(n)
      BY <1>1, <1>6, <2>2, <3>1, <3>3
    <3> QED BY <1>4, <1>5, <2>2, <3>2, <3>4
  <2> QED BY <1>9, <2>1, <2>2 DEF TopupFails
<1>10. CASE TopupLoads(t)
  <2>1. PICK x, y \in Nat, e \in Int : Widens(x, y, e)
    BY <1>10 DEF TopupLoads
  <2>2. Crosses(x, y, e) /\ InFlightSum <= CrossedPrice + x /\ OwedSum <= CrossedTopup + y
    BY <2>1 DEF Widens
  <2>3. Changes(0, 0, 0, 0, 0, 0) /\ UNCHANGED <<Balance, db, InFlightSum, OwedSum, Left>>
    BY <1>1, <1>10 DEF TopupLoads, Unspent, Changes
  <2>4. \A n \in Int : Covered(n) => CoveredNext(n)
    <3>1. 0 \in Int /\ 0 <= 0 + 0
      OBVIOUS
    <3> QED BY <1>6, <2>2, <2>3, <3>1
  <2>5. CoveredNext(Positive(db))
    <3>1. CASE db >= 0
      <4>1. Positive(db) = db
        BY <1>1, <3>1 DEF Positive
      <4>2. CrossedPrice' = CrossedPrice + x /\ CrossedTopup' = CrossedTopup + y
        BY <2>2 DEF Crosses
      <4>3. db + InFlightSum + OwedSum <= db + (CrossedPrice + x) + (CrossedTopup + y) + Left
        BY <1>1, <2>2
      <4> QED BY <2>3, <4>1, <4>2, <4>3 DEF CoveredNext
    <3>2. CASE ~(db >= 0)
      <4>1. Positive(db) = 0 /\ Positive(Balance) \in Nat
        BY <1>1, <3>2 DEF Positive
      <4>2. Covered(0)
        BY <1>1, <1>4, <4>1 DEF Covered
      <4> QED BY <1>1, <2>4, <4>1, <4>2
    <3> QED BY <3>1, <3>2
  <2>6. CoveredNext(Positive(Balance')) /\ seen'[t].cents = db
    BY <1>4, <1>10, <2>3, <2>4 DEF TopupLoads
  <2> QED BY <1>5, <2>4, <2>5, <2>6
<1>11. CASE TopupFills(t)
  <2>1. /\ tpc[t] = "filling" /\ tpc'[t] = "flagging" /\ key' = seen[t].cents
        /\ UNCHANGED <<db, InFlightSum, OwedSum, Left, CrossedPrice, CrossedTopup>>
    BY <1>11 DEF TopupFills, Uncrossed
  <2>2. Balance' = seen[t].cents
    BY <1>1, <2>1, WalletCacheAssumption DEF Balance
  <2>3. \A n \in Int : Covered(n) => CoveredNext(n)
    BY <2>1 DEF Covered, CoveredNext
  <2>4. CoveredNext(Positive(Balance'))
    BY <1>4, <2>1, <2>2, <2>3
  <2> QED BY <1>5, <2>1, <2>3, <2>4
<1>12. CASE TopupCredits(t)
  <2>1. /\ Changes(0, 0, Credit, Credit, 0, 0) /\ UNCHANGED key /\ tpc'[t] = "crediting"
        /\ Crosses(0, 0, 0) \/ Crosses(0, Credit, 0)
    BY <1>1, <1>2, <1>12 DEF TopupCredits, Crosses, AmountsOK
  <2>2. Balance' = Balance
    BY <2>1 DEF Balance
  <2>3. Credit <= Credit + 0 /\ 0 \in Nat
    BY <1>1
  <2>4. \A n \in Int : Covered(n) => CoveredNext(n)
    <3>1. CASE Crosses(0, 0, 0)
      <4>1. Credit \in Int /\ 0 \in Int
        BY <1>1
      <4> QED BY <1>6, <2>1, <2>3, <3>1, <4>1
    <3>2. CASE Crosses(0, Credit, 0)
      BY <1>1, <1>6, <2>1, <2>3, <3>2
    <3> QED BY <2>1, <3>1, <3>2
  <2> QED BY <1>4, <1>5, <2>1, <2>2, <2>4
<1>13. ASSUME NEW b \in Nat, NEW s \in Nat, Changes(b, 0, -Credit, 0, s, 0), Uncrossed(s),
              b <= Credit + s, tpc'[t] = "done"
       PROVE  SpendInv'
  <2>1. PICK e \in Int : Crosses(0, 0, e)
    BY <1>2, <1>13, UncrossedCrosses
  <2>2. \A n \in Int : Covered(n) => CoveredNext(n)
    <3>1. -Credit <= 0 + s /\ b \in Int /\ s \in Int /\ 0 \in Nat
      BY <1>1
    <3> QED BY <1>1, <1>6, <1>13, <2>1, <3>1
  <2>3. Balance' = Balance + b
    BY <1>13 DEF Changes
  <2>4. Positive(Balance') <= Positive(Balance) + b /\ Positive(Balance') \in Int
    BY <1>1, <2>3 DEF Positive
  <2>5. Positive(Balance') + 0 + (-Credit) <= Positive(Balance) + 0 + s + 0 + 0
    BY <1>1, <1>4, <1>13, <2>4
  <2>6. CoveredNext(Positive(Balance'))
    <3>1. b \in Int /\ s \in Int /\ -Credit \in Int /\ 0 \in Int /\ Positive(Balance) \in Int
      BY <1>1, <1>4
    <3>2. Changes(b, 0, -Credit, 0, s, 0) /\ Crosses(0, 0, e) /\ Covered(Positive(Balance))
      BY <1>4, <1>13, <2>1
    <3> QED BY <1>2, <2>4, <2>5, <3>1, <3>2, CoverMoves
  <2> QED BY <1>5, <1>13, <2>2, <2>6
<1>14. CASE TopupPays(t)
  <2>1. /\ Credit <= Credit + 0 /\ 2 * Credit <= Credit + Credit /\ 0 \in Nat
    BY <1>1
  <2>2. CASE Changes(Credit, 0, -Credit, 0, 0, 0) /\ Uncrossed(0)
    BY <1>1, <1>13, <1>14, <2>1, <2>2 DEF TopupPays
  <2>3. CASE Changes(2 * Credit, 0, -Credit, 0, Credit, 0) /\ Uncrossed(Credit)
    BY <1>1, <1>13, <1>14, <2>1, <2>3 DEF TopupPays
  <2> QED BY <1>14, <2>2, <2>3 DEF TopupPays
<1> QED BY <1>8, <1>9, <1>10, <1>11, <1>12, <1>14, TopupEffect

\* Losing the keys takes away what could be spent.
LEMMA SpendFlush ==
    ASSUME TypeOK, SpendInv, ~Adjusted, Flush
    PROVE  SpendInv'
<1>1. /\ Balance \in Int /\ InFlightSum \in Nat /\ OwedSum \in Nat /\ CrossedPrice \in Nat
      /\ CrossedTopup \in Nat /\ Left \in Nat /\ db \in Int
  BY Amounts DEF AmountsOK
<1>2. UNCHANGED <<db, cpc, tpc, seen, lost, marks>> /\ key' = Absent
  BY DEF Flush, rows, pcs
<1>3. UNCHANGED <<InFlightSum, OwedSum, CrossedPrice, CrossedTopup, Left>>
  BY <1>2, SameBalances
<1>4. Positive(Balance') = 0 /\ Positive(Balance) >= 0 /\ Positive(Balance) \in Int
  BY <1>1, <1>2 DEF Positive, Balance
<1>5. Covered(Positive(Balance))
  BY DEF SpendInv
<1>6. Covered(0)
  BY <1>1, <1>4, <1>5 DEF Covered
<1>7. Covered(Positive(Balance))'
  BY <1>2, <1>3, <1>4, <1>6 DEF Covered
<1>8. \A t \in Topups : tpc'[t] = "filling" => Covered(Positive(seen[t].cents))'
  BY <1>2, <1>3 DEF SpendInv, Covered
<1> QED BY <1>7, <1>8 DEF SpendInv

LEMMA SpendStep ==
    TypeOK /\ TypeOK' /\ LostInv /\ CrossInv /\ ExpiryInv /\ SpendInv /\ [Next]_vars => SpendInv'
<1> SUFFICES ASSUME TypeOK, TypeOK', LostInv, CrossInv, ExpiryInv, SpendInv, [Next]_vars,
                    ~Adjusted'
             PROVE  SpendInv'
  BY DEF SpendInv
<1>1. ~Adjusted
  BY AdjustedStays
<1>2. ~Expire
  BY <1>1 DEF Expire, ExpiryInv
<1>3. CASE \/ \E d \in Disputes : Dispute(d)
           \/ \E a \in Adjustments : Adjust(a)
           \/ UNCHANGED vars
  <2>1. /\ UNCHANGED <<key, db, cpc, tpc, lost, marks>>
        /\ \A t \in Topups : seen'[t] = seen[t]
    BY <1>3, OthersLeaveBalances
  <2>2. UNCHANGED <<InFlightSum, OwedSum, CrossedPrice, CrossedTopup, Left>> /\ Balance' = Balance
    BY <2>1, SameBalances DEF Balance
  <2>3. Covered(Positive(Balance))'
    BY <1>1, <2>1, <2>2 DEF SpendInv, Covered
  <2>4. \A t \in Topups : tpc'[t] = "filling" => Covered(Positive(seen[t].cents))'
    BY <1>1, <2>1, <2>2 DEF SpendInv, Covered
  <2> QED BY <2>3, <2>4 DEF SpendInv
<1> QED BY <1>1, <1>2, <1>3, SpendCall, SpendTopup, SpendFlush DEF Next

\* With any number of workers and of losses, and until an adjustment is
\* written, the row is overspent at most by what crossed a fill and what lost
\* replies left in Redis (bootstrapWalletCache reads the row before such a
\* charge or credit, and writes Redis after it).
THEOREM OverspendBounded == Spec => []OverspendBound
<1> DEFINE I == TypeOK /\ LostInv /\ CrossInv /\ ExpiryInv /\ SpendInv
<1>1. Init => I
  BY TypeInit, LostInit, CrossInit, ExpiryInit, SpendInit
<1>2. I /\ [Next]_vars => I'
  BY TypeStep, LostStep, CrossStep, ExpiryStep, SpendStep
<1>3. I => OverspendBound
  <2> SUFFICES ASSUME TypeOK, SpendInv, ~Adjusted
               PROVE  db + PriceOf(crossed) + CreditOf(crossed) + Surplus({}) >= 0
    BY DEF OverspendBound
  <2>1. /\ Positive(Balance) + InFlightSum + OwedSum <= db + CrossedPrice + CrossedTopup + Left
        /\ CrossedPrice = PriceOf(crossed) /\ CrossedTopup = CreditOf(crossed)
        /\ Left = Surplus({})
    BY DEF SpendInv, Covered, CrossedPrice, CrossedTopup, Left
  <2>2. /\ Positive(Balance) \in Nat /\ InFlightSum \in Nat /\ OwedSum \in Nat
        /\ CrossedPrice \in Nat /\ CrossedTopup \in Nat /\ Left \in Nat /\ db \in Int
    BY Amounts DEF AmountsOK
  <2> QED BY <2>1, <2>2
<1> QED BY <1>1, <1>2, <1>3, PTL DEF Spec

-----------------------------------------------------------------------------
(***************************************************************************)
(* What an adjustment erases.                                              *)
(***************************************************************************)
\* A step that records a charge or a top-up, and one that records nothing.
Records(x, amount) ==
    /\ db' = db + amount /\ ledger' = ledger + amount
    /\ missed' = IF \E a \in Adjustments : apc[a] = "read" THEN missed \cup {x} ELSE missed
    /\ x \notin missed

LEMMA RowEffect ==
    ASSUME TypeOK, LostInv, MissedInv,
           \/ \E c \in Calls : Call(c)
           \/ \E t \in Topups : Topup(t)
           \/ \E d \in Disputes : Dispute(d)
           \/ Expire \/ Flush \/ UNCHANGED vars
    PROVE  /\ UNCHANGED apc /\ \A a \in Adjustments : seen'[a] = seen[a]
           /\ \/ UNCHANGED <<db, ledger, missed>>
              \/ \E c \in Calls : Records(c, -Price)
              \/ \E t \in Topups : Records(t, Credit)
<1>1. ASSUME NEW c \in Calls, Call(c)
      PROVE  UNCHANGED <<apc, seen>> /\ (UNCHANGED <<db, ledger, missed>> \/ Records(c, -Price))
  <2>1. UNCHANGED <<apc, seen>>
    BY <1>1, CallLeaves
  <2>2. CASE RecordCharge(c) \/ RecordChargeUnheard(c)
    <3>1. cpc[c] = "recording" /\ Record(c, -Price)
      BY <2>2 DEF RecordCharge, RecordChargeUnheard, CallMove
    <3>2. c \notin missed
      BY <3>1 DEF MissedInv, LostInv
    <3> QED BY <2>1, <3>1, <3>2 DEF Record, Records
  <2>3. CASE ~(RecordCharge(c) \/ RecordChargeUnheard(c))
    BY <1>1, <2>1, <2>3 DEF Call, Charge, Reject, RecordChargeFails, RollbackRedis,
       RollbackRedisTwice, rows, past, marks
  <2> QED BY <2>2, <2>3
<1>2. ASSUME NEW t \in Topups, Topup(t)
      PROVE  /\ UNCHANGED apc /\ \A a \in Adjustments : seen'[a] = seen[a]
             /\ UNCHANGED <<db, ledger, missed>> \/ Records(t, Credit)
  <2>1. UNCHANGED apc
    BY <1>2, TopupLeaves
  <2>2. \A a \in Adjustments : seen'[a] = seen[a]
    <3>1. t \notin Adjustments
      BY WalletCacheAssumption
    <3>2. seen' = seen \/ seen' = [seen EXCEPT ![t] = Row]
      BY <1>2 DEF Topup, TopupRead, TopupLoad, TopupFill, TopupFlag, TopupFillFails, TopupDb,
             TopupRedis, TopupRedisTwice
    <3> QED BY <3>1, <3>2 DEF TypeOK
  <2>3. CASE TopupDb(t)
    <3>1. tpc[t] = "checked" /\ Record(t, Credit)
      BY <2>3 DEF TopupDb, TopupMove
    <3>2. t \notin missed
      BY <3>1 DEF MissedInv
    <3> QED BY <2>1, <2>2, <3>1, <3>2 DEF Record, Records
  <2>4. CASE ~TopupDb(t)
    BY <1>2, <2>1, <2>2, <2>4 DEF Topup, TopupRead, TopupLoad, TopupFill, TopupFlag,
       TopupFillFails, TopupRedis, TopupRedisTwice, rows, past, marks
  <2> QED BY <2>3, <2>4
<1>3. CASE \E d \in Disputes : Dispute(d)
  <2>1. UNCHANGED <<db, ledger, apc, seen, marks>>
    BY <1>3, DisputeLeaves
  <2> QED BY <2>1 DEF marks
<1>4. CASE Expire \/ Flush \/ UNCHANGED vars
  BY <1>4 DEF Expire, Flush, vars, rows, pcs, past, marks
<1> QED BY <1>1, <1>2, <1>3, <1>4

LEMMA MissedInit == Init => MissedInv
BY DEF Init, MissedInv

LEMMA MissedStep == TypeOK /\ LostInv /\ MissedInv /\ [Next]_vars => MissedInv'
<1> SUFFICES ASSUME TypeOK, LostInv, MissedInv, [Next]_vars PROVE MissedInv'
  OBVIOUS
<1>1. ASSUME NEW c \in Calls, Call(c) PROVE MissedInv'
  <2>1. UNCHANGED tpc
    BY <1>1, CallLeaves
  <2>2. CASE RecordCharge(c)
    BY <2>1, <2>2, WalletCacheAssumption
    DEF RecordCharge, Record, CallMove, MissedInv, TypeOK, lost
  <2>3. CASE RecordChargeUnheard(c)
    BY <2>1, <2>3, WalletCacheAssumption
    DEF RecordChargeUnheard, Record, CallMove, MissedInv, TypeOK
  <2>4. CASE ~(RecordCharge(c) \/ RecordChargeUnheard(c))
    <3>1. /\ UNCHANGED <<missed, unheard>> /\ cpc[c] # "charged"
          /\ \A d \in Calls : d # c => cpc'[d] = cpc[d]
      BY <1>1, <2>4 DEF TypeOK, Call, Charge, Reject, RecordChargeFails, RollbackRedis,
         RollbackRedisTwice, CallMove, past, marks, lost
    <3> QED BY <2>1, <3>1 DEF MissedInv
  <2> QED BY <2>2, <2>3, <2>4
<1>2. ASSUME NEW t \in Topups, Topup(t) PROVE MissedInv'
  <2>1. UNCHANGED <<cpc, unheard>>
    BY <1>2 DEF Topup, TopupRead, TopupLoad, TopupFill, TopupFlag, TopupFillFails, TopupDb,
       TopupRedis, TopupRedisTwice, TopupMove, past, lost
  <2>2. CASE TopupDb(t)
    BY <2>1, <2>2, WalletCacheAssumption DEF TopupDb, Record, TopupMove, MissedInv, TypeOK
  <2>3. CASE ~TopupDb(t)
    <3>1. /\ UNCHANGED missed
          /\ tpc[t] \in {"crediting", "done"} => tpc'[t] \in {"crediting", "done"}
          /\ \A u \in Topups : u # t => tpc'[u] = tpc[u]
      BY <1>2, <2>3 DEF TypeOK, Topup, TopupRead, TopupLoad, TopupFill, TopupFlag, TopupFillFails,
         TopupRedis, TopupRedisTwice, TopupMove, past, marks
    <3> QED BY <2>1, <3>1 DEF MissedInv
  <2> QED BY <2>2, <2>3
<1>3. CASE \E d \in Disputes : Dispute(d)
  BY <1>3, DisputeLeaves DEF MissedInv, marks, lost
<1>4. CASE \E a \in Adjustments : Adjust(a)
  BY <1>4 DEF MissedInv, Adjust, AdjustRead, AdjustWrite, AdjustRefused, AdjustReload, AdjustSet,
              AdjustMove, past, marks, lost
<1>5. CASE Expire \/ Flush \/ UNCHANGED vars
  BY <1>5 DEF MissedInv, Expire, Flush, vars, pcs, past, marks, lost
<1> QED BY <1>1, <1>2, <1>3, <1>4, <1>5 DEF Next

\* What the calls and top-ups of a set have added to the row.
Net(S) == CreditOf(S) - PriceOf(S)

LEMMA Nets ==
    ASSUME NEW S \in SUBSET Named
    PROVE  /\ Net(S) \in Int /\ Net({}) = 0
           /\ \A c \in Calls : c \notin S => Net(S \cup {c}) = Net(S) - Price
           /\ \A t \in Topups : t \notin S => Net(S \cup {t}) = Net(S) + Credit
<1>1. CreditOf(S) \in Int /\ PriceOf(S) \in Int /\ CreditOf({}) = 0 /\ PriceOf({}) = 0
  BY Sums
<1>2. Price \in Int /\ Credit \in Int
  BY WalletCacheAssumption
<1>3. ASSUME NEW c \in Calls, c \notin S PROVE Net(S \cup {c}) = Net(S) - Price
  <2>1. CreditOf(S \cup {c}) = CreditOf(S) /\ PriceOf(S \cup {c}) = PriceOf(S) + Price
    BY <1>3, Sums
  <2> QED BY <1>1, <1>2, <2>1 DEF Net
<1>4. ASSUME NEW t \in Topups, t \notin S PROVE Net(S \cup {t}) = Net(S) + Credit
  <2>1. CreditOf(S \cup {t}) = CreditOf(S) + Credit /\ PriceOf(S \cup {t}) = PriceOf(S)
    BY <1>4, Sums
  <2> QED BY <1>1, <1>2, <2>1 DEF Net
<1>5. Net(S) \in Int /\ Net({}) = 0
  BY <1>1 DEF Net
<1> QED BY <1>3, <1>4, <1>5

LEMMA EraseInit == Init => EraseInv
<1> SUFFICES ASSUME Init PROVE EraseInv
  OBVIOUS
<1>1. /\ Opening \in Nat /\ Opening + ledger = db /\ Opening + ledger - db = 0 /\ missed = {}
      /\ \A a \in Adjustments : apc[a] = "asked"
  BY WalletCacheAssumption DEF Init
<1>2. ~Adjusted
  BY <1>1 DEF Adjusted
<1> QED BY <1>1, <1>2 DEF EraseInv, AdjustmentErases

LEMMA EraseRow ==
    ASSUME TypeOK, TypeOK', LostInv, MissedInv, EraseInv,
           \/ \E c \in Calls : Call(c)
           \/ \E t \in Topups : Topup(t)
           \/ \E d \in Disputes : Dispute(d)
           \/ Expire \/ Flush \/ UNCHANGED vars
    PROVE  EraseInv'
<1>1. /\ db \in Int /\ ledger \in Int /\ Opening \in Int /\ Price \in Int /\ Credit \in Int
      /\ \A a \in Adjustments : seen[a].cents \in Int
      /\ missed \in SUBSET Named
  BY WalletCacheAssumption DEF TypeOK, Named
<1>2. UNCHANGED apc /\ \A a \in Adjustments : seen'[a] = seen[a]
  BY RowEffect
<1>3. Adjusted' = Adjusted
  BY <1>2 DEF Adjusted
<1>4. CASE UNCHANGED <<db, ledger, missed>>
  <2>1. CreditOf(missed)' = CreditOf(missed) /\ PriceOf(missed)' = PriceOf(missed)
    BY <1>4 DEF CreditOf, PriceOf
  <2> QED BY <1>2, <1>3, <1>4, <2>1 DEF EraseInv, AdjustmentErases
<1>5. ASSUME NEW x \in Named, NEW m \in Int, Records(x, m),
             Net(missed \cup {x}) = Net(missed) + m
      PROVE  EraseInv'
  <2>1. db' = db + m /\ ledger' = ledger + m
    BY <1>5 DEF Records
  <2>2. Opening + ledger' - db' = Opening + ledger - db
    BY <1>1, <2>1
  <2>3. ~Adjusted' => Opening + ledger' = db' /\ Opening + ledger' - db' = 0
    BY <1>1, <1>3, <2>1 DEF EraseInv
  <2>4. CASE \A a \in Adjustments : apc[a] # "read"
    <3>1. missed' = missed
      BY <1>5, <2>4 DEF Records
    <3>2. CreditOf(missed)' = CreditOf(missed) /\ PriceOf(missed)' = PriceOf(missed)
      BY <3>1 DEF CreditOf, PriceOf
    <3>3. AdjustmentErases'
      BY <1>3, <2>2, <2>3, <3>2 DEF EraseInv, AdjustmentErases
    <3> QED BY <1>2, <2>3, <2>4, <3>1, <3>3 DEF EraseInv
  <2>5. ASSUME NEW a \in Adjustments, apc[a] = "read"
        PROVE  EraseInv'
    <3>1. missed' = missed \cup {x}
      BY <1>5, <2>5 DEF Records
    <3>2. CreditOf(missed)' - PriceOf(missed)' = Net(missed \cup {x})
      BY <3>1 DEF Net, CreditOf, PriceOf
    <3>3. ASSUME Cardinality(Adjustments) = 1
          PROVE  /\ Adjustments = {a} /\ ~Adjusted'
                 /\ db' - seen'[a].cents = CreditOf(missed)' - PriceOf(missed)'
      <4>1. Adjustments = {a}
        BY <3>3, FS_Singleton, WalletCacheAssumption
      <4>2. ~Adjusted'
        BY <1>3, <2>5, <4>1 DEF Adjusted
      <4>3. db - seen[a].cents = Net(missed)
        BY <2>5, <3>3 DEF EraseInv, Net
      <4>4. db' - seen'[a].cents = Net(missed) + m
        BY <1>1, <1>2, <2>1, <4>3
      <4> QED BY <1>5, <3>2, <4>1, <4>2, <4>4
    <3>4. AdjustmentErases'
      BY <2>3, <3>3 DEF AdjustmentErases
    <3> QED BY <1>2, <2>3, <2>5, <3>3, <3>4 DEF EraseInv
  <2> QED BY <2>4, <2>5
<1>6. ASSUME NEW c \in Calls, Records(c, -Price) PROVE EraseInv'
  <2>1. c \in Named /\ -Price \in Int /\ c \notin missed /\ Net(missed) \in Int
    BY <1>1, <1>6, Nets DEF Named, Records
  <2>2. Net(missed \cup {c}) = Net(missed) + (-Price)
    <3>1. Net(missed \cup {c}) = Net(missed) - Price
      BY <1>1, <2>1, Nets
    <3> QED BY <1>1, <2>1, <3>1
  <2> QED BY <1>5, <1>6, <2>1, <2>2
<1>7. ASSUME NEW t \in Topups, Records(t, Credit) PROVE EraseInv'
  <2>1. t \in Named /\ t \notin missed
    BY <1>7 DEF Named, Records
  <2>2. Net(missed \cup {t}) = Net(missed) + Credit
    BY <1>1, <2>1, Nets
  <2> QED BY <1>1, <1>5, <1>7, <2>1, <2>2
<1> QED BY <1>4, <1>6, <1>7, RowEffect

LEMMA EraseAdjust ==
    ASSUME TypeOK, TypeOK', EraseInv, NEW a \in Adjustments, Adjust(a)
    PROVE  EraseInv'
<1>1. /\ db \in Int /\ ledger \in Int /\ Opening \in Int /\ Amount[a] \in Int
      /\ \A b \in Adjustments : seen[b].cents \in Int
  BY WalletCacheAssumption DEF TypeOK
<1>2. missed' = missed
  BY DEF Adjust, AdjustRead, AdjustWrite, AdjustRefused, AdjustReload, AdjustSet, past, marks
<1>3. CreditOf(missed)' = CreditOf(missed) /\ PriceOf(missed)' = PriceOf(missed)
  BY <1>2 DEF CreditOf, PriceOf
<1>4. \A b \in Adjustments : b # a => apc'[b] = apc[b]
  BY DEF TypeOK, Adjust, AdjustRead, AdjustWrite, AdjustRefused, AdjustReload, AdjustSet, AdjustMove
<1>5. Cardinality(Adjustments) = 1 => Adjustments = {a}
  BY FS_Singleton, WalletCacheAssumption
<1>6. CASE AdjustRead(a)
  <2>1. /\ UNCHANGED <<db, ledger>> /\ apc[a] = "asked" /\ apc'[a] = "read" /\ seen'[a].cents = db
    BY <1>6 DEF AdjustRead, AdjustMove, Row, TypeOK, rows
  <2>2. Adjusted' = Adjusted
    BY <1>4, <2>1 DEF Adjusted
  <2>3. ASSUME Cardinality(Adjustments) = 1
        PROVE  /\ \A b \in Adjustments : apc'[b] # "asked"
               /\ \A b \in Adjustments :
                     db' - seen'[b].cents = CreditOf(missed)' - PriceOf(missed)'
    <3>1. missed = {}
      BY <2>1, <2>3 DEF EraseInv
    <3>2. CreditOf(missed) - PriceOf(missed) = 0
      BY <3>1, Sums
    <3>3. db' - seen'[a].cents = 0
      BY <1>1, <2>1
    <3> QED BY <1>3, <1>5, <2>1, <2>3, <3>2, <3>3
  <2>4. AdjustmentErases'
    BY <1>3, <2>1, <2>2 DEF EraseInv, AdjustmentErases
  <2> QED BY <2>1, <2>2, <2>3, <2>4 DEF EraseInv
<1>7. CASE AdjustWrite(a)
  <2>1. /\ apc[a] = "read" /\ apc'[a] = "written"
        /\ db' = seen[a].cents + Amount[a] /\ ledger' = ledger + Amount[a]
    BY <1>7 DEF AdjustWrite, AdjustMove, TypeOK
  <2>2. Adjusted'
    BY <2>1 DEF Adjusted
  <2>3. ASSUME Cardinality(Adjustments) = 1
        PROVE  /\ Opening + ledger' - db' = CreditOf(missed)' - PriceOf(missed)'
               /\ \A b \in Adjustments : apc'[b] \notin {"asked", "read"}
    <3>1. ~Adjusted
      BY <1>5, <2>1, <2>3 DEF Adjusted
    <3>2. Opening + ledger = db /\ db - seen[a].cents = CreditOf(missed) - PriceOf(missed)
      BY <2>1, <2>3, <3>1 DEF EraseInv
    <3>3. Opening + ledger' - db' = db - seen[a].cents
      BY <1>1, <2>1, <3>2
    <3> QED BY <1>3, <1>5, <2>1, <2>3, <3>2, <3>3
  <2>4. AdjustmentErases'
    BY <2>2, <2>3 DEF AdjustmentErases
  <2> QED BY <2>2, <2>3, <2>4 DEF EraseInv
<1>8. CASE AdjustRefused(a) \/ AdjustReload(a) \/ AdjustSet(a)
  <2>1. UNCHANGED <<db, ledger>> /\ apc'[a] \in {"refused", "reloaded", "done"}
    BY <1>8 DEF AdjustRefused, AdjustReload, AdjustSet, AdjustMove, TypeOK, rows
  <2>2. Adjusted' = Adjusted
    BY <1>4, <1>8 DEF AdjustRefused, AdjustReload, AdjustSet, AdjustMove, TypeOK, Adjusted
  <2>3. Cardinality(Adjustments) = 1 => \A b \in Adjustments : apc'[b] \notin {"asked", "read"}
    BY <1>5, <2>1
  <2>4. AdjustmentErases'
    BY <1>3, <2>1, <2>2 DEF EraseInv, AdjustmentErases
  <2> QED BY <2>1, <2>2, <2>3, <2>4 DEF EraseInv
<1> QED BY <1>6, <1>7, <1>8 DEF Adjust

LEMMA EraseStep == TypeOK /\ TypeOK' /\ LostInv /\ MissedInv /\ EraseInv /\ [Next]_vars => EraseInv'
BY EraseRow, EraseAdjust DEF Next

\* The row is its ledger until an adjustment is written; a single adjustment
\* takes from the row, or gives back, exactly the top-ups and calls recorded
\* after it had read the row and before it wrote (adjustUserWallet,
\* adjustOrgWallet).
THEOREM ErasureBounded == Spec => []AdjustmentErases
<1> DEFINE I == TypeOK /\ LostInv /\ MissedInv /\ EraseInv
<1>1. Init => I
  BY TypeInit, LostInit, MissedInit, EraseInit
<1>2. I /\ [Next]_vars => I'
  BY TypeStep, LostStep, MissedStep, EraseStep
<1>3. I => AdjustmentErases
  BY DEF EraseInv
<1> QED BY <1>1, <1>2, <1>3, PTL DEF Spec
=============================================================================
