---------------------------- MODULE BillingProofs ----------------------------
(***************************************************************************)
(* Proofs about Billing, for every value of its constants.                 *)
(***************************************************************************)
EXTENDS Billing, FiniteSetTheorems, TLAPS

-----------------------------------------------------------------------------
(***************************************************************************)
(* Facts about the sets of handlers the balance equations count.           *)
(***************************************************************************)

\* A sum of prices over a finite set of calls is a natural number.
LEMMA CentsNat ==
    ASSUME NEW S, IsFiniteSet(S)
    PROVE  Cardinality(S) \in Nat /\ Cents(S) \in Nat
<1>1. Cardinality(S) \in Nat
  BY FS_CardinalityType
<1>2. \A n \in Nat : Price * n \in Nat
  BY BillingAssumption
<1> QED BY <1>1, <1>2 DEF Cents

\* One more call in the set adds one price, one call less takes one away.
LEMMA CentsStep ==
    ASSUME NEW S, IsFiniteSet(S), NEW x
    PROVE  /\ x \notin S => Cents(S \cup {x}) = Cents(S) + Price
           /\ x \in S => Cents(S \ {x}) = Cents(S) - Price
<1>1. \A n \in Nat : Price * (n + 1) = Price * n + Price /\ Price * (n - 1) = Price * n - Price
  BY BillingAssumption
<1>2. Cardinality(S) \in Nat
  BY FS_CardinalityType
<1>3. x \notin S => Cardinality(S \cup {x}) = Cardinality(S) + 1
  BY FS_AddElement
<1>4. x \in S => Cardinality(S \ {x}) = Cardinality(S) - 1
  BY FS_RemoveElement
<1> QED BY <1>1, <1>2, <1>3, <1>4 DEF Cents

\* The same for top-ups, which all have the amount Credit.
LEMMA CreditStep ==
    ASSUME NEW S, IsFiniteSet(S), NEW x
    PROVE  /\ Credit * Cardinality(S) \in Nat
           /\ x \notin S => Credit * Cardinality(S \cup {x}) = Credit * Cardinality(S) + Credit
           /\ x \in S => Credit * Cardinality(S \ {x}) = Credit * Cardinality(S) - Credit
<1>1. \A n \in Nat : /\ Credit * n \in Nat
                     /\ Credit * (n + 1) = Credit * n + Credit
                     /\ Credit * (n - 1) = Credit * n - Credit
  BY BillingAssumption
<1>2. Cardinality(S) \in Nat
  BY FS_CardinalityType
<1>3. x \notin S => Cardinality(S \cup {x}) = Cardinality(S) + 1
  BY FS_AddElement
<1>4. x \in S => Cardinality(S \ {x}) = Cardinality(S) - 1
  BY FS_RemoveElement
<1> QED BY <1>1, <1>2, <1>3, <1>4

\* Every set of calls picked by their state is finite.
LEMMA AtFinite ==
    ASSUME NEW X
    PROVE  /\ IsFiniteSet(At(X)) /\ Cardinality(At(X)) \in Nat /\ Cents(At(X)) \in Nat
<1>1. IsFiniteSet(At(X))
  BY BillingAssumption, FS_Subset DEF At
<1> QED BY <1>1, CentsNat

\* What a step of one call does to the set of calls in the states X.
LEMMA MoveAt ==
    ASSUME TypeOK, NEW c \in Calls, NEW from, NEW to \in CallState,
           Move(c, from, to), NEW X
    PROVE  /\ At(X)' = IF to \in X THEN At(X) \cup {c} ELSE At(X) \ {c}
           /\ c \in At(X) <=> from \in X
  BY DEF Move, At, TypeOK

\* What it does to a sum over that set, and to its number.
LEMMA MoveCents ==
    ASSUME TypeOK, NEW c \in Calls, NEW from, NEW to \in CallState,
           Move(c, from, to), NEW X
    PROVE  /\ from \in X /\ to \notin X =>
                /\ Cents(At(X)') = Cents(At(X)) - Price
                /\ Cardinality(At(X)') = Cardinality(At(X)) - 1
           /\ from \notin X /\ to \in X =>
                /\ Cents(At(X)') = Cents(At(X)) + Price
                /\ Cardinality(At(X)') = Cardinality(At(X)) + 1
           /\ (from \in X <=> to \in X) => At(X)' = At(X)
<1>1. IsFiniteSet(At(X))
  BY AtFinite
<1>2. /\ At(X)' = IF to \in X THEN At(X) \cup {c} ELSE At(X) \ {c}
      /\ c \in At(X) <=> from \in X
  BY MoveAt
<1>3. CASE from \in X /\ to \notin X
  BY <1>1, <1>2, <1>3, CentsStep, FS_RemoveElement
<1>4. CASE from \notin X /\ to \in X
  BY <1>1, <1>2, <1>4, CentsStep, FS_AddElement
<1>5. CASE from \in X <=> to \in X
  <2>1. At(X)' = At(X)
    BY <1>2, <1>5
  <2> QED BY <2>1, <1>5
<1> QED BY <1>3, <1>4, <1>5

-----------------------------------------------------------------------------
(***************************************************************************)
(* Type correctness.                                                       *)
(***************************************************************************)

\* The initial state satisfies the type invariant.
LEMMA InitType == Init => TypeOK
<1> SUFFICES ASSUME Init PROVE TypeOK
  OBVIOUS
<1>1. wallet \in Int /\ db \in Int /\ used \in Nat /\ refundCount \in Int
  BY BillingAssumption DEF Init
<1>2. pc \in [Calls -> CallState] /\ tpc \in [Topups -> TopupState]
  BY DEF Init, CallState, TopupState
<1>3. /\ billIdem \in [Ids -> {"none", "allowance", "wallet"}]
      /\ source \in [Calls -> {"none", "allowance", "wallet"}]
      /\ refundIdem \subseteq Ids /\ respCache \subseteq Ids /\ lockFlag \in BOOLEAN
      /\ charges \subseteq Calls /\ refunds \subseteq Calls /\ credits \subseteq Topups
  BY DEF Init
<1> QED BY <1>1, <1>2, <1>3 DEF TypeOK

\* A step of a call keeps the type invariant.
LEMMA CallType ==
    ASSUME TypeOK, NEW c \in Calls, Charge(c) \/ Record(c) \/ Upstream(c) \/ Refund(c)
    PROVE  TypeOK'
<1> USE BillingAssumption
    DEF TypeOK, Move, CallState, InCharge, InRefund, InUndo, UndoStuck, Answered,
        redisVars, ledgerVars
<1>1. CASE Charge(c)
  BY <1>1 DEF Charge, ChargeLocked, ChargeReplay, ChargeAllowance, ChargeFree,
     ChargeInsufficient, ChargeWallet, ChargeUnavailable
<1>2. CASE Record(c)
  BY <1>2 DEF Record, RecordCharge, RecordChargeFails, RollbackRedis, RollbackRedisFails
<1>3. CASE Upstream(c)
  BY <1>3 DEF Upstream, UpstreamCompletes, ProxyRefuses, UpstreamThrows, StreamBreaks
<1>4. CASE Refund(c)
  BY <1>4 DEF Refund, RefundRefused, RefundLua, RecordRefund, RecordRefundFails,
     UndoRefundIdem, UndoRefundCount, UndoRefundWallet, UndoRefundFails
<1> QED BY <1>1, <1>2, <1>3, <1>4

\* A step of a top-up, or of the lock flag, or a stutter, keeps it too.
LEMMA OtherType ==
    ASSUME TypeOK,
           \/ \E t \in Topups : Topup(t)
           \/ SetLockFlag \/ ClearLockFlag \/ UNCHANGED vars
    PROVE  TypeOK'
<1>1. ASSUME NEW t \in Topups, Topup(t) PROVE TypeOK'
  BY <1>1, BillingAssumption
  DEF TypeOK, Topup, TopupDb, TopupRedis, TopupRedisFails, TopupMove, TopupState,
      redisVars, ledgerVars
<1>2. CASE SetLockFlag \/ ClearLockFlag
  BY <1>2 DEF TypeOK, SetLockFlag, ClearLockFlag, ledgerVars
<1>3. CASE UNCHANGED vars
  BY <1>3 DEF TypeOK, vars, redisVars, ledgerVars
<1> QED BY <1>1, <1>2, <1>3

\* Every reachable state is well typed: the Redis keys and Postgres columns
\* keep the shape the code relies on, whatever the interleaving.
THEOREM TypeCorrect == Spec => []TypeOK
<1>1. TypeOK /\ [Next]_vars => TypeOK'
  BY CallType, OtherType DEF Next
<1> QED BY InitType, <1>1, PTL DEF Spec

-----------------------------------------------------------------------------
(***************************************************************************)
(* The two stores.                                                         *)
(***************************************************************************)

\* The balance equations, primed, with the sets spelled out.
LEMMA MoneyPrimed ==
    ASSUME wallet' = db' - Cents(At(InCharge)') + Cents(At(InRefund)')
                     - Credit * Cardinality(Owed'),
           db' = Opening - Cents(charges') + Cents(refunds') + Credit * Cardinality(credits'),
           wallet' + Cents(At({"refundUndone"})') >= 0
    PROVE  StoresReconcile' /\ LedgerBalances' /\ OverdraftBound'
  BY DEF StoresReconcile, LedgerBalances, OverdraftBound, Unrecorded, Advanced, Cents

\* The unprimed facts every case below starts from.
LEMMA MoneyNow ==
    ASSUME IInv
    PROVE  /\ wallet \in Int /\ db \in Int /\ Price \in Nat /\ Credit \in Nat /\ Opening \in Int
           /\ IsFiniteSet(charges) /\ IsFiniteSet(refunds)
           /\ IsFiniteSet(Owed) /\ IsFiniteSet(credits)
           /\ \A X : Cents(At(X)) \in Nat
           /\ Cents(charges) \in Nat /\ Cents(refunds) \in Nat
           /\ Credit * Cardinality(Owed) \in Nat /\ Credit * Cardinality(credits) \in Nat
           /\ wallet = db - Cents(At(InCharge)) + Cents(At(InRefund))
                       - Credit * Cardinality(Owed)
           /\ db = Opening - Cents(charges) + Cents(refunds) + Credit * Cardinality(credits)
           /\ wallet + Cents(At({"refundUndone"})) >= 0
<1>1. charges \in SUBSET Calls /\ refunds \in SUBSET Calls
      /\ credits \in SUBSET Topups /\ Owed \in SUBSET Topups
  BY DEF IInv, TypeOK, Owed
<1>2. /\ IsFiniteSet(charges) /\ IsFiniteSet(refunds)
      /\ IsFiniteSet(Owed) /\ IsFiniteSet(credits)
  BY <1>1, BillingAssumption, FS_Subset
<1>3. Cents(charges) \in Nat /\ Cents(refunds) \in Nat
  BY <1>2, CentsNat
<1>4. Credit * Cardinality(Owed) \in Nat /\ Credit * Cardinality(credits) \in Nat
  BY <1>2, CreditStep
<1>5. \A X : Cents(At(X)) \in Nat
  BY AtFinite
<1>6. wallet \in Int /\ db \in Int
  BY DEF IInv, TypeOK
<1>7. /\ wallet = db - Cents(At(InCharge)) + Cents(At(InRefund)) - Credit * Cardinality(Owed)
      /\ db = Opening - Cents(charges) + Cents(refunds) + Credit * Cardinality(credits)
      /\ wallet + Cents(At({"refundUndone"})) >= 0
  BY DEF IInv, StoresReconcile, LedgerBalances, OverdraftBound, Unrecorded, Advanced
<1> QED BY <1>2, <1>3, <1>4, <1>5, <1>6, <1>7, BillingAssumption

\* A step that moves no money and enters or leaves none of the three sets.
LEMMA QuietMove ==
    ASSUME IInv, NEW c \in Calls, NEW from, NEW to \in CallState, Move(c, from, to),
           from \in InCharge <=> to \in InCharge,
           from \in InRefund <=> to \in InRefund,
           from = "refundUndone" <=> to = "refundUndone",
           UNCHANGED <<wallet, db, charges, refunds, credits, tpc>>
    PROVE  StoresReconcile' /\ LedgerBalances' /\ OverdraftBound'
<1>1. TypeOK
  BY DEF IInv
<1>2. /\ At(InCharge)' = At(InCharge) /\ At(InRefund)' = At(InRefund)
      /\ At({"refundUndone"})' = At({"refundUndone"})
  BY <1>1, MoveCents
<1>3. Owed' = Owed
  BY DEF Owed
<1> QED BY <1>2, <1>3, MoneyNow, MoneyPrimed

\* A step of billing.lua keeps the equations.
LEMMA ChargeMoney ==
    ASSUME IInv, NEW c \in Calls, Charge(c)
    PROVE  StoresReconcile' /\ LedgerBalances' /\ OverdraftBound'
<1> USE DEF CallState, InCharge, InRefund, InUndo, UndoStuck, Answered, redisVars, ledgerVars
<1>1. CASE ChargeWallet(c)
  <2>1. TypeOK /\ Move(c, "arrived", "recording")
    BY <1>1 DEF IInv, ChargeWallet
  <2>2. /\ Cents(At(InCharge)') = Cents(At(InCharge)) + Price
        /\ At(InRefund)' = At(InRefund)
        /\ At({"refundUndone"})' = At({"refundUndone"})
    BY <2>1, MoveCents
  <2>3. /\ wallet' = wallet - Price /\ wallet >= Price
        /\ UNCHANGED <<db, charges, refunds, credits, tpc>>
    BY <1>1 DEF ChargeWallet, CanAfford
  <2>4. Owed' = Owed
    BY <2>3 DEF Owed
  <2>5. wallet' + Cents(At({"refundUndone"})') >= 0
    BY <2>2, <2>3, MoneyNow
  <2> QED BY <2>2, <2>3, <2>4, <2>5, MoneyNow, MoneyPrimed
<1>2. CASE ChargeLocked(c) \/ ChargeInsufficient(c)
  <2>1. Move(c, "arrived", "rejected") /\ UNCHANGED <<wallet, db, charges, refunds, credits, tpc>>
    BY <1>2 DEF ChargeLocked, ChargeInsufficient
  <2> QED BY <2>1, QuietMove
<1>3. CASE ChargeReplay(c)
  <2>1. /\ Move(c, "arrived", "replayed") \/ Move(c, "arrived", "conflict")
        /\ UNCHANGED <<wallet, db, charges, refunds, credits, tpc>>
    BY <1>3 DEF ChargeReplay
  <2> QED BY <2>1, QuietMove
<1>4. CASE ChargeAllowance(c) \/ ChargeFree(c)
  <2>1. Move(c, "arrived", "proxying") /\ UNCHANGED <<wallet, db, charges, refunds, credits, tpc>>
    BY <1>4 DEF ChargeAllowance, ChargeFree
  <2> QED BY <2>1, QuietMove
<1>5. CASE ChargeUnavailable(c)
  <2>1. /\ Move(c, "arrived", "unavailable")
        /\ UNCHANGED <<wallet, db, charges, refunds, credits, tpc>>
    BY <1>5 DEF ChargeUnavailable
  <2> QED BY <2>1, QuietMove
<1> QED BY <1>1, <1>2, <1>3, <1>4, <1>5 DEF Charge

\* So does the database half of a charge, and its rollback.
LEMMA RecordMoney ==
    ASSUME IInv, NEW c \in Calls, Record(c)
    PROVE  StoresReconcile' /\ LedgerBalances' /\ OverdraftBound'
<1> USE DEF CallState, InCharge, InRefund, InUndo, UndoStuck, Answered, redisVars, ledgerVars
<1>1. CASE RecordCharge(c)
  <2>1. TypeOK /\ Move(c, "recording", "proxying")
    BY <1>1 DEF IInv, RecordCharge
  <2>2. /\ Cents(At(InCharge)') = Cents(At(InCharge)) - Price
        /\ At(InRefund)' = At(InRefund)
        /\ At({"refundUndone"})' = At({"refundUndone"})
    BY <2>1, MoveCents
  <2>3. /\ db' = db - Price /\ charges' = charges \cup {c}
        /\ UNCHANGED <<wallet, refunds, credits, tpc>>
    BY <1>1 DEF RecordCharge
  <2>4. c \notin charges
    BY <2>1 DEF IInv, LedgerFollowsHandlers, At, Through, Move
  <2>5. Cents(charges') = Cents(charges) + Price
    BY <2>3, <2>4, MoneyNow, CentsStep
  <2>6. Owed' = Owed
    BY <2>3 DEF Owed
  <2> QED BY <2>2, <2>3, <2>5, <2>6, MoneyNow, MoneyPrimed
<1>2. CASE RollbackRedis(c)
  <2>1. TypeOK /\ Move(c, "unwinding", "unavailable")
    BY <1>2 DEF IInv, RollbackRedis
  <2>2. /\ Cents(At(InCharge)') = Cents(At(InCharge)) - Price
        /\ At(InRefund)' = At(InRefund)
        /\ At({"refundUndone"})' = At({"refundUndone"})
    BY <2>1, MoveCents
  <2>3. wallet' = wallet + Price /\ UNCHANGED <<db, charges, refunds, credits, tpc>>
    BY <1>2 DEF RollbackRedis
  <2>4. Owed' = Owed
    BY <2>3 DEF Owed
  <2> QED BY <2>2, <2>3, <2>4, MoneyNow, MoneyPrimed
<1>3. CASE RecordChargeFails(c)
  <2>1. /\ Move(c, "recording", "unwinding")
        /\ UNCHANGED <<wallet, db, charges, refunds, credits, tpc>>
    BY <1>3 DEF RecordChargeFails
  <2> QED BY <2>1, QuietMove
<1>4. CASE RollbackRedisFails(c)
  <2>1. /\ Move(c, "unwinding", "leaked")
        /\ UNCHANGED <<wallet, db, charges, refunds, credits, tpc>>
    BY <1>4 DEF RollbackRedisFails
  <2> QED BY <2>1, QuietMove
<1> QED BY <1>1, <1>2, <1>3, <1>4 DEF Record

\* The upstream call moves no money.
LEMMA UpstreamMoney ==
    ASSUME IInv, NEW c \in Calls, Upstream(c)
    PROVE  StoresReconcile' /\ LedgerBalances' /\ OverdraftBound'
<1> USE DEF CallState, InCharge, InRefund, InUndo, UndoStuck, Answered, redisVars, ledgerVars
<1>1. \E to \in {"completed", "refused", "errored", "broken", "refundable"} :
          Move(c, "proxying", to)
  BY DEF Upstream, UpstreamCompletes, ProxyRefuses, UpstreamThrows, StreamBreaks
<1>2. UNCHANGED <<wallet, db, charges, refunds, credits, tpc>>
  BY DEF Upstream, UpstreamCompletes, ProxyRefuses, UpstreamThrows, StreamBreaks
<1> QED BY <1>1, <1>2, QuietMove

\* A refund credits Redis, then Postgres; its rollback debits Redis.
LEMMA RefundMoney ==
    ASSUME IInv, NEW c \in Calls, Refund(c)
    PROVE  StoresReconcile' /\ LedgerBalances' /\ OverdraftBound'
<1> USE DEF CallState, InCharge, InRefund, InUndo, UndoStuck, Answered, redisVars, ledgerVars
<1>1. CASE RefundLua(c)
  <2>1. PICK to \in {"misread", "refundRecording"} : Move(c, "refundable", to)
    BY <1>1 DEF RefundLua
  <2>2. TypeOK
    BY DEF IInv
  <2>3. /\ At(InCharge)' = At(InCharge)
        /\ Cents(At(InRefund)') = Cents(At(InRefund)) + Price
        /\ At({"refundUndone"})' = At({"refundUndone"})
    BY <2>1, <2>2, MoveCents
  <2>4. wallet' = wallet + Price /\ UNCHANGED <<db, charges, refunds, credits, tpc>>
    BY <1>1 DEF RefundLua
  <2>5. Owed' = Owed
    BY <2>4 DEF Owed
  <2> QED BY <2>3, <2>4, <2>5, MoneyNow, MoneyPrimed
<1>2. CASE RecordRefund(c)
  <2>1. TypeOK /\ Move(c, "refundRecording", "refunded")
    BY <1>2 DEF IInv, RecordRefund
  <2>2. /\ At(InCharge)' = At(InCharge)
        /\ Cents(At(InRefund)') = Cents(At(InRefund)) - Price
        /\ At({"refundUndone"})' = At({"refundUndone"})
    BY <2>1, MoveCents
  <2>3. /\ db' = db + Price /\ refunds' = refunds \cup {c}
        /\ UNCHANGED <<wallet, charges, credits, tpc>>
    BY <1>2 DEF RecordRefund
  <2>4. c \notin refunds
    BY <2>1 DEF IInv, LedgerFollowsHandlers, At, Move
  <2>5. Cents(refunds') = Cents(refunds) + Price
    BY <2>3, <2>4, MoneyNow, CentsStep
  <2>6. Owed' = Owed
    BY <2>3 DEF Owed
  <2> QED BY <2>2, <2>3, <2>5, <2>6, MoneyNow, MoneyPrimed
<1>3. CASE UndoRefundWallet(c)
  <2>1. TypeOK /\ Move(c, "undoWallet", "refundUndone")
    BY <1>3 DEF IInv, UndoRefundWallet
  <2>2. /\ At(InCharge)' = At(InCharge)
        /\ Cents(At(InRefund)') = Cents(At(InRefund)) - Price
        /\ Cents(At({"refundUndone"})') = Cents(At({"refundUndone"})) + Price
    BY <2>1, MoveCents
  <2>3. wallet' = wallet - Price /\ UNCHANGED <<db, charges, refunds, credits, tpc>>
    BY <1>3 DEF UndoRefundWallet
  <2>4. Owed' = Owed
    BY <2>3 DEF Owed
  <2> QED BY <2>2, <2>3, <2>4, MoneyNow, MoneyPrimed
<1>4. CASE RefundRefused(c) \/ RecordRefundFails(c)
  <2>1. /\ Move(c, "refundable", "refundRefused") \/ Move(c, "refundRecording", "undoIdem")
        /\ UNCHANGED <<wallet, db, charges, refunds, credits, tpc>>
    BY <1>4 DEF RefundRefused, RecordRefundFails
  <2> QED BY <2>1, QuietMove
<1>5. CASE UndoRefundIdem(c) \/ UndoRefundCount(c) \/ UndoRefundFails(c)
  <2>1. \E from \in InUndo, to \in {"undoCount", "undoWallet"} \cup UndoStuck : Move(c, from, to)
    BY <1>5 DEF UndoRefundIdem, UndoRefundCount, UndoRefundFails
  <2>2. UNCHANGED <<wallet, db, charges, refunds, credits, tpc>>
    BY <1>5 DEF UndoRefundIdem, UndoRefundCount, UndoRefundFails
  <2> QED BY <2>1, <2>2, QuietMove
<1> QED BY <1>1, <1>2, <1>3, <1>4, <1>5 DEF Refund

\* A top-up credits Postgres, then Redis.
LEMMA TopupMoney ==
    ASSUME IInv, NEW t \in Topups, Topup(t)
    PROVE  StoresReconcile' /\ LedgerBalances' /\ OverdraftBound'
<1> USE DEF redisVars, ledgerVars
<1>0. tpc \in [Topups -> TopupState] /\ credits = {x \in Topups : tpc[x] # "requested"}
  BY DEF IInv, TypeOK, LedgerFollowsHandlers
<1>1. \A X : At(X)' = At(X)
  BY DEF Topup, TopupDb, TopupRedis, TopupRedisFails, At
<1>2. CASE TopupDb(t)
  <2>1. t \notin Owed /\ t \notin credits /\ Owed' = Owed \cup {t}
    BY <1>0, <1>2 DEF TopupDb, TopupMove, Owed
  <2>2. /\ Credit * Cardinality(Owed') = Credit * Cardinality(Owed) + Credit
        /\ db' = db + Credit /\ UNCHANGED <<wallet, charges, refunds>>
    BY <1>2, <2>1, MoneyNow, CreditStep DEF TopupDb
  <2>3. Credit * Cardinality(credits') = Credit * Cardinality(credits) + Credit
    BY <1>2, <2>1, MoneyNow, CreditStep DEF TopupDb
  <2> QED BY <1>1, <2>2, <2>3, MoneyNow, MoneyPrimed
<1>3. CASE TopupRedis(t)
  <2>1. t \in Owed /\ Owed' = Owed \ {t}
    BY <1>0, <1>3 DEF TopupRedis, TopupMove, Owed
  <2>2. /\ Credit * Cardinality(Owed') = Credit * Cardinality(Owed) - Credit
        /\ wallet' = wallet + Credit /\ UNCHANGED <<db, charges, refunds, credits>>
    BY <1>3, <2>1, MoneyNow, CreditStep DEF TopupRedis
  <2> QED BY <1>1, <2>2, MoneyNow, MoneyPrimed
<1>4. CASE TopupRedisFails(t)
  <2>1. Owed' = Owed
    BY <1>0, <1>4 DEF TopupRedisFails, TopupMove, Owed
  <2>2. UNCHANGED <<wallet, db, charges, refunds, credits>>
    BY <1>4 DEF TopupRedisFails
  <2> QED BY <1>1, <2>1, <2>2, MoneyNow, MoneyPrimed
<1> QED BY <1>2, <1>3, <1>4 DEF Topup

\* The lock flag moves no money, and neither does a stutter.
LEMMA LockMoney ==
    ASSUME IInv, SetLockFlag \/ ClearLockFlag \/ UNCHANGED vars
    PROVE  StoresReconcile' /\ LedgerBalances' /\ OverdraftBound'
<1>1. UNCHANGED <<wallet, db, charges, refunds, credits, pc, tpc>>
  BY DEF SetLockFlag, ClearLockFlag, vars, redisVars, ledgerVars
<1>2. Owed' = Owed /\ \A X : At(X)' = At(X)
  BY <1>1 DEF Owed, At
<1> QED BY <1>1, <1>2, MoneyNow, MoneyPrimed

-----------------------------------------------------------------------------
(***************************************************************************)
(* Ledger entries and request ids follow the handlers.                     *)
(***************************************************************************)

\* A step of a call keeps the ledger where the handlers are.
LEMMA CallLedger ==
    ASSUME TypeOK, LedgerFollowsHandlers, NEW c \in Calls,
           Charge(c) \/ Record(c) \/ Upstream(c) \/ Refund(c)
    PROVE  LedgerFollowsHandlers'
<1> USE DEF TypeOK, LedgerFollowsHandlers, Move, At, Through, Refundable,
            InRefund, InUndo, UndoStuck, redisVars, ledgerVars
<1>1. CASE Charge(c)
  BY <1>1 DEF Charge, ChargeLocked, ChargeReplay, ChargeAllowance, ChargeFree,
     ChargeInsufficient, ChargeWallet, ChargeUnavailable
<1>2. CASE Record(c)
  BY <1>2 DEF Record, RecordCharge, RecordChargeFails, RollbackRedis, RollbackRedisFails
<1>3. CASE Upstream(c)
  BY <1>3 DEF Upstream, UpstreamCompletes, ProxyRefuses, UpstreamThrows, StreamBreaks
<1>4. CASE Refund(c)
  BY <1>4 DEF Refund, RefundRefused, RefundLua, RecordRefund, RecordRefundFails,
     UndoRefundIdem, UndoRefundCount, UndoRefundWallet, UndoRefundFails
<1> QED BY <1>1, <1>2, <1>3, <1>4

\* A step of a call keeps every request id with the one call that took it.
LEMMA CallIds ==
    ASSUME TypeOK, IdsAreTaken, NEW c \in Calls,
           Charge(c) \/ Record(c) \/ Upstream(c) \/ Refund(c)
    PROVE  IdsAreTaken'
<1> USE BillingAssumption
    DEF TypeOK, IdsAreTaken, Move, At, Through, InCharge,
        InRefund, InUndo, UndoStuck, redisVars, ledgerVars
<1>1. CASE Charge(c)
  BY <1>1 DEF Charge, ChargeLocked, ChargeReplay, ChargeAllowance, ChargeFree,
     ChargeInsufficient, ChargeWallet, ChargeUnavailable, AlreadyBilled
<1>2. CASE Record(c)
  BY <1>2 DEF Record, RecordCharge, RecordChargeFails, RollbackRedis, RollbackRedisFails
<1>3. CASE Upstream(c)
  BY <1>3 DEF Upstream, UpstreamCompletes, ProxyRefuses, UpstreamThrows, StreamBreaks
<1>4. CASE Refund(c)
  BY <1>4 DEF Refund, RefundRefused, RefundLua, RecordRefund, RecordRefundFails,
     UndoRefundIdem, UndoRefundCount, UndoRefundWallet, UndoRefundFails
<1> QED BY <1>1, <1>2, <1>3, <1>4

\* A step of a call keeps the refund counter equal to the refunds that count,
\* because each step that enters or leaves Counted also moves the counter.
LEMMA CallCount ==
    ASSUME TypeOK, CountFollowsRefunds, NEW c \in Calls,
           Charge(c) \/ Record(c) \/ Upstream(c) \/ Refund(c)
    PROVE  CountFollowsRefunds'
<1> USE DEF CallState, InCharge, InRefund, InUndo, UndoStuck, Answered, redisVars, ledgerVars
<1>1. Cardinality(At(Counted)) \in Nat /\ RefundCap \in Nat
  BY AtFinite, BillingAssumption
<1>2. CASE RefundLua(c)
  <2>1. PICK to \in {"misread", "refundRecording"} : Move(c, "refundable", to)
    BY <1>2 DEF RefundLua
  <2>2. Cardinality(At(Counted)') = Cardinality(At(Counted)) + 1
    BY <2>1, MoveCents DEF Counted
  <2>3. refundCount' = refundCount + 1 /\ ~(refundCount >= RefundCap)
    BY <1>2 DEF RefundLua, CapReached
  <2> QED BY <1>1, <2>2, <2>3 DEF CountFollowsRefunds, Counted
<1>3. CASE UndoRefundCount(c)
  <2>1. Move(c, "undoCount", "undoWallet") /\ refundCount' = refundCount - 1
    BY <1>3 DEF UndoRefundCount
  <2>2. Cardinality(At(Counted)') = Cardinality(At(Counted)) - 1
    BY <2>1, MoveCents DEF Counted
  <2> QED BY <1>1, <2>1, <2>2 DEF CountFollowsRefunds, Counted
<1>4. CASE Charge(c) \/ Record(c) \/ Upstream(c)
  <2>1. UNCHANGED refundCount
    BY <1>4 DEF Charge, ChargeLocked, ChargeReplay, ChargeAllowance, ChargeFree,
       ChargeInsufficient, ChargeWallet, ChargeUnavailable, Record, RecordCharge,
       RecordChargeFails, RollbackRedis, RollbackRedisFails, Upstream, UpstreamCompletes,
       ProxyRefuses, UpstreamThrows, StreamBreaks
  <2>2. \E from, to \in CallState \ Counted : Move(c, from, to)
    BY <1>4 DEF Charge, ChargeLocked, ChargeReplay, ChargeAllowance, ChargeFree,
       ChargeInsufficient, ChargeWallet, ChargeUnavailable, Record, RecordCharge,
       RecordChargeFails, RollbackRedis, RollbackRedisFails, Upstream, UpstreamCompletes,
       ProxyRefuses, UpstreamThrows, StreamBreaks, Counted
  <2>3. At(Counted)' = At(Counted)
    BY <2>2, MoveCents DEF Counted
  <2> QED BY <2>1, <2>3 DEF CountFollowsRefunds, Counted
<1>5. CASE \/ RefundRefused(c) \/ RecordRefund(c) \/ RecordRefundFails(c)
           \/ UndoRefundIdem(c) \/ UndoRefundWallet(c) \/ UndoRefundFails(c)
  <2>1. UNCHANGED refundCount
    BY <1>5 DEF RefundRefused, RecordRefund, RecordRefundFails,
       UndoRefundIdem, UndoRefundWallet, UndoRefundFails
  <2>2. \E from, to \in CallState : Move(c, from, to) /\ (from \in Counted <=> to \in Counted)
    BY <1>5 DEF RefundRefused, RecordRefund, RecordRefundFails,
       UndoRefundIdem, UndoRefundWallet, UndoRefundFails, Counted
  <2>3. At(Counted)' = At(Counted)
    BY <2>2, MoveCents
  <2> QED BY <2>1, <2>3 DEF CountFollowsRefunds, Counted
<1> QED BY <1>2, <1>3, <1>4, <1>5 DEF Refund

\* The other steps touch no call, no request id and no refund.
LEMMA OtherParts ==
    ASSUME IInv,
           \/ \E t \in Topups : Topup(t)
           \/ SetLockFlag \/ ClearLockFlag \/ UNCHANGED vars
    PROVE  LedgerFollowsHandlers' /\ IdsAreTaken' /\ CountFollowsRefunds'
<1>1. UNCHANGED <<billIdem, refundCount, charges, refunds, source, pc>>
  BY DEF Topup, TopupDb, TopupRedis, TopupRedisFails, SetLockFlag, ClearLockFlag,
     vars, redisVars, ledgerVars
<1>2. \A X : At(X)' = At(X)
  BY <1>1 DEF At
<1>3. tpc \in [Topups -> TopupState] /\ credits = {t \in Topups : tpc[t] # "requested"}
  BY DEF IInv, TypeOK, LedgerFollowsHandlers
<1>4. credits' = {t \in Topups : tpc[t] # "requested"}'
  <2>1. ASSUME NEW t \in Topups, Topup(t) PROVE credits' = {x \in Topups : tpc[x] # "requested"}'
    BY <1>3, <2>1 DEF Topup, TopupDb, TopupRedis, TopupRedisFails, TopupMove, ledgerVars
  <2>2. CASE SetLockFlag \/ ClearLockFlag \/ UNCHANGED vars
    BY <1>3, <2>2 DEF SetLockFlag, ClearLockFlag, vars, ledgerVars
  <2> QED BY <2>1, <2>2
<1>5. LedgerFollowsHandlers'
  BY <1>1, <1>2, <1>4 DEF IInv, LedgerFollowsHandlers, Through, Refundable
<1>6. IdsAreTaken' /\ CountFollowsRefunds'
  BY <1>1, <1>2 DEF IInv, IdsAreTaken, CountFollowsRefunds, Through, Counted
<1> QED BY <1>5, <1>6

-----------------------------------------------------------------------------
(***************************************************************************)
(* The inductive invariant.                                                *)
(***************************************************************************)

\* Initially no handler has started, and the stores agree.
LEMMA InitInv == Init => IInv
<1> SUFFICES ASSUME Init PROVE IInv
  OBVIOUS
<1>1. TypeOK
  BY InitType
<1>2. ASSUME NEW X, "arrived" \notin X PROVE At(X) = {}
  BY <1>2 DEF Init, At
<1>3. Cardinality({}) = 0 /\ Price * 0 = 0 /\ Credit * 0 = 0
  BY FS_EmptySet, BillingAssumption
<1>4. /\ At(InCharge) = {} /\ At(InRefund) = {} /\ At({"refundUndone"}) = {}
      /\ At(Through) = {} /\ At(Refundable) = {} /\ At(Counted) = {} /\ At({"refunded"}) = {}
      /\ At(Through \cup InCharge) = {}
  BY <1>2 DEF InCharge, InRefund, InUndo, UndoStuck, Through, Refundable, Counted
<1>5. Owed = {} /\ charges = {} /\ refunds = {} /\ credits = {}
      /\ credits = {t \in Topups : tpc[t] # "requested"}
  BY DEF Init, Owed
<1>6. StoresReconcile /\ LedgerBalances /\ OverdraftBound
  <2>1. Cents({}) = 0
    BY <1>3 DEF Cents
  <2>2. wallet = Opening /\ db = Opening /\ Opening \in Nat
    BY BillingAssumption DEF Init
  <2>3. Opening = Opening - 0 + 0 + 0 /\ Opening = Opening - 0 + 0 - 0 /\ Opening + 0 >= 0
    BY <2>2
  <2>4. StoresReconcile
    BY <1>3, <1>4, <1>5, <2>1, <2>2, <2>3 DEF StoresReconcile, Unrecorded, Advanced
  <2>5. LedgerBalances
    BY <1>3, <1>5, <2>1, <2>2, <2>3 DEF LedgerBalances
  <2>6. OverdraftBound
    BY <1>4, <2>1, <2>2, <2>3 DEF OverdraftBound
  <2> QED BY <2>4, <2>5, <2>6
<1>7. LedgerFollowsHandlers /\ IdsAreTaken
  BY <1>4, <1>5 DEF LedgerFollowsHandlers, IdsAreTaken
<1>8. CountFollowsRefunds
  BY <1>3, <1>4, BillingAssumption DEF Init, CountFollowsRefunds
<1> QED BY <1>1, <1>6, <1>7, <1>8 DEF IInv

\* Every step keeps it.
LEMMA NextInv == IInv /\ [Next]_vars => IInv'
<1> SUFFICES ASSUME IInv, [Next]_vars PROVE IInv'
  OBVIOUS
<1>1. TypeOK /\ LedgerFollowsHandlers /\ IdsAreTaken /\ CountFollowsRefunds
  BY DEF IInv
<1>2. ASSUME NEW c \in Calls, Charge(c) \/ Record(c) \/ Upstream(c) \/ Refund(c) PROVE IInv'
  <2>1. StoresReconcile' /\ LedgerBalances' /\ OverdraftBound'
    BY <1>2, ChargeMoney, RecordMoney, UpstreamMoney, RefundMoney
  <2> QED BY <1>1, <1>2, <2>1, CallType, CallLedger, CallIds, CallCount DEF IInv
<1>3. CASE (\E t \in Topups : Topup(t)) \/ SetLockFlag \/ ClearLockFlag \/ UNCHANGED vars
  <2>1. StoresReconcile' /\ LedgerBalances' /\ OverdraftBound'
    BY <1>3, TopupMoney, LockMoney
  <2> QED BY <1>1, <1>3, <2>1, OtherType, OtherParts DEF IInv
<1> QED BY <1>2, <1>3 DEF Next

\* The inductive invariant holds in every reachable state.
THEOREM Invariant == Spec => []IInv
  BY InitInv, NextInv, PTL DEF Spec

-----------------------------------------------------------------------------
(***************************************************************************)
(* What it implies.                                                        *)
(***************************************************************************)

\* Redis and Postgres differ by exactly the steps in flight or abandoned, for
\* any number of calls, top-ups and request ids.
THEOREM StoresReconcileAlways == Spec => []StoresReconcile
<1>1. IInv => StoresReconcile
  BY DEF IInv
<1> QED BY <1>1, Invariant, PTL

\* The Postgres balance is what its ledger adds up to.
THEOREM LedgerBalancesAlways == Spec => []LedgerBalances
<1>1. IInv => LedgerBalances
  BY DEF IInv
<1> QED BY <1>1, Invariant, PTL

\* Redis is overdrawn only by refunds that were taken back after being spent.
THEOREM OverdraftBounded == Spec => []OverdraftBound
<1>1. IInv => OverdraftBound
  BY DEF IInv
<1> QED BY <1>1, Invariant, PTL

\* No request id is paid for twice.
THEOREM OneChargePerIdAlways == Spec => []OneChargePerId
<1>1. IInv => OneChargePerId
  BY DEF IInv, LedgerFollowsHandlers, IdsAreTaken, OneChargePerId, At
<1> QED BY <1>1, Invariant, PTL

\* Every refund entry gives back a charge entry, once per request id.
THEOREM RefundsMatchChargesAlways == Spec => []RefundsMatchCharges
<1>1. IInv => RefundsMatchCharges
  BY DEF IInv, LedgerFollowsHandlers, IdsAreTaken, RefundsMatchCharges, At, Refundable, Through
<1> QED BY <1>1, Invariant, PTL

\* A call that upstream has seen is in the ledger or was let through free.
THEOREM PaidBeforeProxiedAlways == Spec => []PaidBeforeProxied
<1>1. IInv => PaidBeforeProxied
  BY DEF IInv, LedgerFollowsHandlers, PaidBeforeProxied, At, Through
<1> QED BY <1>1, Invariant, PTL

\* What the replay cache answers with: a call that was let through carries the
\* source that its request id was billed to, and every cached answer is that
\* of a call that upstream completed.
AnswersFollowKeys ==
    /\ \A d \in At(Through) : source[d] = billIdem[IdOf[d]]
    /\ \A d \in At({"recording"}) : billIdem[IdOf[d]] = "wallet"
    /\ \A i \in respCache : \E d \in At({"completed"}) : IdOf[d] = i

\* Only the script bills a request id, and never twice; only a call that is
\* let through, recorded or replayed gets a source.
LEMMA KeysAndSources ==
    ASSUME IInv, NEW c \in Calls, Charge(c) \/ Record(c) \/ Upstream(c) \/ Refund(c)
    PROVE  /\ \A i \in Ids : billIdem[i] # "none" => billIdem'[i] = billIdem[i]
           /\ \A d \in Calls : d # c => source'[d] = source[d] /\ pc'[d] = pc[d]
<1> USE BillingAssumption DEF IInv, TypeOK, Move, redisVars, ledgerVars
<1>1. CASE Charge(c)
  BY <1>1 DEF Charge, ChargeLocked, ChargeReplay, ChargeAllowance, ChargeFree,
     ChargeInsufficient, ChargeWallet, ChargeUnavailable, AlreadyBilled
<1>2. CASE Record(c)
  BY <1>2 DEF Record, RecordCharge, RecordChargeFails, RollbackRedis, RollbackRedisFails
<1>3. CASE Upstream(c)
  BY <1>3 DEF Upstream, UpstreamCompletes, ProxyRefuses, UpstreamThrows, StreamBreaks
<1>4. CASE Refund(c)
  BY <1>4 DEF Refund, RefundRefused, RefundLua, RecordRefund, RecordRefundFails,
     UndoRefundIdem, UndoRefundCount, UndoRefundWallet, UndoRefundFails
<1> QED BY <1>1, <1>2, <1>3, <1>4

\* A call that was answered stays where it is.
LEMMA AnsweredStays ==
    ASSUME IInv, NEW c \in Calls, Charge(c) \/ Record(c) \/ Upstream(c) \/ Refund(c),
           NEW d \in Calls, pc[d] \in {"completed", "replayed"}
    PROVE  pc'[d] = pc[d] /\ source'[d] = source[d]
<1>1. pc[c] \notin {"completed", "replayed"}
  BY DEF Move, Charge, ChargeLocked, ChargeReplay, ChargeAllowance, ChargeFree, ChargeInsufficient,
     ChargeWallet, ChargeUnavailable, Record, RecordCharge, RecordChargeFails, RollbackRedis,
     RollbackRedisFails, Upstream, UpstreamCompletes, ProxyRefuses, UpstreamThrows, StreamBreaks,
     Refund, RefundRefused, RefundLua, RecordRefund, RecordRefundFails,
     UndoRefundIdem, UndoRefundCount, UndoRefundWallet, UndoRefundFails
<1> QED BY <1>1, KeysAndSources

LEMMA CallAnswers ==
    ASSUME IInv, AnswersFollowKeys, NEW c \in Calls,
           Charge(c) \/ Record(c) \/ Upstream(c) \/ Refund(c)
    PROVE  AnswersFollowKeys'
<1> USE BillingAssumption DEF TypeOK, Move, redisVars, ledgerVars
<1>0. TypeOK /\ pc[c] \in CallState
  BY DEF IInv
<1>1. ASSUME NEW d \in Calls, pc'[d] \in Through
      PROVE  source'[d] = billIdem'[IdOf[d]]
  <2>1. CASE d # c \/ pc[d] \in Through
    <3>1. pc[d] \in Through
      BY <1>1, <2>1, KeysAndSources
    <3>2. source[d] = billIdem[IdOf[d]] /\ billIdem[IdOf[d]] # "none"
      BY <3>1 DEF AnswersFollowKeys, At, IInv, IdsAreTaken
    <3>3. source'[d] = source[d]
      <4>1. d = c => ~ Charge(c) /\ ~ Record(c)
        BY <3>1 DEF Through, InRefund, InUndo, UndoStuck, Charge, ChargeLocked, ChargeReplay,
           ChargeAllowance, ChargeFree, ChargeInsufficient, ChargeWallet, ChargeUnavailable,
           Record, RecordCharge, RecordChargeFails, RollbackRedis, RollbackRedisFails
      <4>2. Upstream(c) \/ Refund(c) => source' = source
        BY DEF Upstream, UpstreamCompletes, ProxyRefuses, UpstreamThrows, StreamBreaks,
           Refund, RefundRefused, RefundLua, RecordRefund, RecordRefundFails,
           UndoRefundIdem, UndoRefundCount, UndoRefundWallet, UndoRefundFails
      <4> QED BY <4>1, <4>2, KeysAndSources
    <3> QED BY <1>0, <3>2, <3>3, KeysAndSources
  <2>2. CASE d = c /\ pc[c] \notin Through
    <3>1. CASE Charge(c)
      BY <1>0, <1>1, <2>2, <3>1
      DEF Charge, ChargeLocked, ChargeReplay, ChargeAllowance, ChargeFree, ChargeInsufficient,
          ChargeWallet, ChargeUnavailable, Through, InRefund, InUndo, UndoStuck
    <3>2. CASE Record(c)
      BY <1>0, <1>1, <2>2, <3>2
      DEF Record, RecordCharge, RecordChargeFails, RollbackRedis, RollbackRedisFails,
          Through, InRefund, InUndo, UndoStuck, AnswersFollowKeys, At
    <3>3. ~ Upstream(c) /\ ~ Refund(c)
      BY <2>2 DEF Upstream, UpstreamCompletes, ProxyRefuses, UpstreamThrows, StreamBreaks,
         Refund, RefundRefused, RefundLua, RecordRefund, RecordRefundFails, UndoRefundIdem,
         UndoRefundCount, UndoRefundWallet, UndoRefundFails, Through, InRefund, InUndo, UndoStuck
    <3> QED BY <3>1, <3>2, <3>3
  <2> QED BY <2>1, <2>2
<1>2. ASSUME NEW d \in Calls, pc'[d] = "recording"
      PROVE  billIdem'[IdOf[d]] = "wallet"
  <2>1. CASE pc[d] = "recording"
    BY <1>0, <2>1, KeysAndSources DEF AnswersFollowKeys, At
  <2>2. CASE pc[d] # "recording"
    <3>1. d = c
      BY <1>2, <2>2, KeysAndSources
    <3>2. ChargeWallet(c)
      BY <1>0, <1>2, <2>2, <3>1
      DEF Charge, ChargeLocked, ChargeReplay, ChargeAllowance, ChargeFree, ChargeInsufficient,
          ChargeUnavailable, Record, RecordCharge, RecordChargeFails, RollbackRedis,
          RollbackRedisFails, Upstream, UpstreamCompletes, ProxyRefuses, UpstreamThrows,
          StreamBreaks, Refund, RefundRefused, RefundLua, RecordRefund, RecordRefundFails,
          UndoRefundIdem, UndoRefundCount, UndoRefundWallet, UndoRefundFails
    <3> QED BY <1>0, <3>1, <3>2 DEF ChargeWallet
  <2> QED BY <2>1, <2>2
<1>3. ASSUME NEW i \in respCache'
      PROVE  \E d \in Calls : pc'[d] = "completed" /\ IdOf[d] = i
  <2>1. CASE i \in respCache
    <3>1. PICK d \in Calls : pc[d] = "completed" /\ IdOf[d] = i
      BY <2>1 DEF AnswersFollowKeys, At
    <3> QED BY <3>1, AnsweredStays
  <2>2. CASE i \notin respCache
    <3>1. UpstreamCompletes(c)
      BY <1>3, <2>2
      DEF Charge, ChargeLocked, ChargeReplay, ChargeAllowance, ChargeFree, ChargeInsufficient,
          ChargeWallet, ChargeUnavailable, Record, RecordCharge, RecordChargeFails, RollbackRedis,
          RollbackRedisFails, Upstream, ProxyRefuses, UpstreamThrows,
          StreamBreaks, Refund, RefundRefused, RefundLua, RecordRefund, RecordRefundFails,
          UndoRefundIdem, UndoRefundCount, UndoRefundWallet, UndoRefundFails
    <3> QED BY <1>0, <1>3, <2>2, <3>1 DEF UpstreamCompletes
  <2> QED BY <2>1, <2>2
<1> QED BY <1>1, <1>2, <1>3 DEF AnswersFollowKeys, At

LEMMA CallOrigin ==
    ASSUME IInv, AnswersFollowKeys, ReplayHasOrigin, NEW c \in Calls,
           Charge(c) \/ Record(c) \/ Upstream(c) \/ Refund(c)
    PROVE  ReplayHasOrigin'
<1> SUFFICES ASSUME NEW r \in Calls, pc'[r] = "replayed"
             PROVE  \E d \in Calls : /\ pc'[d] = "completed" /\ IdOf[d] = IdOf[r]
                                     /\ d # r /\ source'[d] = source'[r]
  BY DEF ReplayHasOrigin, At
<1>1. CASE pc[r] = "replayed"
  <2>1. PICK d \in Calls : pc[d] = "completed" /\ IdOf[d] = IdOf[r] /\ d # r /\ source[d] = source[r]
    BY <1>1 DEF ReplayHasOrigin, At
  <2> QED BY <1>1, <2>1, AnsweredStays
<1>2. CASE pc[r] # "replayed"
  <2>1. r = c
    BY <1>2, KeysAndSources
  <2>2. ChargeReplay(c)
    BY <1>2, <2>1
    DEF IInv, TypeOK, Move,
        Charge, ChargeLocked, ChargeAllowance, ChargeFree, ChargeInsufficient,
        ChargeWallet, ChargeUnavailable, Record, RecordCharge, RecordChargeFails, RollbackRedis,
        RollbackRedisFails, Upstream, UpstreamCompletes, ProxyRefuses, UpstreamThrows,
        StreamBreaks, Refund, RefundRefused, RefundLua, RecordRefund, RecordRefundFails,
        UndoRefundIdem, UndoRefundCount, UndoRefundWallet, UndoRefundFails
  <2>3. pc[c] = "arrived" /\ IdOf[c] \in respCache /\ source'[c] = billIdem[IdOf[c]]
    BY <2>1, <2>2 DEF ChargeReplay, Move, IInv, TypeOK
  <2>4. PICK d \in Calls : pc[d] = "completed" /\ IdOf[d] = IdOf[c]
    BY <2>3 DEF AnswersFollowKeys, At
  <2>5. source[d] = billIdem[IdOf[d]]
    BY <2>4 DEF AnswersFollowKeys, At, Through
  <2> QED BY <2>1, <2>3, <2>4, <2>5, AnsweredStays
<1> QED BY <1>1, <1>2

\* A call is replayed only the answer that an earlier call with its request id
\* got from upstream, and counts as paid from the source that paid for that.
THEOREM ReplayHasOriginAlways == Spec => []ReplayHasOrigin
<1>1. Init => AnswersFollowKeys /\ ReplayHasOrigin
  BY DEF Init, AnswersFollowKeys, ReplayHasOrigin, At, Through, InRefund, InUndo, UndoStuck
<1>2. IInv /\ AnswersFollowKeys /\ ReplayHasOrigin /\ [Next]_vars
        => (AnswersFollowKeys /\ ReplayHasOrigin)'
  <2> SUFFICES ASSUME IInv, AnswersFollowKeys, ReplayHasOrigin, [Next]_vars
               PROVE  AnswersFollowKeys' /\ ReplayHasOrigin'
    OBVIOUS
  <2>1. CASE (\E t \in Topups : Topup(t)) \/ SetLockFlag \/ ClearLockFlag \/ UNCHANGED vars
    <3>1. UNCHANGED <<billIdem, respCache, source, pc>>
      BY <2>1 DEF Topup, TopupDb, TopupRedis, TopupRedisFails, SetLockFlag, ClearLockFlag,
                  vars, redisVars
    <3> QED BY <3>1 DEF AnswersFollowKeys, ReplayHasOrigin, At
  <2> QED BY <2>1, CallAnswers, CallOrigin DEF Next
<1> QED BY <1>1, <1>2, Invariant, PTL DEF Spec

\* The ledger shows at most RefundCap refunds.
THEOREM RefundsWithinCapAlways == Spec => []RefundsWithinCap
<1>1. IInv => RefundsWithinCap
  <2> SUFFICES ASSUME IInv PROVE Cardinality(refunds) <= RefundCap
    BY DEF RefundsWithinCap
  <2>1. refunds \subseteq At(Counted)
    BY DEF IInv, LedgerFollowsHandlers, At, Counted
  <2>2. IsFiniteSet(At(Counted)) /\ Cardinality(At(Counted)) \in Nat
    BY AtFinite
  <2>3. Cardinality(refunds) \in Nat /\ Cardinality(refunds) <= Cardinality(At(Counted))
    BY <2>1, <2>2, FS_Subset, FS_CardinalityType
  <2>4. Cardinality(At(Counted)) <= RefundCap
    BY DEF IInv, CountFollowsRefunds
  <2> QED BY <2>2, <2>3, <2>4, BillingAssumption
<1> QED BY <1>1, Invariant, PTL

-----------------------------------------------------------------------------
(***************************************************************************)
(* The ledger implements the wallet's contract.                            *)
(***************************************************************************)

\* A recorded charge pays for a request id that nobody has paid for.
LEMMA RecordIsPay ==
    ASSUME IInv, NEW c \in Calls, RecordCharge(c)
    PROVE  Contract!Pay(IdOf[c])
<1>1. /\ pc[c] = "recording" /\ IdOf \in [Calls -> Ids]
      /\ db' = db - Price /\ charges' = charges \cup {c} /\ UNCHANGED <<refunds, credits>>
  BY BillingAssumption DEF RecordCharge, Move
<1>2. /\ charges \subseteq At(Through) /\ refunds \subseteq charges
      /\ \A d, e \in At(Through \cup InCharge) : IdOf[d] = IdOf[e] => d = e
  BY DEF IInv, LedgerFollowsHandlers, IdsAreTaken, At, Refundable
<1>3. \A d \in charges : IdOf[d] # IdOf[c]
  BY <1>1, <1>2 DEF At, Through, InCharge, InRefund, InUndo, UndoStuck
<1>4. paymentStatus[IdOf[c]] = "unpaid"
  BY <1>1, <1>2, <1>3 DEF paymentStatus
<1>5. paymentStatus' = [paymentStatus EXCEPT ![IdOf[c]] = "paid"]
  BY <1>1, <1>2, <1>3 DEF paymentStatus
<1> QED BY <1>1, <1>4, <1>5 DEF Contract!Pay

\* A recorded refund gives back a payment that was not given back before.
LEMMA RecordRefundIsGiveBack ==
    ASSUME IInv, NEW c \in Calls, RecordRefund(c)
    PROVE  Contract!GiveBack(IdOf[c])
<1>1. /\ pc[c] = "refundRecording" /\ IdOf \in [Calls -> Ids]
      /\ db' = db + Price /\ refunds' = refunds \cup {c} /\ UNCHANGED <<charges, credits>>
  BY BillingAssumption DEF RecordRefund, Move
<1>2. c \in charges
  BY <1>1 DEF IInv, LedgerFollowsHandlers, At, Refundable, InRefund
<1>3. refunds = At({"refunded"}) /\ c \in At(Through) /\ refunds \subseteq At(Through)
  BY <1>1 DEF IInv, LedgerFollowsHandlers, At, Through, InRefund
<1>4. \A d, e \in At(Through) : IdOf[d] = IdOf[e] => d = e
  BY DEF IInv, IdsAreTaken, At
<1>5. \A d \in refunds : IdOf[d] # IdOf[c]
  BY <1>1, <1>3, <1>4 DEF At
<1>6. paymentStatus[IdOf[c]] = "paid"
  BY <1>1, <1>2, <1>5 DEF paymentStatus
<1>7. paymentStatus' = [paymentStatus EXCEPT ![IdOf[c]] = "refunded"]
  BY <1>1, <1>2, <1>5 DEF paymentStatus
<1> QED BY <1>1, <1>6, <1>7 DEF Contract!GiveBack

\* Every other step of a call leaves the contract's variables alone.
LEMMA CallIsStutter ==
    ASSUME NEW c \in Calls, Charge(c) \/ Record(c) \/ Upstream(c) \/ Refund(c),
           ~RecordCharge(c), ~RecordRefund(c)
    PROVE  UNCHANGED <<db, charges, refunds, credits>>
<1> USE DEF ledgerVars
<1>1. CASE Charge(c)
  BY <1>1 DEF Charge, ChargeLocked, ChargeReplay, ChargeAllowance, ChargeFree,
     ChargeInsufficient, ChargeWallet, ChargeUnavailable
<1>2. CASE Record(c)
  BY <1>2 DEF Record, RecordChargeFails, RollbackRedis, RollbackRedisFails
<1>3. CASE Upstream(c)
  BY <1>3 DEF Upstream, UpstreamCompletes, ProxyRefuses, UpstreamThrows, StreamBreaks
<1>4. CASE Refund(c)
  BY <1>4 DEF Refund, RefundRefused, RefundLua, RecordRefundFails,
     UndoRefundIdem, UndoRefundCount, UndoRefundWallet, UndoRefundFails
<1> QED BY <1>1, <1>2, <1>3, <1>4

\* A step of a top-up is the contract's top-up or a stutter.
LEMMA TopupIsTopUp ==
    ASSUME IInv, NEW t \in Topups, Topup(t)
    PROVE  [Contract!Next]_(Contract!vars)
<1>1. CASE TopupDb(t)
  <2>1. t \notin credits
    BY <1>1 DEF IInv, LedgerFollowsHandlers, TopupDb, TopupMove
  <2>2. /\ credits' = credits \cup {t} /\ db' = db + Credit
        /\ UNCHANGED <<charges, refunds>>
    BY <1>1 DEF TopupDb
  <2>3. UNCHANGED paymentStatus
    BY <2>2 DEF paymentStatus
  <2>4. Contract!TopUp(t)
    BY <2>1, <2>2, <2>3 DEF Contract!TopUp
  <2> QED BY <2>4 DEF Contract!Next
<1>2. CASE TopupRedis(t) \/ TopupRedisFails(t)
  <2>1. UNCHANGED <<db, charges, refunds, credits>>
    BY <1>2 DEF TopupRedis, TopupRedisFails, ledgerVars
  <2> QED BY <2>1 DEF Contract!vars, paymentStatus
<1> QED BY <1>1, <1>2 DEF Topup

\* Postgres implements the contract of a wallet: it is paid once per request
\* id, gives a payment back once, and counts a top-up once, although the
\* decision to charge or refund is taken in Redis, in another step.
THEOREM LedgerImplementsContract == Spec => ImplementsContract
<1>1. Init => Contract!Init
  BY DEF Init, Contract!Init, paymentStatus
<1>2. IInv /\ [Next]_vars => [Contract!Next]_(Contract!vars)
  <2> SUFFICES ASSUME IInv, [Next]_vars PROVE [Contract!Next]_(Contract!vars)
    OBVIOUS
  <2>1. ASSUME NEW c \in Calls, Charge(c) \/ Record(c) \/ Upstream(c) \/ Refund(c)
        PROVE  [Contract!Next]_(Contract!vars)
    <3>1. IdOf[c] \in Ids
      BY BillingAssumption
    <3>2. CASE RecordCharge(c)
      BY <3>1, <3>2, RecordIsPay DEF Contract!Next
    <3>3. CASE RecordRefund(c)
      BY <3>1, <3>3, RecordRefundIsGiveBack DEF Contract!Next
    <3>4. CASE ~RecordCharge(c) /\ ~RecordRefund(c)
      BY <2>1, <3>4, CallIsStutter DEF Contract!vars, paymentStatus
    <3> QED BY <3>2, <3>3, <3>4
  <2>2. CASE SetLockFlag \/ ClearLockFlag \/ UNCHANGED vars
    <3>1. UNCHANGED <<db, charges, refunds, credits>>
      BY <2>2 DEF SetLockFlag, ClearLockFlag, vars, ledgerVars
    <3> QED BY <3>1 DEF Contract!vars, paymentStatus
  <2> QED BY <2>1, <2>2, TopupIsTopUp DEF Next
<1> QED BY <1>1, <1>2, Invariant, PTL DEF Spec, ImplementsContract, Contract!Spec
=============================================================================
