SPECIFICATION FairSpec
CONSTANTS
    c1 = c1
    c2 = c2
    c3 = c3
    c4 = c4
    r1 = r1
    r2 = r2
    r3 = r3
    t1 = t1
    Calls = {c1, c2, c3, c4}
    Ids = {r1, r2, r3}
    IdOf <- IdOfRetry
    Streaming = {c3, c4}
    WalletAccess = {c1, c2, c3}
    Topups = {t1}
    Price = 2
    Credit = 3
    Opening = 3
    DailyAllowance = 1
    RefundCap = 1
INVARIANTS StoresReconcile OneChargePerId RefundsMatchCharges
    OverdraftBound ReplayHasOrigin
PROPERTIES ImplementsContract StoresConverge
