SPECIFICATION Spec
CONSTANTS
    c1 = c1
    c2 = c2
    c3 = c3
    c4 = c4
    r1 = r1
    r2 = r2
    r3 = r3
    t1 = t1
    Calls = {c1, c2, c3}
    Ids = {c1, c2, c3}
    IdOf <- IdOfDistinct
    Streaming = {c1, c2, c3}
    WalletAccess = {c1, c2, c3}
    Topups = {}
    Price = 2
    Credit = 3
    Opening = 3
    DailyAllowance = 0
    RefundCap = 3
INVARIANT RefundResultUnambiguous
