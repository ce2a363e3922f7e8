SPECIFICATION CastSpec
CONSTANTS
    c1 = c1
    c2 = c2
    t1 = t1
    t2 = t2
    t3 = t3
    d1 = d1
    d2 = d2
    a1 = a1
    Calls = {c1, c2}
    Topups = {t1, t2, t3}
    Disputes = {d1, d2}
    Adjustments = {a1}
    Price = 2
    Credit = 3
    Amount <- Take
    Opening = 2
    Warm = FALSE
    MaxBalance = 5
    Workers = 2
    MaxFaults = 1
    Absent = Absent
INVARIANTS CacheAgrees AdjustmentErases OverspendBound LockAgrees MaxBalanceBound
PROPERTY LockedNeverCharged
CHECK_DEADLOCK FALSE
SYMMETRY Interchangeable
