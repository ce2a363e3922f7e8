SPECIFICATION CastSpec
CONSTANTS
    c1 = c1
    c2 = c2
    t1 = t1
    t2 = t2
    t3 = t3
    d1 = d1
    d2 = d2
    a1 = a1
    Calls = {}
    Topups = {t1, t2}
    Disputes = {}
    Adjustments = {}
    Price = 2
    Credit = 3
    Amount <- NoAmount
    Opening = 2
    Warm = FALSE
    MaxBalance = 100
    Workers = 2
    MaxFaults = 0
    Absent = Absent
INVARIANT TopupsAllCount
CHECK_DEADLOCK FALSE
