SPECIFICATION OwnerSpec
CONSTANTS
    u1 = u1
    u2 = u2
    u3 = u3
    r1 = r1
    r2 = r2
    c1 = c1
    c2 = c2
    c3 = c3
    s1 = s1
    s2 = s2
    s3 = s3
    s4 = s4
    Users = {u1, u2, u3}
    Requests = {r1, r2}
    Asks <- OrgAsks
    NoUser = NoUser
    NoRole = NoRole
    NoAsk = NoAsk
    MaxSeats = 2
    Checkouts = {c1, c2, c3}
    NoCustomer = NoCustomer
    Spends = {s1, s2, s3, s4}
    DailyAllowance = 1
    DailyRefundCap = 1
    LastDay = 1
INVARIANTS OrphansOverlapped LockFollowsDisputes AllowanceKept RefundCapKept
PROPERTIES LastOwnerGoes MembersComeIn
CHECK_DEADLOCK FALSE
SYMMETRY Alike
