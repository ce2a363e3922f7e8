SPECIFICATION FairSpec
CONSTANTS
    e1 = e1
    e2 = e2
    e3 = e3
    e4 = e4
    d1 = d1
    d2 = d2
    d3 = d3
    d4 = d4
    d5 = d5
    w1 = w1
    w2 = w2
    Events = {e1, e2, e3, e4}
    Kind <- FourKinds
    Deliveries = {d1, d2, d3, d4, d5}
    EventOf <- FirstTwice
    Batches <- TopupOrDispute
    Workers = {w1, w2}
    NoEvent = NoEvent
    Attempts = 2
    MaxStalls = 1
INVARIANTS EntriesExplained ReceivedIsKept LockFlagAgrees
PROPERTY ReceivedIsSettled
CHECK_DEADLOCK FALSE
