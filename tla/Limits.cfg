SPECIFICATION BothSpec
CONSTANTS
    c1 = c1
    c2 = c2
    c3 = c3
    a1 = a1
    a2 = a2
    o1 = o1
    o2 = o2
    i1 = i1
    Calls = {c1, c2, c3}
    Windows = {"minute", "hour"}
    Size <- MinuteHour
    Limit <- OneAndTwo
    Max = 1
    MaxTime = 1
    Served = {a1, a2}
    RequestId <- SameId
    Owner <- OwnId
    Ids = {i1}
    Owners = {o1, o2}
    Days = {1}
    NoEvent = NoEvent
    MaxAttempts = 2
    MaxStalled = 1
    MaxEvents = 2
INVARIANTS RateLimitKept SlotBound SlotsAccounted CountsExplained
PROPERTIES SlotsComeBack QueuedIsSettled
CHECK_DEADLOCK FALSE
