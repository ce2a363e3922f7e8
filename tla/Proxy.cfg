SPECIFICATION FairSpec
CONSTANTS
    c1 = c1
    c2 = c2
    c3 = c3
    c4 = c4
    Calls = {c1, c2, c3, c4}
    Streaming = {c1}
    Threshold = 2
INVARIANTS FailuresExplained RefundIffFailedEarly ReportedOnce
PROPERTIES StreamsEnd HalfOpenEnds
CHECK_DEADLOCK FALSE
