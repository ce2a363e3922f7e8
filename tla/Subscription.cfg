SPECIFICATION Spec
CONSTANTS
    s1 = s1
    s2 = s2
    w1 = w1
    w2 = w2
    Subs = {s1, s2}
    NoSub = NoSub
    Workers = {w1, w2}
    Attempts = 2
    MaxEvents = 4
INVARIANTS StatusFollowsStripe ReplacedHasNoSay
CHECK_DEADLOCK FALSE
