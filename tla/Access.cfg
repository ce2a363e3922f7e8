SPECIFICATION Spec
CONSTANTS
    c1 = c1
    c2 = c2
    a1 = a1
    a2 = a2
    Calls = {c1, c2}
    Admins = {a1, a2}
    MaxPlan = 2
    Ttl = 2
    Hold = 1
SYMMETRY Symmetry
INVARIANTS StaleHasCause StalenessBounded
