SPECIFICATION Spec
CONSTANTS
    c1 = c1
    c2 = c2
    i1 = i1
    Nowhere = Nowhere
    Calls = {c1, c2}
    Instances = {i1}
    ModelTtl = 2
    MemoryTtl = 2
    RedisTtl = 3
    Hold = 1
SYMMETRY Symmetry
INVARIANTS UnservedOnlyAfterChange PriceSettles
