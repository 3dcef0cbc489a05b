SPECIFICATION Spec
CONSTANTS
    L1a = L1a
    L1b = L1b
    L2 = L2
    LLC = LLC
    Mem = Mem
    None = None
    Caches = {L1a, L1b, L2, LLC}
    Parent <- Tree
    Lines <- TwoLines
    Addrs = {x, y}
    ICaches = {L1b}
    Limit = 0
INVARIANTS HierarchyConsistent SWMR NoAssertionFails
