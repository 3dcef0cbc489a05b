SPECIFICATION FilterSpec
CONSTANTS
    L1a = L1a
    L1b = L1b
    LLC = LLC
    x = x
    y = y
    p = p
    q = q
    Mem = Mem
    None = None
    Caches = {L1a, L1b, LLC}
    Parent <- Tree
    Lines <- MCLines
    Addrs = {x, y}
    ICaches = {}
    Limit = 2
    Process <- OneProcess
INVARIANTS FilterCoherent NoLostStore
PROPERTIES FilterAccessCompletes
CHECK_DEADLOCK FALSE
