SPECIFICATION Spec
CONSTANTS
    None = None
    p1 = p1
    p2 = p2
    Peer = {p1, p2}
    Ttl = 1
    MaxTime = 1
    a1 = a1
    a2 = a2
    a3 = a3
    bad = bad
    Addr = {a1, a2, a3, bad}
    Valid = {a1, a2, a3}
    Threshold = 50
SYMMETRY Symmetry
INVARIANT TypeOK
INVARIANT SteadyGhostsReported
INVARIANT BuriedAreNoGhosts
INVARIANT ReportsAgree
INVARIANT VerdictInBounds
CHECK_DEADLOCK FALSE
