SPECIFICATION Spec
CONSTANTS
    None = None
    p1 = p1
    p2 = p2
    n1 = n1
    k1 = k1
    k2 = k2
    t1 = t1
    t2 = t2
    Process = {p1, p2}
    Key = {k1, k2}
    Tool = {t1, t2}
    Node = {n1}
    MaxEvents = 3
    WriteMayFail = TRUE
INVARIANT TypeOK
INVARIANT CachesArePrefixes
INVARIANT CausalDag
 
PROPERTY ReplayStable
PROPERTY ImplementsAppendLog
CHECK_DEADLOCK FALSE
