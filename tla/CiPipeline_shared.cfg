SPECIFICATION Spec
CONSTANTS
    None = None
    r1 = r1
    r2 = r2
    Run = {r1, r2}
    Results <- HardResults
    HardSkew = 2
    SoftSkew = 4
    MaxRunTime = 1
    MaxTime = 1
    OneAtATime = FALSE
INVARIANT OwnContradictionFails
CHECK_DEADLOCK FALSE
