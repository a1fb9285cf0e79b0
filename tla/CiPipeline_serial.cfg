SPECIFICATION Spec
CONSTANTS
    None = None
    r1 = r1
    r2 = r2
    Run = {r1, r2}
    Results <- AllResults
    HardSkew = 2
    SoftSkew = 3
    MaxRunTime = 1
    MaxTime = 3
    OneAtATime = TRUE
INVARIANT OwnContradictionFails
INVARIANT CompleteRunFailsForItsOwn
SYMMETRY RunSymmetry
CHECK_DEADLOCK FALSE
