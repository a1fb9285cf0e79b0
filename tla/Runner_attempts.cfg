SPECIFICATION Spec
CONSTANTS
    None = None
    a1 = a1
    a2 = a2
    w1 = w1
    Attempt = {a1, a2}
    RunId = "gha"
    MeshId <- MeshIds
    Net = {w1}
    MinTtl = 1
    Grace = 2
    DefaultTtl = 5
    MaxTtl = 10
    MaxAhead = 10
    MaxNow = 8
    JobLimit = 4
    Life = 4
    Period = 2
    Beats = 2
    MaxSetup = 1
    MaxLosses = 2
INVARIANT TypeOK
INVARIANT EntriesLapse
INVARIANT RoundRestores
INVARIANT MeshNodeSubscribable
INVARIANT ClosedStaysGone
CHECK_DEADLOCK FALSE
