SPECIFICATION IndexerSpec
CONSTANTS
    None = None
    p1 = p1
    p2 = p2
    n1 = n1
    n2 = n2
    Peer = {p1, p2}
    NodeId = {n1, n2}
    Placements <- TwoOrOne
    Protocol <- BothProtocols
    HeartbeatInterval = 2
    Ttl = 2
    MaxStart = 1
    MaxAnnounce = 1
    MaxTime = 2
    WithKeyId = {p1, p2}
    PollInterval = 2
INVARIANT IndexerTypeOK
INVARIANT SnapshotHonest
INVARIANT NameIsPinned
INVARIANT OneRecordPerNode
INVARIANT PollFindsSteadyPeers
PROPERTY SnapshotNeverRegresses
CHECK_DEADLOCK FALSE
