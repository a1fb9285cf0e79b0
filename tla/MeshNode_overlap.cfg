SPECIFICATION FairSpec
CONSTANTS
    None = None
    p1 = p1
    Peer = {p1}
    HeartbeatInterval = 2
    Ttl = 9
    MaxStart = 2
    MaxAnnounce = 3
    MaxTime = 12
INVARIANT ServesLiveRecord
PROPERTY ServedNeverRegresses
PROPERTY HeartbeatReachesServer
CHECK_DEADLOCK FALSE
