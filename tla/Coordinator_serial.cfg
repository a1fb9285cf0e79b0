SPECIFICATION Spec
CONSTANTS
    None = None
    n1 = n1
    r1 = r1
    r2 = r2
    w1 = w1
    w2 = w2
    Net = {w1, w2}
    Node = {n1}
    Req = {r1, r2}
    Ops = {"register", "heartbeat", "meshRegister", "meshHeartbeatRecord", "meshHeartbeat", "meshDeregister", "list"}
    EnvNet = None
    MinTtl = 1
    Grace = 1
    DefaultTtl = 2
    MaxTtl = 4
    MaxAhead = 4
    ExpTimes = {1}
    HeartbeatExps = {None}
    HbTimes = {1, 2}
    MaxNow = 3
    SerialClients = TRUE
    PromptHandlers = FALSE
    StoreMayFail = FALSE
INVARIANT ProxyMirrorsMesh
INVARIANT DeregisteredStaysGone
INVARIANT ListHidesDeregistered
PROPERTY HeartbeatNeverRegresses
