SPECIFICATION Spec
CONSTANTS
    None = None
    n1 = n1
    r1 = r1
    r2 = r2
    w1 = w1
    w2 = w2
    Net = {w1, w2}
    Node = {n1}
    Req = {r1, r2}
    Ops = {"register", "heartbeat", "meshRegister", "meshHeartbeatRecord", "meshHeartbeat", "meshDeregister", "delete"}
    EnvNet = w1
    MinTtl = 1
    Grace = 1
    DefaultTtl = 2
    MaxTtl = 4
    MaxAhead = 4
    ExpTimes = {1, 5}
    HeartbeatExps = {None}
    HbTimes = {1}
    MaxNow = 3
    SerialClients = FALSE
    PromptHandlers = FALSE
    StoreMayFail = TRUE
INVARIANT OnlyAdmittedRecords
INVARIANT MeshLeaseCoversRecord
