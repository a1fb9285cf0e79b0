SPECIFICATION Spec
CONSTANTS
    None = None
    n1 = n1
    r1 = r1
    r2 = r2
    w1 = w1
    Net = {w1}
    Node = {n1}
    Req = {r1, r2}
    Ops = {"meshRegister", "meshHeartbeat", "meshDeregister"}
    EnvNet = None
    MinTtl = 1
    Grace = 1
    DefaultTtl = 2
    MaxTtl = 4
    MaxAhead = 4
    ExpTimes = {2, 5}
    HeartbeatExps = {None}
    HbTimes = {1, 2}
    MaxNow = 4
    SerialClients = FALSE
    PromptHandlers = TRUE
    StoreMayFail = FALSE
INVARIANT DeregisteredStaysGone
