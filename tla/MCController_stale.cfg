SPECIFICATION Spec
CONSTANTS
    Pids = {p1, p2}
    TcpPorts = {t1}
    UdpPorts = {}
    RateNamed = {}
    ForeignHandles = {}
    FirstHandle = 1
    None = None
    MaxHandle = 11
    Faults = {}
PROPERTIES UnblockRemovesTracked
