SPECIFICATION Spec
CONSTANTS
    Pids = {p1, p2}
    TcpPorts = {t1}
    UdpPorts = {u1}
    RateNamed = {}
    ForeignHandles = {}
    FirstHandle = 1
    None = None
    MaxHandle = 7
    Faults = {}
PROPERTIES OnlyOwnPortsBlocked
