SPECIFICATION Spec
CONSTANTS
    Pids = {p1, p2}
    TcpPorts = {t1}
    UdpPorts = {u1}
    RateNamed = {}
    ForeignHandles = {0}
    FirstHandle = 1
    None = None
    MaxHandle = 7
    Faults = {"nft", "crash"}
SYMMETRY PidSymmetry
INVARIANTS TypeOK TrackedAreOwn TrackedAreAll
PROPERTIES UnblockOkClears RemovalsOfOneProcess LimitKeepsBlockRules
