SPECIFICATION Spec
CONSTANTS
    Pids = {p1, p2}
    TcpPorts = {t1}
    UdpPorts = {}
    RateNamed = {}
    ForeignHandles = {0}
    FirstHandle = 1
    None = None
    MaxHandle = 9
    Faults = {"crash", "reset"}
SYMMETRY PidSymmetry
INVARIANTS CleanExitRemovesRules
PROPERTIES OnlyCrashHidesRules
