SPECIFICATION Spec
CONSTANTS
    MaxThreads = 2
    Capacity = 1
    Filters = {f1, f2}
    NoFilter = NoFilter
    MaxCommands = 1
    JoinTimeouts = TRUE
    ResolverFails = TRUE
SYMMETRY FilterSymmetry
INVARIANTS TypeOK CapturingHasControl FilterLabelAccurate
PROPERTIES ImplementsSession
