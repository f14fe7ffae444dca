SPECIFICATION Spec
CONSTANTS
    MaxThreads = 2
    Capacity = 1
    Filters = {}
    NoFilter = NoFilter
    MaxCommands = 1
    JoinTimeouts = FALSE
    ResolverFails = FALSE
PROPERTIES OnlyFailedCaptureStops
