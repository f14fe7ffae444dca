SPECIFICATION Spec
CONSTANTS
    MaxThreads = 2
    TicksPerSecond = 2
    MaxTicks = 6
    JoinSeconds = 2
    FlushEvery = 1
    MaxPackets = 2
    None = None
CHECK_DEADLOCK FALSE
INVARIANTS TypeOK ExportIsOwn RecordingsKept BatchesSpread
