SPECIFICATION Spec
CONSTANTS
    Keys = {k1, k2}
    Local = {l}
    Remote = {r}
    AddressLists = {{}, {l}}
    HistorySlots = 2
    EvictAfter = 1
    U64Max = 2
    Capacity = 1
    MaxPackets = 3
SYMMETRY Symmetry
INVARIANTS TypeOK ThreadsWithinInterface HistoriesAligned ConnectionsWithinThread RowsTrueToWire FrameRowsNotOlder PeakCoversHistory
