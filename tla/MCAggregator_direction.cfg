SPECIFICATION Spec
CONSTANTS
    Keys = {k1, k2}
    Local = {l}
    Remote = {r1, r2}
    AddressLists = {{}}
    HistorySlots = 2
    EvictAfter = 1
    U64Max = 2
    Capacity = 1
    MaxPackets = 3
INVARIANTS ReceivedCountedAsRx
