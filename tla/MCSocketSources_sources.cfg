SPECIFICATION FairSpec
CONSTANTS
    Inodes <- PairInodes
    TableOf <- PairTableOf
    HeaderSize = 2
    DiagSize = 1
    AlignTo = 2
    MaxReceived = 10
    MaxDatagrams = 2
INVARIANTS TypeOK SliceInBounds SuccessIsWhole
PROPERTIES QueryEnds
