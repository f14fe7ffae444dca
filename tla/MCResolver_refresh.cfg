SPECIFICATION Spec
CONSTANTS
    i1 = i1
    i2 = i2
    Inodes <- PairInodes
    TableOf <- PairTableOf
    Pids = {p1, p2}
    Unknown = Unknown
    Ends <- OneEnd
    FamilyOf <- OneFamily
    NoEnds = NoEnds
    NoFlow = NoFlow
    NoSocket = NoSocket
    Faults = {"netlink", "proc", "scan"}
SYMMETRY Symmetry
INVARIANTS TypeOK StableFlowAnswered AnswerExplained
PROPERTIES RefreshAtMostOncePerPeriod RefreshIsRegular
