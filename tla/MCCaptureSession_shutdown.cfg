SPECIFICATION FairSpec
CONSTANTS
    MaxThreads = 2
    Capacity = 1
    Filters = {}
    NoFilter = NoFilter
    MaxCommands = 1
    JoinTimeouts = TRUE
    ResolverFails = TRUE
PROPERTIES GuiNeverFreezes ShutdownCompletes DeathIsShown DismissedThreadsEnd
