SPECIFICATION LoaderSpec
CONSTANTS
    NPages = 7
    Memories <- MCMemories
    PARAMS_PAGES = 1
    KernelPages = 1
    KernelAlign = 3
    Slack = 1
    MaxEvents = 2
    Gops <- MCGops
    MaxHandles = 2
    Files <- MCFiles
INVARIANT HandOver
INVARIANT NothingLost
INVARIANT NoLateService
INVARIANT InflateRight
CHECK_DEADLOCK FALSE
