SPECIFICATION Spec
CONSTANTS
    MaxAddr = 12
    PAGE_SIZE = 2
    DescLists <- MCDescLists
    Ramdisks <- MCRamdisks
    E820_MAX_ENTRIES = 3
    Text = 4
    EndOfKernel = 6
    BrkPages = 1
    SZ_1M = 4
    RealModeSize = 2
    PercpuSize = 1
    nr_cpu_ids = 2
INVARIANT MemoryFromFirmware
INVARIANT OwnersApart
CHECK_DEADLOCK FALSE
