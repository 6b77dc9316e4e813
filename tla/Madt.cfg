SPECIFICATION Spec
CONSTANTS
    Entries <- MadtEntries
    MaxEntries = 4
    Addresses = {56}
    Bsp = 1
    Broadcast = 255
    NR_CPUS = 2
    NR_IOAPIC = 2
    PAGE_SIZE = 8
    Redir <- Redirections
    ReadElsewhere = {1, 5}
    X2Modes = {FALSE, TRUE}
INVARIANT CpuNumbers
INVARIANT IoApicsFaithful
CHECK_DEADLOCK FALSE
