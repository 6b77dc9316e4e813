SPECIFICATION Spec
CONSTANTS
    Tables <- MCTables
    HeadPages <- MCHeadPages
    Pages <- MCPages
    Inside <- MCInside
    Valid <- MCValid
    Sig <- MCSig
    XsdtPages <- MCXsdtPages
    Sigs = {"APIC", "HPET"}
    MaxEntries = 4
    MaxInstance = 2
    ACPI_MAX_INIT_TABLES = 3
    Window = 3
    Beyond <- MCBeyond
INVARIANT NothingLeftMapped
INVARIANT TablesFaithful
INVARIANT AnswerRight
CHECK_DEADLOCK FALSE
