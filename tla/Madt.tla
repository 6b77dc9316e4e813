-------------------------------- MODULE Madt --------------------------------
(***************************************************************************)
(* What the kernel learns of the machine's processors and IO-APICs: the    *)
(* passes of arch/x86/ukernel/acpi/boot.c over the subtables of the MADT   *)
(* (with acpi_subtable_parse of drivers/acpi/acpi.c), the numbering of     *)
(* processors (apic/apic.c) and the table of IO-APICs (apic/io_apic.c).    *)
(*                                                                         *)
(* The MADT is a sequence of entries of different types in any order;      *)
(* every pass walks all of it and runs its handler on one type.            *)
(***************************************************************************)
EXTENDS Integers, Sequences, FiniteSets

CONSTANTS
    Entries,       \* the subtables a MADT may have
    MaxEntries,    \* bound of their number
    Addresses,     \* values of the MADT's 'address'
    Bsp,           \* APIC ID of the boot processor
    Broadcast,     \* 0xFF or 0xFFFFFFFF
    NR_CPUS, NR_IOAPIC,
    PAGE_SIZE,
    Redir,         \* redirection entries of the IO-APIC at an address
    ReadElsewhere, \* what a read beside an IO-APIC's registers may give
    X2Modes        \* whether the firmware may leave the processor in x2APIC mode

ProcTypes == {"LOCAL_APIC", "LOCAL_X2APIC"}

ASSUME MadtAssumption ==
    /\ \A e \in Entries :
          /\ e.type \in ProcTypes => e.id \in Nat /\ e.uid \in Nat /\ e.enabled \in BOOLEAN
          /\ e.type = "IO_APIC" =>
                /\ e.id \in Nat /\ e.address \in Nat /\ e.gsi_base \in Nat
                /\ e.address \in DOMAIN Redir /\ Redir[e.address] \in Nat \ {0}
          /\ e.type = "LOCAL_APIC_OVERRIDE" => e.address \in Nat
    /\ MaxEntries \in Nat
    /\ Addresses \subseteq Nat
    /\ Bsp \in Nat /\ Broadcast \in Nat /\ Bsp # Broadcast
    /\ NR_CPUS \in Nat \ {0} /\ NR_IOAPIC \in Nat \ {0} /\ PAGE_SIZE \in Nat \ {0}
    /\ ReadElsewhere \subseteq Nat \ {0}
    /\ X2Modes \subseteq BOOLEAN

APIC_DEFAULT_PHYS_BASE == -1
NONE == -1
EINVAL == -22

VARIABLES
    madt,             \* the table: 'address' and its subtables
    x2apic_mode,
    pc,               \* the pass, or "start", "register", "done", "fault"
    pos,              \* index of the subtable in work
    err, count,       \* locals of acpi_subtable_parse; err = NONE: not assigned
    result,           \* what each pass returned
    acpi_lapic_addr,
    apic_fixmap,      \* what FIX_APIC_BASE maps
    boot_cpu_apic_id,
    nr_assigned_cpus,
    early_cpuid,      \* early_cpuid_to_apic_id and _acpi_id: pairs, or none
    dropped,          \* processors registered without a number
    ioapics, nr_ioapics,
    io_fixmap,        \* what FIX_IO_APIC_BASE_0 and the following map
    acpi_lapic, acpi_ioapic

walk == <<pos, err, count, result>>
cpus == <<boot_cpu_apic_id, nr_assigned_cpus, early_cpuid, dropped>>
lapic == <<acpi_lapic_addr, apic_fixmap>>
ios == <<ioapics, nr_ioapics, io_fixmap>>
found == <<acpi_lapic, acpi_ioapic>>
vars == <<madt, x2apic_mode, pc, walk, cpus, lapic, ios, found>>

\* The passes, in the order acpi_parse_madt and what it calls make them.
Passes == <<"LOCAL_APIC_OVERRIDE", "LOCAL_APIC", "LOCAL_X2APIC", "LOCAL_APIC_NMI",
            "LOCAL_X2APIC_NMI", "IO_APIC", "INTERRUPT_OVERRIDE", "NMI_SOURCE">>
PassNames == {Passes[p] : p \in DOMAIN Passes}

NoCpu == [apic_id |-> 0, acpi_id |-> 0]

\* A firmware lists a processor that is enabled once.
Listed(t) == {k \in DOMAIN t : t[k].type \in ProcTypes /\ t[k].enabled /\ t[k].id # Broadcast}
OnceEach(t) == \A j, k \in Listed(t) : t[j].id = t[k].id => j = k

Init ==
    /\ madt \in [address : Addresses \cup {0},
                 entry : {t \in UNION {[1 .. k -> Entries] : k \in 0 .. MaxEntries} : OnceEach(t)}]
    /\ x2apic_mode \in X2Modes
    /\ pc = "start"
    /\ pos = 1 /\ err = NONE /\ count = 0 /\ result = [p \in PassNames |-> NONE]
    /\ acpi_lapic_addr = APIC_DEFAULT_PHYS_BASE /\ apic_fixmap = NONE
    /\ boot_cpu_apic_id = 0 /\ nr_assigned_cpus = 1
    /\ early_cpuid = [c \in 0 .. NR_CPUS - 1 |-> NoCpu] /\ dropped = {}
    /\ ioapics = [k \in 0 .. NR_IOAPIC - 1 |-> <<>>] /\ nr_ioapics = 0
    /\ io_fixmap = [k \in 0 .. NR_IOAPIC - 1 |-> NONE]
    /\ acpi_lapic = 0 /\ acpi_ioapic = 0

-----------------------------------------------------------------------------
(* apic/apic.c                                                             *)

\* The flat driver reads the APIC through FIX_APIC_BASE; no other driver is
\* ever installed.
register_lapic_address ==
    /\ pc = "register"
    /\ IF x2apic_mode
       THEN pc' = "fault" /\ UNCHANGED <<apic_fixmap, boot_cpu_apic_id>>
       ELSE /\ apic_fixmap' = acpi_lapic_addr
            /\ boot_cpu_apic_id' = Bsp
            /\ pc' = "LOCAL_APIC"
    /\ UNCHANGED <<madt, x2apic_mode, walk, acpi_lapic_addr,
                   nr_assigned_cpus, early_cpuid, dropped, ios, found>>

\* (Mutant of CpuOf: the boot processor is numbered as it comes.)
CpuOfInOrder(id) == nr_assigned_cpus

CpuOf(id) == IF id = boot_cpu_apic_id THEN 0 ELSE nr_assigned_cpus

register_apic_id(id, uid) ==
    IF CpuOf(id) < NR_CPUS
    THEN /\ early_cpuid' = [early_cpuid EXCEPT ![CpuOf(id)] = [apic_id |-> id, acpi_id |-> uid]]
         /\ nr_assigned_cpus' = nr_assigned_cpus + 1
         /\ UNCHANGED dropped
    ELSE /\ dropped' = dropped \cup {id}
         /\ UNCHANGED <<early_cpuid, nr_assigned_cpus>>

-----------------------------------------------------------------------------
(* apic/io_apic.c                                                          *)

PageOf(a) == a \div PAGE_SIZE

\* The registers are looked for at the offset of the physical address that
\* is recorded, and it is recorded only afterwards: until then it is 0.
io_apic_base(k, page) ==
    (page * PAGE_SIZE) + (IF ioapics[k] = <<>> THEN 0 ELSE ioapics[k].phys_addr % PAGE_SIZE)

\* What io_apic_get_redir_entries may return.
RedirRead(a) == IF a \in DOMAIN Redir THEN {Redir[a]} ELSE ReadElsewhere

\* (Mutant of HasIoSlot: one IO-APIC too few is taken.)
HasIoSlotShort == nr_ioapics < NR_IOAPIC - 1

HasIoSlot == nr_ioapics # NR_IOAPIC

IoCount == nr_ioapics + 1

mp_register_ioapic(e) ==
    IF HasIoSlot
    THEN /\ io_fixmap' = [io_fixmap EXCEPT ![nr_ioapics] = PageOf(e.address)]
         /\ \E n \in RedirRead(io_apic_base(nr_ioapics, PageOf(e.address))) :
               ioapics' = [ioapics EXCEPT ![nr_ioapics] =
                   [id |-> e.id, phys_addr |-> e.address, gsi_base |-> e.gsi_base,
                    gsi_end |-> e.gsi_base + n - 1, nr_registers |-> n]]
         /\ nr_ioapics' = IoCount
    ELSE UNCHANGED ios

-----------------------------------------------------------------------------
(* The handlers: all of them return SUCCESS.                               *)

\* acpi_parse_lapic and acpi_parse_x2apic; the value reserved for broadcast
\* is not a processor.
ParseProcessor(e) ==
    /\ IF e.id # Broadcast /\ e.enabled
       THEN register_apic_id(e.id, e.uid)
       ELSE UNCHANGED <<nr_assigned_cpus, early_cpuid, dropped>>
    /\ UNCHANGED <<boot_cpu_apic_id, lapic, ios>>

acpi_parse_ioapic(e) == mp_register_ioapic(e) /\ UNCHANGED <<cpus, lapic>>

acpi_parse_lapic_address_override(e) ==
    /\ acpi_lapic_addr' = e.address
    /\ UNCHANGED <<apic_fixmap, cpus, ios>>

Handle(e) ==
    \/ e.type \in ProcTypes /\ ParseProcessor(e)
    \/ e.type = "IO_APIC" /\ acpi_parse_ioapic(e)
    \/ e.type = "LOCAL_APIC_OVERRIDE" /\ acpi_parse_lapic_address_override(e)
    \/ /\ e.type \notin ProcTypes \cup {"IO_APIC", "LOCAL_APIC_OVERRIDE"}
       /\ UNCHANGED <<cpus, lapic, ios>>

-----------------------------------------------------------------------------
(* acpi_subtable_parse, one step for each subtable.                        *)

InPass == pc \in PassNames

ParseMatch ==
    /\ InPass /\ pos <= Len(madt.entry)
    /\ madt.entry[pos].type = pc
    /\ Handle(madt.entry[pos])
    /\ err' = 0
    /\ count' = count + 1
    /\ pos' = pos + 1
    /\ UNCHANGED <<madt, x2apic_mode, pc, result, found>>

ParseOther ==
    /\ InPass /\ pos <= Len(madt.entry)
    /\ madt.entry[pos].type # pc
    /\ pos' = pos + 1
    /\ UNCHANGED <<madt, x2apic_mode, pc, err, count, result, cpus, lapic, ios, found>>

\* 'err' is not initialised: if no entry matched, either value may come back.
Returns == CASE err = NONE -> {EINVAL, count} [] err = 0 -> {count} [] OTHER -> {EINVAL}

-----------------------------------------------------------------------------
(* acpi_parse_madt: what follows a pass that returned r.                   *)

AfterPass(p, r) ==
    CASE p = "LOCAL_APIC_OVERRIDE" -> "register"
      [] p = "LOCAL_APIC" -> "LOCAL_X2APIC"
      [] p = "LOCAL_X2APIC" ->
            IF \/ result["LOCAL_APIC"] = 0 /\ r = 0
               \/ result["LOCAL_APIC"] < 0 \/ r < 0
            THEN "done" ELSE "LOCAL_APIC_NMI"
      [] p = "LOCAL_APIC_NMI" -> "LOCAL_X2APIC_NMI"
      [] p = "LOCAL_X2APIC_NMI" ->
            IF result["LOCAL_APIC_NMI"] < 0 \/ r < 0 THEN "done" ELSE "IO_APIC"
      [] p = "IO_APIC" -> IF r <= 0 THEN "done" ELSE "INTERRUPT_OVERRIDE"
      [] p = "INTERRUPT_OVERRIDE" -> IF r < 0 THEN "done" ELSE "NMI_SOURCE"
      [] p = "NMI_SOURCE" -> "done"

ParseDone ==
    /\ InPass /\ pos > Len(madt.entry)
    /\ \E r \in Returns :
          /\ result' = [result EXCEPT ![pc] = r]
          /\ pc' = AfterPass(pc, r)
          /\ acpi_lapic' = IF AfterPass(pc, r) = "IO_APIC" THEN 1 ELSE acpi_lapic
          /\ acpi_ioapic' = IF pc = "NMI_SOURCE" /\ r >= 0 THEN 1 ELSE acpi_ioapic
    /\ pos' = 1 /\ err' = NONE /\ count' = 0
    /\ UNCHANGED <<madt, x2apic_mode, cpus, lapic, ios>>

acpi_parse_madt ==
    /\ pc = "start"
    /\ acpi_lapic_addr' = IF madt.address # 0 THEN madt.address ELSE acpi_lapic_addr
    /\ pc' = "LOCAL_APIC_OVERRIDE"
    /\ UNCHANGED <<madt, x2apic_mode, walk, apic_fixmap, cpus, ios, found>>

Next ==
    \/ acpi_parse_madt
    \/ register_lapic_address
    \/ ParseMatch
    \/ ParseOther
    \/ ParseDone

Spec == Init /\ [][Next]_vars

-----------------------------------------------------------------------------
(* Properties.                                                             *)

OfType(ty) == {k \in DOMAIN madt.entry : madt.entry[k].type = ty}
Processors == Listed(madt.entry)

\* How many of the first n subtables list a processor as type ty.
ListedAs(ty, n) == Cardinality({k \in 1 .. n : k \in Processors /\ madt.entry[k].type = ty})

\* The place of the processor at k in the order they are registered in, and
\* its number.
Place(k) ==
    IF madt.entry[k].type = "LOCAL_APIC"
    THEN ListedAs("LOCAL_APIC", k)
    ELSE ListedAs("LOCAL_APIC", Len(madt.entry)) + ListedAs("LOCAL_X2APIC", k)
CpuNumber(k) == IF madt.entry[k].id = Bsp THEN 0 ELSE Place(k)
CpuEntry(k) == [apic_id |-> madt.entry[k].id, acpi_id |-> madt.entry[k].uid]

ProcessorsRead ==
    pc \in {"LOCAL_APIC_NMI", "LOCAL_X2APIC_NMI", "IO_APIC", "INTERRUPT_OVERRIDE",
            "NMI_SOURCE", "done"}

LastOf(S) == CHOOSE k \in S : \A j \in S : j <= k

\* Once both kinds of processor entries are read, the boot processor has
\* number 0 wherever it is listed; any other processor has as its number its
\* place in the order the passes register them, and no number belongs to two
\* processors.  The boot processor's entry takes a place too: the processors
\* registered after it are numbered one higher than if it were not listed, and
\* the number of its place is nobody's (number 1, if it is listed first).
\* Exactly those whose number would be NR_CPUS or more are dropped: for that
\* reason also one of NR_CPUS processors if the boot processor is not the last.
\* The local APIC is mapped where the MADT says: at the last override if there
\* is one, else at the address in its header, else at the default.
CpuNumbers ==
    /\ ProcessorsRead =>
          /\ \A k \in Processors :
                CpuNumber(k) < NR_CPUS => early_cpuid[CpuNumber(k)] = CpuEntry(k)
          /\ \A c \in 0 .. NR_CPUS - 1 :
                early_cpuid[c] # NoCpu =>
                    \E k \in Processors : c = CpuNumber(k) /\ early_cpuid[c] = CpuEntry(k)
          /\ dropped = {madt.entry[k].id : k \in {x \in Processors : CpuNumber(x) >= NR_CPUS}}
    /\ LET over == OfType("LOCAL_APIC_OVERRIDE")
       IN  apic_fixmap # NONE =>
               apic_fixmap = IF over # {} THEN madt.entry[LastOf(over)].address
                             ELSE IF madt.address # 0 THEN madt.address
                             ELSE APIC_DEFAULT_PHYS_BASE

\* How many of the first n subtables are IO-APICs.
IoAmong(n) == Cardinality({k \in 1 .. n : madt.entry[k].type = "IO_APIC"})

\* What is recorded in slot s of the IO-APIC listed as e.
RecordedAt(s, e) ==
    /\ ioapics[s].id = e.id /\ ioapics[s].phys_addr = e.address
    /\ ioapics[s].gsi_base = e.gsi_base
    /\ io_fixmap[s] = PageOf(e.address)
    /\ e.address % PAGE_SIZE = 0 =>
          /\ ioapics[s].nr_registers = Redir[e.address]
          /\ ioapics[s].gsi_end = e.gsi_base + Redir[e.address] - 1

\* The IO-APICs recorded are the first ones of the MADT in its order, each
\* mapped at its own fixmap entry, with a range of interrupts as long as its
\* redirection table, if it begins a page.  acpi_lapic ("LAPIC found.") and
\* acpi_ioapic ("IOAPIC found.") are set only if the MADT lists one, the second
\* only with the first; IO-APICs are not touched without acpi_lapic.
IoApicsFaithful ==
    LET all == IoAmong(Len(madt.entry))
    IN  /\ nr_ioapics <= all
        /\ acpi_ioapic = 1 => nr_ioapics = IF all < NR_IOAPIC THEN all ELSE NR_IOAPIC
        /\ \A k \in OfType("IO_APIC") :
              IoAmong(k) <= nr_ioapics => RecordedAt(IoAmong(k) - 1, madt.entry[k])
        /\ acpi_lapic = 1 => OfType("LOCAL_APIC") \cup OfType("LOCAL_X2APIC") # {}
        /\ acpi_ioapic = 1 => acpi_lapic = 1 /\ nr_ioapics > 0
        /\ nr_ioapics > 0 => acpi_lapic = 1

-----------------------------------------------------------------------------
(* What the repository says and the code does not do.                      *)

\* "Base should be 0xFEC0xy00": the registers of an IO-APIC are read at its
\* address, so its redirection table has the length the hardware says.
RedirRight == \A k \in 0 .. nr_ioapics - 1 : ioapics[k].nr_registers = Redir[ioapics[k].phys_addr]
=============================================================================
