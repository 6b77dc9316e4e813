-------------------------------- MODULE Boot --------------------------------
(***************************************************************************)
(* Physical memory from the firmware's map to the per-CPU areas: the e820  *)
(* table (e820.c, filled by efi.c), memblock's memory, and the order in    *)
(* which setup_arch (setup.c), init_mem_mapping (mm.c), reserve_real_mode  *)
(* (realmode/init.c) and setup_per_cpu_areas (setup_percpu.c) reserve, map *)
(* and allocate it.                                                        *)
(*                                                                         *)
(* memblock is its specification, MemblockAbs: this module makes the calls *)
(* and MemblockAbs answers them.                                           *)
(***************************************************************************)
EXTENDS Integers, Sequences

CONSTANTS
    MaxAddr, PAGE_SIZE,
    DescLists,          \* memory maps of the firmware: sequences of descriptors
    Ramdisks,           \* ramdisk_image and ramdisk_size
    E820_MAX_ENTRIES,
    Text, EndOfKernel,  \* _text, __end_of_kernel_reserve
    BrkPages,           \* CONFIG_BRK_ALLOC_PAGES
    SZ_1M,
    RealModeSize,       \* real_mode_size_needed()
    PercpuSize,         \* __per_cpu_end - __per_cpu_start
    nr_cpu_ids

ASSUME BootAssumption ==
    /\ MaxAddr \in Nat /\ PAGE_SIZE \in Nat \ {0}
    /\ E820_MAX_ENTRIES \in Nat \ {0}
    /\ Text \in Nat /\ EndOfKernel \in Nat /\ Text <= EndOfKernel
    /\ BrkPages \in Nat /\ EndOfKernel + BrkPages * PAGE_SIZE <= MaxAddr
    /\ SZ_1M \in Nat /\ SZ_1M <= Text
    /\ RealModeSize \in Nat /\ PercpuSize \in Nat \ {0} /\ nr_cpu_ids \in Nat
    /\ \A r \in Ramdisks : r.image \in Nat /\ r.size \in Nat

\* Firmware describes memory in pages, and inside the address space; the
\* linker script aligns the ends of the kernel, real_mode_size_needed rounds,
\* and a loader puts a ramdisk at the start of a page.
ASSUME LayoutAssumption ==
    /\ MaxAddr % PAGE_SIZE = 0 /\ RealModeSize % PAGE_SIZE = 0
    /\ Text % PAGE_SIZE = 0 /\ EndOfKernel % PAGE_SIZE = 0
    /\ \A r \in Ramdisks : r.image % PAGE_SIZE = 0
    /\ \A s \in DescLists :
          /\ s \in Seq([start : Nat, pages : Nat, type : STRING])
          /\ \A j \in DOMAIN s : /\ s[j].start % PAGE_SIZE = 0
                                 /\ s[j].start + s[j].pages * PAGE_SIZE <= MaxAddr

VARIABLES
    mem, st, req, res,  \* MemblockAbs
    full,               \* memblock has refused a call for want of entries
    descs, ramdisk,     \* boot_params
    e820,               \* the entries in use
    k, idx,             \* loop counters
    pc,
    brk,                \* pages of the brk that hold page tables
    mapped,             \* pages of the direct mapping
    real_mode,          \* real_mode_header, or 0
    percpu              \* the areas allocated, by CPU

memblock == <<mem, st, req, res, full>>
boot == <<descs, ramdisk, e820, k, idx, brk, mapped, real_mode, percpu>>
vars == <<memblock, boot, pc>>

MB == INSTANCE MemblockAbs WITH Nodes <- {0}, Aligns <- {PAGE_SIZE}

Bytes == 0 .. MaxAddr - 1
PageNumbers == 0 .. (MaxAddr \div PAGE_SIZE) - 1
Range(b, s) == b .. b + s - 1
BytesOf(p) == Range(p * PAGE_SIZE, PAGE_SIZE)

Kernel == Text .. EndOfKernel - 1
Brk == Range(EndOfKernel, BrkPages * PAGE_SIZE)

\* The type efi_add_memmap gives a descriptor.
E820Type(t) ==
    CASE t \in {"LOADER_CODE", "LOADER_DATA", "BOOT_SERVICES_CODE",
                "BOOT_SERVICES_DATA", "CONVENTIONAL"} -> "RAM"
      [] t = "ACPI_RECLAIM" -> "ACPI"
      [] t = "ACPI_NVS" -> "NVS"
      [] t = "UNUSABLE" -> "UNUSABLE"
      [] t = "PERSISTENT" -> "PMEM"
      [] OTHER -> "RESERVED"

DescBytes(d) == Range(d.start, d.pages * PAGE_SIZE)
RamBytes(s) == UNION {DescBytes(s[j]) : j \in {x \in DOMAIN s : E820Type(s[x].type) = "RAM"}}

\* ROUND_UP(ramdisk_size, PAGE_SIZE)
RoundUp(s) == ((s + PAGE_SIZE - 1) \div PAGE_SIZE) * PAGE_SIZE
RamdiskBytes ==
    IF ramdisk.image = 0 \/ ramdisk.size = 0 THEN {}
    ELSE Range(ramdisk.image, RoundUp(ramdisk.size))

\* The loader put the kernel and the ramdisk into memory, apart.
Init ==
    /\ MB!Init /\ full = FALSE
    /\ descs \in DescLists
    /\ ramdisk \in Ramdisks
    /\ Kernel \cup Brk \cup RamdiskBytes \subseteq RamBytes(descs)
    /\ RamdiskBytes \cap (Kernel \cup Brk) = {}
    /\ e820 = <<>> /\ k = 1 /\ idx = 1
    /\ pc = "memmap"
    /\ brk = 0 /\ mapped = {} /\ real_mode = 0
    /\ percpu = <<>>

-----------------------------------------------------------------------------
(* efi_add_memmap, e820__range_add, e820__update_table.                    *)

Entry(d) == [start |-> d.start, size |-> d.pages * PAGE_SIZE, type |-> E820Type(d.type)]

TableFull == Len(e820) = E820_MAX_ENTRIES

RangeAdd ==
    /\ pc = "memmap" /\ k <= Len(descs)
    /\ e820' = IF TableFull THEN e820 ELSE Append(e820, Entry(descs[k]))
    /\ k' = k + 1
    /\ UNCHANGED <<memblock, pc, descs, ramdisk, idx, brk, mapped, real_mode, percpu>>

MemmapDone ==
    /\ pc = "memmap" /\ k > Len(descs)
    /\ pc' = IF e820 = <<>> THEN "setup" ELSE "update"
    /\ k' = IF e820 = <<>> THEN 1 ELSE 2
    /\ idx' = 1
    /\ UNCHANGED <<memblock, descs, ramdisk, e820, brk, mapped, real_mode, percpu>>

\* Entry b continues entry a.
Continues(a, b) == a.type = b.type /\ a.start + a.size = b.start

UpdateMerge ==
    /\ pc = "update" /\ k <= Len(e820)
    /\ Continues(e820[idx], e820[k])
    /\ e820' = [e820 EXCEPT ![idx].size = @ + e820[k].size]
    /\ k' = k + 1
    /\ UNCHANGED <<memblock, pc, descs, ramdisk, idx, brk, mapped, real_mode, percpu>>

UpdateMove ==
    /\ pc = "update" /\ k <= Len(e820)
    /\ ~Continues(e820[idx], e820[k])
    /\ e820' = [e820 EXCEPT ![idx + 1] = e820[k]]
    /\ idx' = idx + 1
    /\ k' = k + 1
    /\ UNCHANGED <<memblock, pc, descs, ramdisk, brk, mapped, real_mode, percpu>>

\* (Mutant of UpdateDone: the count is the index of the last entry.)
UpdateDoneShort ==
    /\ pc = "update" /\ k > Len(e820)
    /\ e820' = SubSeq(e820, 1, idx - 1)
    /\ k' = 1
    /\ pc' = "setup"
    /\ UNCHANGED <<memblock, descs, ramdisk, idx, brk, mapped, real_mode, percpu>>

UpdateDone ==
    /\ pc = "update" /\ k > Len(e820)
    /\ e820' = SubSeq(e820, 1, idx)
    /\ k' = 1
    /\ pc' = "setup"
    /\ UNCHANGED <<memblock, descs, ramdisk, idx, brk, mapped, real_mode, percpu>>

-----------------------------------------------------------------------------
(* Calls of memblock.  The boot goes on when the call has returned.        *)

Call(fn, base, size) ==
    /\ st = "idle"
    /\ req' = [MB!NoReq EXCEPT !.fn = fn, !.base = base, !.size = size,
                               !.set = (fn = "setclr"),
                               !.nid = IF fn = "set_node" THEN 0 ELSE MB!NO_NODE]
    /\ MB!Request /\ UNCHANGED full

Alloc(size, hi) ==
    /\ st = "idle"
    /\ req' = [MB!NoReq EXCEPT !.fn = "alloc", !.size = size, !.set = TRUE,
                               !.align = PAGE_SIZE, !.hi = hi]
    /\ MB!Request /\ UNCHANGED full

HasBlock == \E q \in Bytes, nd \in {0, MB!NO_NODE} : q # 0 /\ MB!Block(q, req, nd)

\* memblock's steps; an allocation fails for want of a block, and any call that
\* may cut an entry for want of two spare ones.  Such a refusal leaves the number
\* of entries as it is, so from then on every call with a size is refused.
Serve ==
    /\ \/ /\ ~full \/ req.size = 0
          /\ MB!Effect \/ \E q \in Bytes, nd \in {0, MB!NO_NODE} : MB!Grant(q, nd)
          /\ UNCHANGED full
       \/ MB!Refuse /\ req.fn = "alloc" /\ ~HasBlock /\ UNCHANGED full
       \/ MB!Refuse /\ req.size > 0 /\ full' = TRUE
    /\ UNCHANGED <<boot, pc>>

Returned == st = "done"
Return == MB!Return /\ UNCHANGED full

\* e820__memblock_setup
MemblockSetup ==
    /\ pc = "setup" /\ k <= Len(e820)
    /\ IF e820[k].type = "RAM"
       THEN Call("add", e820[k].start, e820[k].size) /\ pc' = "added" /\ UNCHANGED k
       ELSE k' = k + 1 /\ UNCHANGED <<memblock, pc>>
    /\ UNCHANGED <<descs, ramdisk, e820, idx, brk, mapped, real_mode, percpu>>

MemblockAdded ==
    /\ pc = "added" /\ Returned /\ Return
    /\ k' = k + 1
    /\ pc' = "setup"
    /\ UNCHANGED <<descs, ramdisk, e820, idx, brk, mapped, real_mode, percpu>>

\* insert_region's assertion: no entry left for the memory to add.
AddHalts ==
    /\ pc = "added" /\ MB!Stop /\ UNCHANGED full
    /\ pc' = "stopped"
    /\ UNCHANGED boot

\* early_reserve_memory; what memblock_reserve returns is not looked at.
ReserveKernel ==
    /\ pc = "setup" /\ k > Len(e820)
    /\ Call("setclr", Text, EndOfKernel - Text)
    /\ pc' = "kernel"
    /\ UNCHANGED boot

\* early_reserve_initrd
ReserveRamdisk ==
    /\ pc = "initrd" /\ RamdiskBytes # {}
    /\ Call("setclr", ramdisk.image, RoundUp(ramdisk.size))
    /\ pc' = "ramdisk"
    /\ UNCHANGED boot

NoRamdisk ==
    /\ pc = "initrd" /\ RamdiskBytes = {}
    /\ pc' = "realmode"
    /\ UNCHANGED <<memblock, boot>>

\* Where the trampoline must end.
LowLimit == SZ_1M

reserve_real_mode ==
    /\ pc = "realmode"
    /\ IF RealModeSize > 0
       THEN Alloc(RealModeSize, LowLimit) /\ pc' = "trampoline"
       ELSE pc' = "mapping" /\ UNCHANGED memblock
    /\ UNCHANGED boot

\* The pages the direct mapping covers: those inside one region of memblock.
WholePages == {p \in PageNumbers :
                   \E c \in {mem[a] : a \in Bytes} \ {MB!Absent} :
                       \A a \in BytesOf(p) : mem[a] = c}

\* (Mutant of ReserveBrk: nothing is reserved.)
ReserveBrkNone(used) == Call("setclr", EndOfKernel, 0)

ReserveBrk(used) == Call("setclr", EndOfKernel, used * PAGE_SIZE)

\* The tables are built in the brk, however many they are, and what was used
\* of it is reserved afterwards.
init_mem_mapping ==
    /\ pc = "mapping"
    /\ mapped' = WholePages
    /\ \E used \in 0 .. BrkPages : brk' = used /\ ReserveBrk(used)
    /\ pc' = "brk"
    /\ UNCHANGED <<descs, ramdisk, e820, k, idx, real_mode, percpu>>

initmem_init ==
    /\ pc = "nodes"
    /\ Call("set_node", 0, MaxAddr)
    /\ pc' = "node"
    /\ UNCHANGED boot

\* A call has returned, and setup_arch goes on.
Continue ==
    /\ Returned /\ Return
    /\ \E s \in {<<"kernel", "initrd">>, <<"ramdisk", "realmode">>,
                 <<"trampoline", "mapping">>, <<"brk", "nodes">>, <<"node", "percpu">>} :
          pc = s[1] /\ pc' = s[2]
    /\ real_mode' = IF pc = "trampoline" THEN res ELSE real_mode
    /\ UNCHANGED <<descs, ramdisk, e820, k, idx, brk, mapped, percpu>>

\* setup_per_cpu_areas
PercpuAlloc ==
    /\ pc = "percpu" /\ Len(percpu) < nr_cpu_ids
    /\ Alloc(PercpuSize, MaxAddr)
    /\ pc' = "area"
    /\ UNCHANGED boot

PercpuSet ==
    /\ pc = "area" /\ Returned /\ Return
    /\ IF res = 0
       THEN pc' = "halt" /\ UNCHANGED percpu
       ELSE pc' = "percpu" /\ percpu' = Append(percpu, res)
    /\ UNCHANGED <<descs, ramdisk, e820, k, idx, brk, mapped, real_mode>>

PercpuDone ==
    /\ pc = "percpu" /\ Len(percpu) = nr_cpu_ids
    /\ pc' = "done"
    /\ UNCHANGED <<memblock, boot>>

Next ==
    \/ RangeAdd \/ MemmapDone \/ UpdateMerge \/ UpdateMove \/ UpdateDone
    \/ MemblockSetup \/ MemblockAdded \/ AddHalts
    \/ ReserveKernel \/ ReserveRamdisk \/ NoRamdisk
    \/ reserve_real_mode \/ init_mem_mapping \/ initmem_init
    \/ Continue \/ Serve
    \/ PercpuAlloc \/ PercpuSet \/ PercpuDone

Spec == Init /\ [][Next]_vars

-----------------------------------------------------------------------------
(* Properties.                                                             *)

Filled == pc \notin {"memmap", "update", "setup", "added", "stopped"}

\* The descriptors that have a place in the table.
Kept == SubSeq(descs, 1, IF Len(descs) < E820_MAX_ENTRIES THEN Len(descs) ELSE E820_MAX_ENTRIES)

BrkUsed == Range(EndOfKernel, brk * PAGE_SIZE)
Trampoline == IF real_mode = 0 THEN {} ELSE Range(real_mode, RealModeSize)
Area(c) == Range(percpu[c], PercpuSize)

\* Nothing is given to two owners: the kernel, the page tables in the brk,
\* the ramdisk, the trampoline and the per-CPU areas share no byte, although
\* the trampoline is allocated before the page tables are reserved, and although
\* nobody looks at whether a reservation was refused.
OwnersApart ==
    /\ Trampoline \cap (Kernel \cup BrkUsed \cup RamdiskBytes) = {}
    /\ \A c \in DOMAIN percpu :
          /\ Area(c) \cap (Kernel \cup BrkUsed \cup RamdiskBytes \cup Trampoline) = {}
          /\ \A d \in DOMAIN percpu : c # d => Area(c) \cap Area(d) = {}

\* The allocator knows exactly the bytes of the memory descriptors that had a
\* place in the e820 table, in whatever order the firmware listed them and
\* however they were merged; nothing later loses or adds a byte.  Of that
\* memory, the per-CPU areas, written through the direct mapping, are mapped to
\* the last byte, and the trampoline is below 1 MiB, where real mode reaches it.
MemoryFromFirmware ==
    /\ Filled => {a \in Bytes : mem[a] # MB!Absent} = RamBytes(Kept)
    /\ \A c \in DOMAIN percpu : \A a \in Area(c) : a \div PAGE_SIZE \in mapped
    /\ \A a \in Trampoline : a < SZ_1M

=============================================================================
