------------------------------ MODULE EarlyMap ------------------------------
(***************************************************************************)
(* The page tables the kernel boots on, from startup_64 to the end of      *)
(* setup_per_cpu_areas (arch/x86/head_64.S, __head_64.c, cpu.c, mm.c,      *)
(* asm/tlb.h), with the processor's side: CR3, CR4 and its per-CPU shadow, *)
(* and the TLB, which keeps what it has seen until something flushes it.   *)
(*                                                                         *)
(* Addresses count pages of PMD_SIZE.  The last entry of the top table     *)
(* covers the direct map (__va), the kernel's image and the fixmap; the    *)
(* identity mapping the boot starts on lies in the entries before it.      *)
(* Behind the early tables, the kernel touches __va(page) for pages it was *)
(* handed (boot parameters, tables of the firmware, page tables it builds  *)
(* itself), and the page fault handler maps what is missing.               *)
(***************************************************************************)
EXTENDS CacheModes

CONSTANTS
    NPTRS,              \* PTRS_PER_PGD, PTRS_PER_PUD and PTRS_PER_PMD
    EARLY_FREE_PAGES,
    TextOffset,         \* _text lies this far above __START_KERNEL_map
    ImagePages,         \* __KERNEL_DIV_ROUND_UP(_end - _text, PMD_SIZE)
    Machines,           \* where the kernel is loaded, by what, on which processor,
                        \* and its MSRs as the firmware left them
    Memory,             \* the pages memblock knows
    Touched,            \* the pages the kernel touches through __va
    TlbSize,            \* entries the TLB holds
    NrCpus              \* nr_cpu_ids

ASSUME EarlyAssumption ==
    /\ NPTRS \in Nat /\ NPTRS >= 4
    /\ EARLY_FREE_PAGES \in Nat /\ EARLY_FREE_PAGES >= 4
    /\ ImagePages \in 1 .. NPTRS /\ TextOffset \in 0 .. NPTRS - ImagePages
    /\ Machines # {}
    /\ Touched \cup Memory \cup {m.load : m \in Machines} \subseteq 0 .. (NPTRS - 2) * NPTRS - 1
    /\ \A m \in Machines : m.pat \in [Slots -> CacheMode] /\ m.mtrr \in BOOLEAN
    /\ TlbSize \in Nat /\ NrCpus \in Nat \ {0}

PAGE_OFFSET == (NPTRS - 1) * NPTRS * NPTRS
START_KERNEL_map == PAGE_OFFSET + (NPTRS - 2) * NPTRS
text == START_KERNEL_map + TextOffset

pgd_index(v) == v \div (NPTRS * NPTRS)
pud_index(v) == (v \div NPTRS) % NPTRS
pmd_index(v) == v % NPTRS

va(p) == p + PAGE_OFFSET

\* The tables: the pages of early_pages are their numbers.
early_top_pgt == -1
init_top_pgt == -2
level3_kernel_pgt == -3
level2_kernel_pgt == -4
level2_fixmap_pgt == -5
EarlyPages == 0 .. EARLY_FREE_PAGES - 1
Tables == -5 .. EARLY_FREE_PAGES - 1
FirmwareTables == -6

Empty == [kind |-> "none", to |-> 0, global |-> FALSE]
TableAt(t) == [kind |-> "table", to |-> t, global |-> FALSE]
LargePage(p, g) == [kind |-> "page", to |-> p, global |-> g]
\* What init_range_memory_mapping leaves below an entry (DirectMap).
DirectTables == [kind |-> "direct", to |-> 0, global |-> TRUE]

EmptyTable == [k \in 0 .. NPTRS - 1 |-> Empty]
NoPage == -1
Areas == -1 .. NrCpus - 1     \* the per-CPU section, and each CPU's copy of it
BootArea == -1

VARIABLES
    at,          \* the next step of the boot
    img,         \* pages the loop over the image has done
    load,        \* load_phys_addr
    tab,         \* the tables' entries
    early_next,  \* next_page
    cr3, cr4,
    tlb,         \* cached translations
    touching,    \* the page the kernel is touching, or NoPage
    handler,     \* of page faults: "none", "early" or "pf"
    cpu,         \* what CPUID says of the processor
    area,        \* the per-CPU variables cr4 and cpu_info of each area
    gs           \* the area the processor uses

tables == <<tab, early_next>>
percpuVars == <<area, gs>>
fixedVars == <<load, cpu>>
earlyVars == <<at, img, fixedVars, tables, cr3, cr4, tlb, touching, handler, percpuVars, cacheVars>>

EarlyStart(m) ==
    /\ at = "startup" /\ img = 0
    /\ load = m.load             \* load_phys_addr
    /\ cpu = m.cpu               \* has it leaf 7 of CPUID, and INVPCID
    /\ cr4 = m.cr4               \* as the firmware left it
    /\ tab = [t \in Tables |-> EmptyTable] /\ early_next = 0
    /\ cr3 = FirmwareTables
    /\ tlb = {} /\ touching = NoPage /\ handler = "none"
    /\ area = [a \in Areas |-> [cr4 |-> {}, caps |-> {}]] /\ gs = BootArea
    /\ CacheInit(m)

EarlyInit == \E m \in Machines : EarlyStart(m)

phys_base == load - TextOffset

-----------------------------------------------------------------------------
(* The processor: page walks, the TLB and what flushes it.                 *)

\* The walk from CR3: the translation of v as a set of at most one.  The
\* firmware's tables map every address to itself, with global pages or not.
Down(e, k) == IF e.kind = "table" THEN tab[e.to][k] ELSE Empty

Walk(v) ==
    IF cr3 = FirmwareTables
    THEN IF pgd_index(v) < NPTRS - 1
         THEN {[va |-> v, pa |-> v, global |-> g] : g \in {FALSE, "PGE" \in cr4}} ELSE {}
    ELSE LET pud == Down(TableAt(cr3), pgd_index(v))
             pmd == Down(pud, pud_index(v))
             e   == Down(pmd, pmd_index(v))
         IN  IF e.kind = "page"
             THEN {[va |-> v, pa |-> e.to, global |-> e.global /\ "PGE" \in cr4]}
             ELSE IF pmd.kind = "direct" /\ v - PAGE_OFFSET \in Memory
                  THEN {[va |-> v, pa |-> v - PAGE_OFFSET, global |-> "PGE" \in cr4]} ELSE {}

Image == 0 .. ImagePages - 1

\* The addresses the processor may look up, speculatively or not.
Addresses == {text + k : k \in Image} \cup {load + k : k \in Image} \cup {va(p) : p \in Touched}

Cached(v) == {e \in tlb : e.va = v}

Fill ==
    /\ at \notin {"halt"}
    /\ Cardinality(tlb) < TlbSize
    /\ \E v \in Addresses : Cached(v) = {} /\ \E e \in Walk(v) : tlb' = tlb \cup {e}
    /\ UNCHANGED <<at, img, fixedVars, tables, cr3, cr4, touching, handler, percpuVars, cacheVars>>

Evict ==
    /\ \E e \in tlb : tlb' = tlb \ {e}
    /\ UNCHANGED <<at, img, fixedVars, tables, cr3, cr4, touching, handler, percpuVars, cacheVars>>

Globals == {e \in tlb : e.global}

\* MOV to CR3 keeps the global entries, with PCIDs or without (PCID 0 only).
write_cr3(t) == cr3' = t /\ tlb' = Globals

\* MOV to CR4 keeps all unless PGE or PCIDE changes.
AfterCr4(old, new, entries) == IF old \cap {"PGE", "PCIDE"} = new \cap {"PGE", "PCIDE"}
                               THEN entries ELSE {}

\* a ^ b of two sets of bits
Flip(a, b) == (a \cup b) \ (a \cap b)

read_cr4 == area[gs].cr4

\* (Mutant of cr4_set_bits: the register only.)
cr4_set_bits_unshadowed(mask) ==
    /\ cr4' = read_cr4 \cup mask
    /\ tlb' = AfterCr4(cr4, read_cr4 \cup mask, tlb)
    /\ UNCHANGED <<area, gs>>

\* cr4_update(mask, 0); nothing is written if the shadow has the bits.
cr4_set_bits(mask) ==
    LET new_cr == read_cr4 \cup mask
    IN  /\ IF new_cr = read_cr4 THEN UNCHANGED <<area, cr4, tlb>>
           ELSE /\ area' = [area EXCEPT ![gs].cr4 = new_cr]
                /\ cr4' = new_cr
                /\ tlb' = AfterCr4(cr4, new_cr, tlb)
        /\ gs' = gs

\* __flush_tlb_global: INVPCID if the per-CPU cpu_info has it, or else PGE
\* flipped and flipped back, with the value the shadow holds.
flush_tlb_all ==
    IF "INVPCID" \in area[gs].caps
    THEN tlb' = {} /\ cr4' = cr4
    ELSE /\ tlb' = AfterCr4(Flip(read_cr4, {"PGE"}), read_cr4,
                            AfterCr4(cr4, Flip(read_cr4, {"PGE"}), tlb))
         /\ cr4' = read_cr4

-----------------------------------------------------------------------------
(* startup_64: on the firmware's tables.                                   *)

Step(from, to) == at = from /\ touching = NoPage /\ at' = to

\* __startup_64 up to the loop that maps the image: page 0 of early_pages is
\* the PUD of the last entry, for __START_KERNEL_map and the fixmap after it.
startup_64 ==
    /\ Step("startup", "image")
    /\ tab' = [tab EXCEPT
         ![early_top_pgt] = [@ EXCEPT ![pgd_index(START_KERNEL_map)] = TableAt(0)],
         ![0] = [@ EXCEPT ![pud_index(START_KERNEL_map)] = TableAt(level2_kernel_pgt),
                          ![pud_index(START_KERNEL_map) + 1] = TableAt(level2_fixmap_pgt)],
         ![level2_kernel_pgt] = [k \in 0 .. NPTRS - 1 |->
            IF k - pmd_index(text) \in Image
            THEN LargePage(load + (k - pmd_index(text)), TRUE) ELSE @[k]]]
    /\ early_next' = early_next + 1
    /\ UNCHANGED <<img, fixedVars, cr3, cr4, tlb, touching, handler, percpuVars, cacheVars>>

\* ident_map(pgd, load_phys_addr + i * PMD_SIZE, load_phys_addr)
ident_map ==
    LET address == load + img
        top     == tab[early_top_pgt][pgd_index(address)]
        pud     == IF top # Empty THEN top.to ELSE early_next
        next1   == IF top # Empty THEN early_next ELSE early_next + 1
        mid     == tab[pud][pud_index(address)]
        pmd     == IF mid # Empty THEN mid.to ELSE next1
    IN  /\ Step("image", "image")
        /\ img \in Image
        /\ tab' = [tab EXCEPT
             ![early_top_pgt] = [@ EXCEPT ![pgd_index(address)] = TableAt(pud)],
             ![pud] = [@ EXCEPT ![pud_index(address)] = TableAt(pmd)],
             ![pmd] = [@ EXCEPT ![pmd_index(address)] = LargePage(address, FALSE)]]
        /\ early_next' = IF mid # Empty THEN next1 ELSE next1 + 1
        /\ img' = img + 1
        /\ UNCHANGED <<fixedVars, cr3, cr4, tlb, touching, handler, percpuVars, cacheVars>>

\* head_64.S: the early tables are put to use; the jump to the kernel's own
\* address that follows is fetched through the identity mapping.
LoadEarlyTables ==
    /\ Step("image", "global")
    /\ img \notin Image
    /\ write_cr3(early_top_pgt)
    /\ UNCHANGED <<img, fixedVars, tables, cr4, touching, handler, percpuVars, cacheVars>>

\* (Mutant of GlobalFlush: CR4 is set, PGE is not flipped.)
GlobalFlushNot ==
    /\ Step("global", "shadow")
    /\ cr4' = {"PAE", "PGE"}
    /\ tlb' = AfterCr4(cr4, {"PAE", "PGE"}, tlb)
    /\ UNCHANGED <<img, fixedVars, tables, cr3, touching, handler, percpuVars, cacheVars>>

\* CR4 = PAE | PGE, then PGE is flipped to flush the firmware's translations.
GlobalFlush ==
    /\ Step("global", "shadow")
    /\ cr4' = {"PAE", "PGE"}
    /\ tlb' = AfterCr4({"PAE"}, {"PAE", "PGE"}, AfterCr4({"PAE", "PGE"}, {"PAE"}, tlb))
    /\ UNCHANGED <<img, fixedVars, tables, cr3, touching, handler, percpuVars, cacheVars>>

-----------------------------------------------------------------------------
(* x86_64_start_kernel: at the kernel's own address.                       *)

cr4_init_shadow ==
    /\ Step("shadow", "purge")
    /\ area' = [area EXCEPT ![gs].cr4 = cr4]
    /\ UNCHANGED <<img, fixedVars, tables, cr3, cr4, tlb, touching, handler, gs, cacheVars>>

\* (Mutant of purge_ident_mapping: the identity's tables are not given back.)
purge_ident_mapping_keeps ==
    /\ Step("purge", "idt")
    /\ tab' = [tab EXCEPT ![early_top_pgt] =
                 [k \in 0 .. NPTRS - 1 |-> IF k < NPTRS - 1 THEN Empty ELSE @[k]]]
    /\ early_next' = early_next
    /\ write_cr3(early_top_pgt)
    /\ UNCHANGED <<img, fixedVars, cr4, touching, handler, percpuVars, cacheVars>>

purge_ident_mapping ==
    /\ Step("purge", "idt")
    /\ tab' = [tab EXCEPT ![early_top_pgt] =
                 [k \in 0 .. NPTRS - 1 |-> IF k < NPTRS - 1 THEN Empty ELSE @[k]]]
    /\ early_next' = 1
    /\ write_cr3(early_top_pgt)
    /\ UNCHANGED <<img, fixedVars, cr4, touching, handler, percpuVars, cacheVars>>

\* clear_bss clears nothing that is modelled; idt_setup_early_handler.
idt_setup_early_handler ==
    /\ Step("idt", "ctors")
    /\ handler' = "early"
    /\ UNCHANGED <<img, fixedVars, tables, cr3, cr4, tlb, touching, percpuVars, cacheVars>>

-----------------------------------------------------------------------------
(* The kernel touches memory, and the page fault handler.                  *)

OnOwnTables == cr3 = init_top_pgt

\* The kernel's code touches __va(page): from copy_boot_data on, before the
\* next step of the boot.  Once its own tables are in use it uses __va for
\* memory only.
Touch ==
    /\ handler # "none" /\ at # "halt" /\ touching = NoPage
    /\ \E p \in (IF OnOwnTables THEN Touched \cap Memory ELSE Touched) : touching' = p
    /\ UNCHANGED <<at, img, fixedVars, tables, cr3, cr4, tlb, handler, percpuVars, cacheVars>>

\* The access goes through, by a cached translation or by a walk.
Access ==
    /\ at # "halt" /\ touching # NoPage
    /\ Cached(va(touching)) \cup Walk(va(touching)) # {}
    /\ touching' = NoPage
    /\ UNCHANGED <<at, img, fixedVars, tables, cr3, cr4, tlb, handler, percpuVars, cacheVars>>

Faults == /\ at # "halt" /\ touching # NoPage
          /\ Cached(va(touching)) \cup Walk(va(touching)) = {}

EarlyPud == tab[early_top_pgt][pgd_index(va(touching))]
EarlyPmd == tab[EarlyPud.to][pud_index(va(touching))]

\* do_early_map can map the page: the entry of the PGD is there, and so is the
\* table below it, or a page for one.
CanMap == /\ handler = "early"
          /\ EarlyPud # Empty
          /\ EarlyPmd # Empty \/ early_next < EARLY_FREE_PAGES

\* (Mutant of do_early_map: with a table there, the page is taken for mapped.)
do_early_map_once ==
    /\ Faults /\ CanMap
    /\ IF EarlyPmd # Empty THEN UNCHANGED tables
       ELSE /\ tab' = [tab EXCEPT
                 ![EarlyPud.to] = [@ EXCEPT ![pud_index(va(touching))] = TableAt(early_next)],
                 ![early_next] = [EmptyTable EXCEPT ![pmd_index(va(touching))] = LargePage(touching, FALSE)]]
            /\ early_next' = early_next + 1
    /\ UNCHANGED <<at, img, fixedVars, cr3, cr4, tlb, touching, handler, percpuVars, cacheVars>>

\* do_early_map(read_cr2()) maps the page in the early tables; get_free_zero_page
\* clears the page it takes.
do_early_map ==
    /\ Faults /\ CanMap
    /\ LET pmd   == IF EarlyPmd # Empty THEN EarlyPmd.to ELSE early_next
           clean == IF EarlyPmd # Empty THEN tab[pmd] ELSE EmptyTable
       IN  tab' = [tab EXCEPT
             ![EarlyPud.to] = [@ EXCEPT ![pud_index(va(touching))] = TableAt(pmd)],
             ![pmd] = [clean EXCEPT ![pmd_index(va(touching))] = LargePage(touching, FALSE)]]
    /\ early_next' = IF EarlyPmd # Empty THEN early_next ELSE early_next + 1
    /\ UNCHANGED <<at, img, fixedVars, cr3, cr4, tlb, touching, handler, percpuVars, cacheVars>>

\* It cannot, and the assertion or do_boot_exception halts; exc_page_fault
\* does so whenever it is called, once it has taken over.
FaultHalts ==
    /\ Faults /\ ~CanMap
    /\ at' = "halt"
    /\ UNCHANGED <<img, fixedVars, tables, cr3, cr4, tlb, touching, handler, percpuVars, cacheVars>>

-----------------------------------------------------------------------------
(* setup_arch and setup_per_cpu_areas.                                     *)

\* early_cpuinfo_init: the capabilities go to the area in use.
early_cpuinfo_init ==
    /\ Step("cpuinfo", "pat")
    /\ area' = [area EXCEPT ![gs].caps = IF cpu.leaf7 /\ cpu.invpcid THEN {"INVPCID"} ELSE @]
    /\ UNCHANGED <<img, fixedVars, tables, cr3, cr4, tlb, touching, handler, gs, cacheVars>>

\* Pages are mapped by constructors before setup_arch (do_ctors), and again
\* when the kernel is on its own tables.
DriversMap ==
    /\ Step("ctors", "cpuinfo") \/ Step("drivers", "percpu")
    /\ MapPages
    /\ UNCHANGED <<img, fixedVars, tables, cr3, cr4, tlb, touching, handler, percpuVars>>

\* cache_bp_init
cache_bp_init ==
    \/ /\ Step("pat", "mtrr") /\ pat_bp_init
       /\ UNCHANGED <<img, fixedVars, tables, cr3, cr4, tlb, touching, handler, percpuVars>>
    \/ /\ Step("mtrr", "patcpu") /\ mtrr_cpu_init /\ flush_tlb_all
       /\ UNCHANGED <<img, fixedVars, tables, cr3, touching, handler, percpuVars>>
    \/ /\ Step("patcpu", "inittop") /\ pat_cpu_init /\ flush_tlb_all
       /\ UNCHANGED <<img, fixedVars, tables, cr3, touching, handler, percpuVars>>

\* init_mem_mapping: the kernel's own top table shares the tables of the image
\* and of the fixmap with the early ones.
init__init_top_pgt ==
    /\ Step("inittop", "pcide")
    /\ tab' = [tab EXCEPT
         ![init_top_pgt] = [@ EXCEPT ![pgd_index(START_KERNEL_map)] = TableAt(level3_kernel_pgt)],
         ![level3_kernel_pgt] =
            [@ EXCEPT ![pud_index(START_KERNEL_map)] = TableAt(level2_kernel_pgt),
                      ![pud_index(START_KERNEL_map) + 1] = TableAt(level2_fixmap_pgt)]]
    /\ UNCHANGED <<img, fixedVars, early_next, cr3, cr4, tlb, touching, handler, percpuVars, cacheVars>>

EnablePcid ==
    /\ Step("pcide", "direct") /\ cr4_set_bits({"PCIDE"})
    /\ UNCHANGED <<img, fixedVars, tables, cr3, touching, handler, cacheVars>>

\* init_range_memory_mapping (module DirectMap), an entry of level3_kernel_pgt
\* at a time.
MapDirect ==
    /\ Step("direct", "direct")
    /\ \E p \in Memory :
         /\ tab[level3_kernel_pgt][pud_index(va(p))] = Empty
         /\ tab' = [tab EXCEPT ![level3_kernel_pgt][pud_index(va(p))] = DirectTables]
         /\ \A q \in Memory : q < p => tab[level3_kernel_pgt][pud_index(va(q))] # Empty
    /\ UNCHANGED <<img, fixedVars, early_next, cr3, cr4, tlb, touching, handler, percpuVars, cacheVars>>

UseInitTop ==
    /\ Step("direct", "flush")
    /\ \A p \in Memory : tab[level3_kernel_pgt][pud_index(va(p))] # Empty
    /\ write_cr3(init_top_pgt)
    /\ UNCHANGED <<img, fixedVars, tables, cr4, touching, handler, percpuVars, cacheVars>>

FlushAll ==
    /\ Step("flush", "idtpf") /\ flush_tlb_all
    /\ UNCHANGED <<img, fixedVars, tables, cr3, touching, handler, percpuVars, cacheVars>>

idt_setup_pf ==
    /\ Step("idtpf", "drivers")
    /\ handler' = "pf"
    /\ img' = 0
    /\ UNCHANGED <<fixedVars, tables, cr3, cr4, tlb, touching, percpuVars, cacheVars>>

\* setup_per_cpu_areas: the section is copied for each CPU, and the boot CPU
\* switches to its copy (switch_gdt_and_percpu_base).  'img' counts the CPUs.
setup_per_cpu_areas ==
    /\ Step("percpu", IF img = NrCpus - 1 THEN "done" ELSE "percpu")
    /\ area' = [area EXCEPT ![img] = area[BootArea]]
    /\ gs' = IF img = 0 THEN 0 ELSE gs
    /\ img' = img + 1
    /\ UNCHANGED <<fixedVars, tables, cr3, cr4, tlb, touching, handler, cacheVars>>

BootStep ==
    \/ startup_64 \/ ident_map \/ LoadEarlyTables \/ GlobalFlush
    \/ cr4_init_shadow \/ purge_ident_mapping \/ idt_setup_early_handler
    \/ DriversMap \/ early_cpuinfo_init \/ cache_bp_init \/ init__init_top_pgt \/ EnablePcid
    \/ MapDirect \/ UseInitTop \/ FlushAll \/ idt_setup_pf \/ setup_per_cpu_areas

Resolve == Access \/ do_early_map \/ FaultHalts

EarlyNext == BootStep \/ Resolve \/ Touch \/ Fill \/ Evict

-----------------------------------------------------------------------------
(* Properties.                                                             *)

\* Where the code runs: where it was loaded up to the jump in head_64.S, and
\* at its own address from then on.
RunsAt == (IF at \in {"startup", "image", "global"} THEN {load} ELSE {})
            \cup (IF at \in {"startup", "image"} THEN {} ELSE {text})

\* Where v should lead, now: the kernel's image, the direct map and, until
\* it is purged, the identity mapping.
Meant(v) ==
    IF v >= PAGE_OFFSET
    THEN IF v < START_KERNEL_map THEN {v - PAGE_OFFSET}
         ELSE {load + (v - text)} \cap {load + k : k \in Image}
    ELSE IF at \in {"startup", "image", "global", "shadow", "purge"} THEN {v} ELSE {}

Reached(v) == {e.pa : e \in (IF Cached(v) # {} THEN Cached(v) ELSE Walk(v))}

\* Whatever translation the processor uses, cached or walked, is the right one
\* for the tables' purpose at that moment: no address of the identity mapping
\* translates after purge_ident_mapping, though the firmware may have used
\* global pages and the pages of its tables are used again, and no page of the
\* image or of the direct map leads elsewhere while tables are switched.  The
\* code that runs is mapped at every step.
EarlyTranslates ==
    /\ \A v \in Addresses : Reached(v) \subseteq Meant(v)
    /\ \A b \in RunsAt, k \in Image : Reached(b + k) # {}

\* An access that faults goes through after all, or the kernel stops: the
\* handler (do_early_map) never maps something the retried access does not see.
FaultResolved == touching # NoPage ~> touching = NoPage \/ at = "halt"

\* The boot stops for want of tables only if every page but that of the boot
\* PUD is a table of the direct map (each covers a PUD of its own): the pages
\* the identity mapping took are free again, and none is lost.  Without
\* tables of its own for a page, the kernel stops at no other fault.
EarlyPagesReused ==
    at = "halt" =>
        Cardinality({k \in 0 .. NPTRS - 3 : tab[0][k].kind = "table"}) = EARLY_FREE_PAGES - 1

\* The shadow of CR4 in the per-CPU area in use is CR4, whenever it can be
\* read: across cr4_set_bits, the flushes that write the shadow to the register
\* and the switch to the copied area (cpu.c, tlb.h, setup_percpu.c).  PCIDs
\* stay on.
ShadowAgrees ==
    at \notin {"startup", "image", "global", "shadow"} =>
        /\ area[gs].cr4 = cr4
        /\ tab[level3_kernel_pgt][0] # Empty => "PCIDE" \in cr4
        /\ at = "done" => \A c \in 0 .. NrCpus - 1 : area[c] = area[gs]

\* Where cache_bp_init has returned.
CachesSet == {"inittop", "pcide", "direct", "flush", "idtpf", "drivers", "percpu", "done"}

\* A mapping keeps the mode it was made with, though the tables are rewritten
\* before the PAT is, and mappings made on the tables of a reset live on under
\* the new PAT: its bits are read back as that mode at every step, and select
\* it in the PAT if the firmware left that as a reset does, and after
\* cache_bp_init whatever the firmware left.  From then on each of the six
\* modes has its slot; but with the MTRRs off only WC differs from UC.
ModesAgree ==
    /\ \A x \in mappings : pgprot2cachemode(x.bits) = x.mode
    /\ pat = ResetPat \/ at \in CachesSet => \A x \in mappings : pat[SlotOf(x.bits)] = x.mode
    /\ at \in CachesSet =>
          \A m \in CacheMode : LET b == cachemode2protval(m)
                              IN  /\ pat[SlotOf(b)] = m
                                  /\ EffectiveModes(b) = IF m = "WC" THEN {"WC"} ELSE {"UC"}
=============================================================================
