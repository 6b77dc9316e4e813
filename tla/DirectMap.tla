----------------------------- MODULE DirectMap -----------------------------
(***************************************************************************)
(* The kernel's own page tables (arch/x86/ukernel/mm.c): init_mem_mapping  *)
(* maps every page of the memory memblock knows at __va(physical address), *)
(* with the largest pages that fit.                                        *)
(*                                                                         *)
(* The four levels of tables form a tree over page numbers, so the entry   *)
(* of level l that leads to page p is entry p \div Span(l) of 'ent[l]'; a  *)
(* table that is not there has only empty entries, as alloc_pages clears   *)
(* it.  The direct map begins with the last entry of the top table and     *)
(* goes on, after the last address, at address 0: __va wraps there.        *)
(* The processor uses these tables only after the last step.  The          *)
(* five loops nested in one another come down to one step for each leaf    *)
(* entry written, with the tables on the way to it.                        *)
(***************************************************************************)
EXTENDS Integers, Sequences, FiniteSets

CONSTANTS
    PAGE_SIZE,
    PTRS,           \* entries of a table: PTRS_PER_PT, _PMD, _PUD, _PGD
    MaxPages,       \* physical memory lies below this page
    KernelMap,      \* the page of the direct map at __START_KERNEL_map
    LowPages,       \* pages below 4 GiB
    BRK_PAGES,      \* CONFIG_BRK_ALLOC_PAGES
    Layouts         \* what memblock may hold: sequences of regions

\* What memblock hands over: an array sorted by address, without overlaps.
Ordered(rs) ==
    \A j, k \in DOMAIN rs : j < k => rs[j].base + rs[j].size <= rs[k].base

Levels == 1 .. 4          \* PT, PMD, PUD, PGD

\* Pages below an entry of level l: PAGE_SIZE, PMD_SIZE, PUD_SIZE, PGD_SIZE.
Span(l) == CASE l = 1 -> 1 [] l = 2 -> PTRS [] l = 3 -> PTRS * PTRS
             [] l = 4 -> PTRS * PTRS * PTRS

\* The page whose __va is address 0: __PAGE_OFFSET is the address of the last
\* entry of the top table.
Wrap == Span(4)

ASSUME DirectMapAssumption ==
    /\ PAGE_SIZE \in Nat \ {0} /\ PTRS \in Nat \ {0, 1}
    /\ MaxPages \in Nat /\ KernelMap \in Nat /\ LowPages \in Nat
    /\ KernelMap < Wrap /\ MaxPages <= PTRS * Span(4)
    /\ BRK_PAGES \in Nat
    /\ \A rs \in Layouts :
          /\ rs \in Seq([base : Nat, size : Nat])
          /\ Ordered(rs)
          /\ \A j \in DOMAIN rs : rs[j].base + rs[j].size <= MaxPages * PAGE_SIZE

\* __va(p) < __va(q), for the addresses of pages.
Below(p, q) == IF p < Wrap THEN p < q /\ q < Wrap ELSE p < q \/ q < Wrap

ROUND_DOWN(x, y) == x - (x % y)
ROUND_UP(x, y) == ROUND_DOWN(x + y - 1, y)

None == [kind |-> "none", pfn |-> 0]
Table == [kind |-> "table", pfn |-> 0]
Leaf(p) == [kind |-> "page", pfn |-> p]

VARIABLES
    regions,           \* memblock's array
    ent,               \* the entries of every level
    next_page,         \* pages taken from the brk
    pc,
    i,                 \* index into regions (from 1)
    phase,             \* which of the five mappings of a region is next
    start, pfn, limit, \* start, 'pfn' and 'limit_pfn' of the region
    vaddr, vend,       \* what physical_mapping_init has still to map
    max_pfn_mapped, max_low_pfn_mapped

region == <<i, phase, start, pfn, limit>>
highest == <<max_pfn_mapped, max_low_pfn_mapped>>
vars == <<regions, ent, next_page, pc, region, vaddr, vend, highest>>

\* init__init_top_pgt has put the table of the kernel's image into the last entry
\* of the top table; the two entries it has there lie from KernelMap on.
StartMapping(rs) ==
    /\ regions = rs
    /\ ent = [l \in Levels |-> [k \in 0 .. MaxPages \div Span(l) |->
                                IF l = 4 /\ k = 0 THEN Table ELSE None]]
    /\ next_page = 0
    /\ pc = "next"
    /\ i = 0 /\ phase = 1 /\ start = 0 /\ pfn = 0 /\ limit = 0
    /\ vaddr = 0 /\ vend = 0
    /\ max_pfn_mapped = 0 /\ max_low_pfn_mapped = 0

Init == \E rs \in Layouts : StartMapping(rs)

-----------------------------------------------------------------------------
(* for_each_mem_pfn_range: the next region that has a whole page.          *)

\* (Mutant of FirstPage: the page that holds the first byte.)
FirstPageDown(r) == r.base \div PAGE_SIZE

\* PFN_UP(reg->base) and PFN_DOWN(reg->base + reg->size).
FirstPage(r) == (r.base + PAGE_SIZE - 1) \div PAGE_SIZE
LimitPage(r) == (r.base + r.size) \div PAGE_SIZE

HasPage(r) == FirstPage(r) < LimitPage(r)

NextRegion ==
    /\ pc = "next"
    /\ \E j \in i + 1 .. Len(regions) :
          /\ HasPage(regions[j])
          /\ \A k \in i + 1 .. j - 1 : ~HasPage(regions[k])
          /\ i' = j
          /\ start' = FirstPage(regions[j])
          /\ pfn' = FirstPage(regions[j])
          /\ limit' = LimitPage(regions[j])
    /\ phase' = 1
    /\ pc' = "phase"
    /\ UNCHANGED <<regions, ent, next_page, vaddr, vend, highest>>

\* No region is left: init_range_memory_mapping returns, and init_mem_mapping
\* puts the tables to use.
Finish ==
    /\ pc = "next"
    /\ \A j \in i + 1 .. Len(regions) : ~HasPage(regions[j])
    /\ pc' = "done"
    /\ UNCHANGED <<regions, ent, next_page, region, vaddr, vend, highest>>

-----------------------------------------------------------------------------
(* init_range_memory_mapping: 4K, 2M, 1G, 2M and 4K pages in turn.         *)

PageLevel(ph) == <<1, 2, 3, 2, 1>>[ph]

Lesser(a, b) == IF a < b THEN a ELSE b
Greater(a, b) == IF a > b THEN a ELSE b

PhaseStart(ph) ==
    IF ph \in {1, 5} THEN pfn ELSE ROUND_UP(pfn, Span(PageLevel(ph)))

\* (Mutant of PhaseEnd: the last pages stop at a large page's boundary.)
PhaseEndNoTail(ph) ==
    CASE ph = 1 -> Lesser(ROUND_UP(pfn, Span(2)), limit)
      [] ph = 2 -> Lesser(ROUND_UP(pfn, Span(3)), ROUND_DOWN(limit, Span(2)))
      [] ph = 3 -> ROUND_DOWN(limit, Span(3))
      [] ph \in {4, 5} -> ROUND_DOWN(limit, Span(2))

\* (Mutant of PhaseEnd: phase 4 ends where phase 3 does.)
PhaseEndCoarse(ph) ==
    CASE ph = 1 -> Lesser(ROUND_UP(pfn, Span(2)), limit)
      [] ph = 2 -> Lesser(ROUND_UP(pfn, Span(3)), ROUND_DOWN(limit, Span(2)))
      [] ph \in {3, 4} -> ROUND_DOWN(limit, Span(3))
      [] ph = 5 -> limit

PhaseEnd(ph) ==
    CASE ph = 1 -> Lesser(ROUND_UP(pfn, Span(2)), limit)
      [] ph = 2 -> Lesser(ROUND_UP(pfn, Span(3)), ROUND_DOWN(limit, Span(2)))
      [] ph = 3 -> ROUND_DOWN(limit, Span(3))
      [] ph = 4 -> ROUND_DOWN(limit, Span(2))
      [] ph = 5 -> limit

PhaseSkip ==
    /\ pc = "phase" /\ phase <= 5
    /\ PhaseStart(phase) >= PhaseEnd(phase)
    /\ phase' = phase + 1
    /\ UNCHANGED <<regions, ent, next_page, pc, i, start, pfn, limit, vaddr, vend, highest>>

\* physical_mapping_init is called; it refuses to end in the kernel's own
\* mapping ("direct mapping overlap with '__START_KERNEL_map'"), and takes an end
\* whose address has wrapped for one below it.
PhaseMap ==
    /\ pc = "phase" /\ phase <= 5
    /\ PhaseStart(phase) < PhaseEnd(phase)
    /\ vaddr' = PhaseStart(phase)
    /\ vend' = PhaseEnd(phase)
    /\ pfn' = PhaseEnd(phase)
    /\ pc' = IF Below(PhaseEnd(phase), KernelMap) THEN "map" ELSE "overlap"
    /\ UNCHANGED <<regions, ent, next_page, i, phase, start, limit, highest>>

\* add_range_mapped
RegionDone ==
    /\ pc = "phase" /\ phase = 6
    /\ max_pfn_mapped' = Greater(max_pfn_mapped, limit)
    /\ max_low_pfn_mapped' =
          IF start < LowPages THEN Greater(max_low_pfn_mapped, Lesser(limit, LowPages))
          ELSE max_low_pfn_mapped
    /\ pc' = "next"
    /\ UNCHANGED <<regions, ent, next_page, region, vaddr, vend>>

-----------------------------------------------------------------------------
(* physical_mapping_init, physical_pud_init, physical_pmd_init and         *)
(* physical_pt_init: the next leaf entry.                                  *)

Entry(l, p) == ent[l][p \div Span(l)]

\* The entry the step writes and the tables on the way that are missing.
LeafLevel == PageLevel(phase)
Missing == {l \in LeafLevel + 1 .. 4 : Entry(l, vaddr) = None}

\* "memory already mapped." and "unable to map page."
Clash ==
    \/ Entry(LeafLevel, vaddr) # None
    \/ \E l \in LeafLevel + 1 .. 4 : Entry(l, vaddr).kind = "page"

\* alloc_pages(1) for each missing table; below a missing table all are.
Wanted == Cardinality(Missing)

\* "not enough memory to init page table.", unless next_page + num is less
\* than CONFIG_BRK_ALLOC_PAGES for every table in turn; the kernel stops.
OutOfBrk == Wanted > 0 /\ next_page + Wanted >= BRK_PAGES

MapEntry ==
    /\ pc = "map" /\ Below(vaddr, vend)
    /\ ~Clash /\ ~OutOfBrk
    /\ ent' = [l \in Levels |->
                 IF l = LeafLevel
                 THEN [ent[l] EXCEPT ![vaddr \div Span(l)] = Leaf(vaddr)]
                 ELSE IF l \in Missing
                      THEN [ent[l] EXCEPT ![vaddr \div Span(l)] = Table]
                      ELSE ent[l]]
    /\ next_page' = next_page + Wanted
    /\ vaddr' = ROUND_DOWN(vaddr, Span(LeafLevel)) + Span(LeafLevel)
    /\ UNCHANGED <<regions, pc, region, vend, highest>>

MapHalt ==
    /\ pc = "map" /\ Below(vaddr, vend)
    /\ Clash \/ OutOfBrk
    /\ pc' = IF Clash THEN "clash" ELSE "nomem"
    /\ UNCHANGED <<regions, ent, next_page, region, vaddr, vend, highest>>

MapDone ==
    /\ pc = "map" /\ ~Below(vaddr, vend)
    /\ phase' = phase + 1
    /\ pc' = "phase"
    /\ UNCHANGED <<regions, ent, next_page, i, start, pfn, limit, vaddr, vend, highest>>

Next ==
    \/ NextRegion \/ Finish \/ PhaseSkip \/ PhaseMap \/ RegionDone
    \/ MapEntry \/ MapHalt \/ MapDone

Spec == Init /\ [][Next]_vars

-----------------------------------------------------------------------------
(* Properties.                                                             *)

Pages == 0 .. MaxPages - 1

\* What the page walk finds at __va of page p: the first entry from the top that
\* is not a table, and the offset below it.
Translate(p) ==
    LET l == CHOOSE k \in Levels : /\ Entry(k, p).kind # "table"
                                   /\ \A m \in k + 1 .. 4 : Entry(m, p).kind = "table"
    IN  IF Entry(l, p) = None THEN {} ELSE {Entry(l, p).pfn + (p % Span(l))}

WholePages(r) == FirstPage(r) .. LimitPage(r) - 1
Inside(j) == (j * PAGE_SIZE) .. ((j + 1) * PAGE_SIZE - 1)
BytesOf(r) == r.base .. r.base + r.size - 1

\* No mapping is ever wrong, at any moment: the walk finds for a page that page
\* or nothing, and it finds nothing for a page with a byte that is not memory.
\* "memory already mapped." and "unable to map page." never stop the kernel,
\* though the tail of one region and the head of the next share tables.
OnlyMemory ==
    /\ \A p \in Pages :
          /\ Translate(p) \subseteq {p}
          /\ Translate(p) # {} =>
                \E j \in DOMAIN regions : Inside(p) \subseteq BytesOf(regions[j])
    /\ pc # "clash"

\* The pages of a region that are left out: it reaches Wrap, and so does the end
\* of one of its five partial mappings, which then maps nothing.  That is the one
\* in the largest pages that have a place in the region before Wrap.
Lost(r) ==
    LET reach == {l \in 1 .. 3 : ROUND_UP(FirstPage(r), Span(l)) < Wrap}
    IN  IF LimitPage(r) < Wrap \/ reach = {} THEN {}
        ELSE LET l == CHOOSE m \in reach : \A n \in reach : n <= m
             IN  ROUND_UP(FirstPage(r), Span(l)) ..
                    (IF l = 3 THEN ROUND_DOWN(LimitPage(r), Span(3)) ELSE Wrap) - 1

\* When the tables are put to use, the five partial mappings of a region have
\* left no page of it out, but for what the wrap of __va loses: all of it in a
\* region that ends before Wrap.  Between regions, and then, the two limits other
\* code compares page numbers with cover every page of the regions, the lost
\* ones too, and no page more, in all of memory and below 4 GiB.
AllMapped ==
    LET mapped  == {p \in Pages : Translate(p) # {}}
        lost    == UNION {Lost(regions[j]) : j \in DOMAIN regions}
        handled == UNION {WholePages(regions[j]) : j \in 1 .. i}
        low     == {p \in handled : p < LowPages}
    IN  /\ pc = "done" =>
              \A p \in Pages : \A j \in DOMAIN regions :
                  Inside(p) \subseteq BytesOf(regions[j]) =>
                     (p \in mapped <=> p \notin lost)
        /\ pc \in {"next", "done"} =>
              /\ mapped = handled \ lost
              /\ \A p \in handled : p < max_pfn_mapped
              /\ max_pfn_mapped # 0 => max_pfn_mapped - 1 \in handled
              /\ \A p \in low : p < max_low_pfn_mapped
              /\ max_low_pfn_mapped # 0 => max_low_pfn_mapped - 1 \in low

\* 1 GiB pages are used for every 1 GiB of a region that is aligned, and 2 MiB
\* pages for what is left of its aligned 2 MiB, but for what is lost.
LargestPages ==
    pc = "done" =>
        \A j \in DOMAIN regions : \A l \in {2, 3} : \A k \in 0 .. MaxPages \div Span(l) :
            LET block == (k * Span(l)) .. ((k + 1) * Span(l) - 1)
            IN  block \subseteq WholePages(regions[j]) \ Lost(regions[j]) =>
                   \E m \in l .. 3 : Entry(m, k * Span(l)).kind = "page"
=============================================================================
