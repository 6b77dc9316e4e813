------------------------------- MODULE Fixmap -------------------------------
(***************************************************************************)
(* Temporary and permanent mappings at the top of the address space        *)
(* (arch/x86/ukernel/ioremap.c, include/asm/fixmap.h).                     *)
(*                                                                         *)
(* The window is 2 * T pages, numbered here from its lowest address: the   *)
(* lower half is level1_fixmap_pgt[0], handed out by ioremap and given     *)
(* back by iounmap; the upper half is level1_fixmap_pgt[1], written by     *)
(* set_fixmap.  'mapping' records, at the first slot of a range that is    *)
(* handed out, how many slots it has.  The processor may load its TLB from *)
(* the page tables at any time.                                            *)
(***************************************************************************)
EXTENDS Integers

CONSTANTS
    T,           \* TOTAL_FIX_BITMAPS, the slots of one page table
    PAGE_SIZE,
    PhysAddrs,   \* physical addresses that are mapped
    Sizes,       \* sizes of mappings, in bytes
    Permanent,   \* the fixed_addresses that set_fixmap is given
    Beyond       \* what the word behind mapping[] may hold

ASSUME FixmapAssumption ==
    /\ T \in Nat \ {0}
    /\ PAGE_SIZE \in Nat \ {0}
    /\ PhysAddrs \subseteq Nat
    /\ Sizes \subseteq Nat
    /\ Permanent \subseteq 0 .. T - 1      \* below FIX_BITMAP_END
    /\ Beyond \subseteq -T .. T

NONE == -1
Slots == 0 .. T - 1
Window == 0 .. 2 * T - 1

FIX_BITMAP_END == T
FIX_BITMAP_BEGIN == FIX_BITMAP_END + T - 1

\* fix_to_virt and virt_to_fix, in pages of the window; the topmost page of
\* the address space is index 0.
fix_to_virt(x) == 2 * T - 1 - x
virt_to_fix(v) == 2 * T - 1 - v
pte_index(v) == v % T

VARIABLES
    mapping,       \* slots of the range that starts here, or NONE
    level1,        \* level1_fixmap_pgt
    tlb,           \* what the processor has cached of the window
    pc,            \* where the call in progress is
    op,            \* "map", "unmap" or "perm"
    args,          \* phys_addr and size of the call in progress
    n, i, start,   \* locals of find_free_range
    idx, page,     \* the index and the frame __set_fixmap is given next
    left,          \* nrpages still to do
    ret,           \* the page returned by __ioremap, or NONE for NULL
    held,          \* the mappings callers have and have not given back
    perm           \* the frame last given to set_fixmap for an index

locals == <<n, i, start, idx, page, left>>
vars == <<mapping, level1, tlb, pc, op, args, locals, ret, held, perm>>

PagesOf(a, s) == ((a % PAGE_SIZE) + s + PAGE_SIZE - 1) \div PAGE_SIZE

\* What the page walk finds: the two level-2 entries of the window point to
\* the two tables in order.
Walk(v) == level1[v \div T][v % T]

Init ==
    /\ mapping = [s \in Slots |-> NONE]
    /\ level1 = [t \in 0 .. 1 |-> [s \in Slots |-> NONE]]
    /\ tlb = [v \in Window |-> NONE]
    /\ pc = "idle" /\ op = "map" /\ args = [phys |-> 0, size |-> 0]
    /\ n = 0 /\ i = 0 /\ start = 0 /\ idx = 0 /\ page = NONE /\ left = 0
    /\ ret = NONE
    /\ held = {}
    /\ perm = [x \in Permanent |-> NONE]

-----------------------------------------------------------------------------
(* __ioremap and find_free_range.                                          *)

__ioremap(a, s) ==
    /\ pc = "idle"
    /\ op' = "map" /\ args' = [phys |-> a, size |-> s]
    /\ pc' = IF s = 0 \/ PagesOf(a, s) > T THEN "return" ELSE "scan"
    /\ left' = PagesOf(a, s)
    /\ page' = a \div PAGE_SIZE
    /\ n' = 0 /\ i' = 0 /\ start' = 0
    /\ UNCHANGED <<mapping, level1, tlb, idx, ret, held, perm>>

\* (Mutant of Bound: the last slots are not looked at.)
BoundShort == T - 2

\* The last index the loop reads is TOTAL_FIX_BITMAPS: "i > TOTAL_FIX_BITMAPS".
Bound == T

\* The words the loop may find at index j.
Found(j) == IF j \in Slots THEN {mapping[j]} ELSE Beyond

\* (Mutant of ScanUsed: the index stays at the range.)
ScanUsedStay ==
    /\ pc = "scan" /\ n < left /\ i <= Bound
    /\ \E v \in Found(i) \ {NONE} : start' = i + v
    /\ n' = 0
    /\ UNCHANGED <<mapping, level1, tlb, pc, op, args, i, idx, page, left, ret, held, perm>>

ScanUsed ==
    /\ pc = "scan" /\ n < left /\ i <= Bound
    /\ \E v \in Found(i) \ {NONE} : i' = i + v /\ start' = i + v
    /\ n' = 0
    /\ UNCHANGED <<mapping, level1, tlb, pc, op, args, idx, page, left, ret, held, perm>>

ScanFree ==
    /\ pc = "scan" /\ n < left /\ i <= Bound
    /\ NONE \in Found(i)
    /\ n' = n + 1
    /\ i' = i + 1
    /\ UNCHANGED <<mapping, level1, tlb, pc, op, args, start, idx, page, left, ret, held, perm>>

ScanFail ==
    /\ pc = "scan" /\ n < left /\ i > Bound
    /\ pc' = "return"
    /\ UNCHANGED <<mapping, level1, tlb, op, args, locals, ret, held, perm>>

\* The range is recorded at its first slot (behind the array if start = T).
ScanDone ==
    /\ pc = "scan" /\ n >= left
    /\ mapping' = [s \in Slots |-> IF s = start THEN left ELSE mapping[s]]
    /\ idx' = FIX_BITMAP_BEGIN - start
    /\ ret' = fix_to_virt(FIX_BITMAP_BEGIN - start)
    /\ pc' = "set"
    /\ UNCHANGED <<level1, tlb, op, args, n, i, start, page, left, held, perm>>

-----------------------------------------------------------------------------
(* iounmap, given what __ioremap returned and a size; only a size of as    *)
(* many pages gives the mapping back.                                      *)

\* The range check on the address, with its offset into the page.
InWindow(h) ==
    LET addr == (h.v * PAGE_SIZE) + (h.phys % PAGE_SIZE)
    IN  /\ addr >= fix_to_virt(FIX_BITMAP_BEGIN) * PAGE_SIZE
        /\ addr <= fix_to_virt(FIX_BITMAP_END) * PAGE_SIZE

iounmap(h, s) ==
    /\ pc = "idle"
    /\ op' = "unmap" /\ args' = [phys |-> h.phys, size |-> s]
    /\ held' = IF PagesOf(h.phys, s) = PagesOf(h.phys, h.size) THEN held \ {h} ELSE held
    /\ idx' = virt_to_fix(h.v)
    /\ start' = FIX_BITMAP_BEGIN - virt_to_fix(h.v)
    /\ left' = PagesOf(h.phys, s)
    /\ page' = NONE
    /\ pc' = IF InWindow(h) /\ mapping[start'] = left' THEN "set" ELSE "return"
    /\ UNCHANGED <<mapping, level1, tlb, n, i, ret, perm>>

-----------------------------------------------------------------------------
(* __set_fixmap, once per page: the entry, then the TLB.                   *)

Halt ==
    /\ pc = "set" /\ left > 0
    /\ idx < FIX_BITMAP_END \/ idx > FIX_BITMAP_BEGIN
    /\ pc' = "halt"
    /\ UNCHANGED <<mapping, level1, tlb, op, args, locals, ret, held, perm>>

SetPte ==
    /\ pc = "set" /\ left > 0
    /\ idx >= FIX_BITMAP_END /\ idx <= FIX_BITMAP_BEGIN
    /\ level1' = [level1 EXCEPT ![0][pte_index(fix_to_virt(idx))] = page]
    /\ pc' = "flush"
    /\ UNCHANGED <<mapping, tlb, op, args, locals, ret, held, perm>>

\* (Mutant of Flushed: the wrong page.)
FlushedNext(v) == [tlb EXCEPT ![(v + 1) % (2 * T)] = NONE]

\* flush_tlb_one
Flushed(v) == [tlb EXCEPT ![v] = NONE]

\* (Mutant of NextPage: the frame is not moved on.)
SamePage(p) == p

\* 'phys_addr' moves to the next page; iounmap passes 0 and no protection bits.
NextPage(p) == IF op = "map" THEN p + 1 ELSE p

FlushPte ==
    /\ pc = "flush"
    /\ tlb' = Flushed(fix_to_virt(idx))
    /\ left' = left - 1
    /\ idx' = idx - 1
    /\ page' = NextPage(page)
    /\ pc' = "set"
    /\ UNCHANGED <<mapping, level1, op, args, n, i, start, ret, held, perm>>

SetDone ==
    /\ pc = "set" /\ left = 0
    /\ IF op = "map"
       THEN /\ held' = held \cup {[v |-> ret, phys |-> args.phys, size |-> args.size]}
            /\ UNCHANGED mapping
       ELSE /\ mapping' = [mapping EXCEPT ![start] = NONE]
            /\ UNCHANGED held
    /\ pc' = "return"
    /\ UNCHANGED <<level1, tlb, op, args, locals, ret, perm>>

-----------------------------------------------------------------------------
(* set_fixmap, for the permanent entries.                                  *)

set_fixmap(x, p) ==
    /\ pc = "idle"
    /\ x > 0 /\ x < FIX_BITMAP_END
    /\ level1' = [level1 EXCEPT ![1][pte_index(fix_to_virt(x))] = p]
    /\ op' = "perm"
    /\ idx' = x
    /\ perm' = [perm EXCEPT ![x] = p]
    /\ pc' = "perm_flush"
    /\ UNCHANGED <<mapping, tlb, args, n, i, start, page, left, ret, held>>

PermFlush ==
    /\ pc = "perm_flush"
    /\ tlb' = Flushed(fix_to_virt(idx))
    /\ pc' = "return"
    /\ UNCHANGED <<mapping, level1, op, args, locals, ret, held, perm>>

-----------------------------------------------------------------------------
Return ==
    /\ pc = "return"
    /\ pc' = "idle"
    /\ op' = "map" /\ args' = [phys |-> 0, size |-> 0]
    /\ n' = 0 /\ i' = 0 /\ start' = 0 /\ idx' = 0 /\ page' = NONE /\ left' = 0
    /\ ret' = NONE
    /\ UNCHANGED <<mapping, level1, tlb, held, perm>>

\* The processor caches a translation, whatever the kernel is doing.
TlbLoad(v) ==
    /\ Walk(v) # NONE
    /\ tlb' = [tlb EXCEPT ![v] = Walk(v)]
    /\ UNCHANGED <<mapping, level1, pc, op, args, locals, ret, held, perm>>

Step ==
    \/ ScanUsed \/ ScanFree \/ ScanFail \/ ScanDone
    \/ Halt \/ SetPte \/ FlushPte \/ SetDone \/ PermFlush
    \/ Return

Next ==
    \/ \E a \in PhysAddrs, s \in Sizes : __ioremap(a, s)
    \/ \E h \in held, s \in Sizes : iounmap(h, s)
    \/ \E x \in Permanent, a \in PhysAddrs : set_fixmap(x, a \div PAGE_SIZE)
    \/ Step
    \/ \E v \in Window : TlbLoad(v)

Spec == Init /\ [][Next]_vars /\ WF_vars(Step)

-----------------------------------------------------------------------------
(* Properties.                                                             *)

SlotsOf(h) == h.v .. h.v + PagesOf(h.phys, h.size) - 1

\* While a caller has a mapping, each of its addresses translates to the
\* frame asked for, page by page and in order, whatever is mapped or unmapped
\* beside it; so do the permanent ones.  No slot is handed out twice, and none
\* outside the temporary table.
Translates ==
    /\ \A h \in held : \A v \in SlotsOf(h) :
          Walk(v) = (h.phys \div PAGE_SIZE) + (v - h.v)
    /\ \A x \in Permanent : Walk(fix_to_virt(x)) = perm[x]
    /\ \A h \in held : SlotsOf(h) \subseteq Slots
    /\ \A h, g \in held : h # g => SlotsOf(h) \cap SlotsOf(g) = {}

\* Between calls the processor never uses a translation the page tables no
\* longer hold, even if it cached one between the store and the flush.
TlbCoherent == pc = "idle" => \A v \in Window : tlb[v] \in {NONE, Walk(v)}

\* The slots that 'mapping' records as handed out.
Reserved == UNION {s .. s + mapping[s] - 1 : s \in {x \in Slots : mapping[x] # NONE}}

\* ioremap answers NULL only when no run of free slots is long enough: the
\* scan that jumps over ranges misses none.  And what a caller has given back is
\* free again and its entries are clear, for every slot but the last: iounmap
\* compares the address, with its offset into the page, to the start of the
\* last slot, and what begins in that slot at an offset is never unmapped.
NoSlotLost ==
    /\ pc = "return" /\ op = "map" /\ args.size > 0 /\ ret = NONE =>
          ~\E s \in Slots :
              LET run == s .. s + PagesOf(args.phys, args.size) - 1
              IN  run \subseteq Slots /\ run \cap Reserved = {}
    /\ pc = "idle" => \A s \in Slots \ {fix_to_virt(FIX_BITMAP_END)} :
          s \in Reserved \/ Walk(s) # NONE => \E h \in held : s \in SlotsOf(h)

\* Every call returns or stops the kernel.
Terminates == pc # "idle" ~> pc \in {"idle", "halt"}

=============================================================================
