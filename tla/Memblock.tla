------------------------------ MODULE Memblock ------------------------------
(***************************************************************************)
(* The boot memory allocator of the micro-kernel (ukernel/memblock.c).     *)
(*                                                                         *)
(* All physical memory is kept in one array of regions, sorted by address. *)
(* An entry carries a flag (free or reserved) and a NUMA node.  Every call *)
(* edits the array in place with loops that insert, split, merge and       *)
(* delete entries; here one action is one iteration of one of those loops, *)
(* so that the invariants hold at every point at which the code looks at   *)
(* the array, and not only between calls.                                  *)
(*                                                                         *)
(* The array is a function on 0 .. NR_REGIONS-1.  The entries from 'n' on  *)
(* are kept with whatever earlier moves left in them, because              *)
(* merge_regions reads one of them.                                        *)
(***************************************************************************)
EXTENDS Integers, FiniteSets

CONSTANTS
    NR_REGIONS,     \* CONFIG_MEMBLOCK_MEMORY_REGIONS
    PAGE_SIZE,      \* the lowest address memblock_alloc hands out
    MaxAddr,        \* physical addresses are 0 .. MaxAddr-1
    Nodes,          \* NUMA nodes
    Aligns,         \* alignments asked of memblock_alloc
    Windows,        \* the <<start, end>> ranges memblock_alloc is given
    MaxRemoves,     \* how often memblock_remove is called (nothing in src/
                    \* calls it, so 0 is the kernel as it is)
    BeyondMayMatch  \* whether the bytes behind regions[] may look like an
                    \* entry that continues the last region

ASSUME MemblockAssumption ==
    /\ NR_REGIONS \in Nat \ {0}
    /\ PAGE_SIZE \in Nat \ {0}
    /\ MaxAddr \in Nat \ {0}
    /\ Nodes \subseteq Nat
    /\ Aligns \subseteq Nat \ {0}
    /\ Windows \subseteq Nat \X Nat
    /\ MaxRemoves \in Nat
    /\ BeyondMayMatch \in BOOLEAN

NO_NODE == -1                   \* 'nid' of a region that has no node yet
Nids    == Nodes \cup {NO_NODE}
ENOSPC  == -28

\* enum memblock_flags
Flags == {"NONE", "RESERVED"}

Slots  == 0 .. NR_REGIONS - 1
Region == [base : Nat, size : Nat, flags : Flags, nid : Nids \cup {0}]

Calls == {"add", "remove", "setclr", "set_node", "alloc"}

\* The arguments of the call in progress; a call sets the fields it has.
Call == [fn : Calls, base : Nat, size : Nat, nid : Nids, set : BOOLEAN,
         align : Nat \ {0}, lo : Nat, hi : Nat, exact : BOOLEAN]

RangeCall(f, b, s, nd, x) ==
    [fn |-> f, base |-> b, size |-> s, nid |-> nd, set |-> x,
     align |-> 1, lo |-> 0, hi |-> 0, exact |-> FALSE]

AllocCall(s, a, lo, hi, nd, exact) ==
    [fn |-> "alloc", base |-> 0, size |-> s, nid |-> nd, set |-> TRUE,
     align |-> a, lo |-> lo, hi |-> hi, exact |-> exact]

NoCall == RangeCall("add", 0, 0, NO_NODE, FALSE)

VARIABLES
    regions, n, size,    \* struct memblock memory
    pc,                  \* the loop the call in progress is in
    call,                \* its arguments
    base, end,           \* the part of [base, base + size) still to handle
    i,                   \* the loop index
    start, stop,         \* start_region/end_region, start_range/end_range
    nid,                 \* memblock_alloc's own 'nid', reset on a retry
    ret,                 \* the value returned; for memblock_alloc, 'paddr'
    removes              \* calls of memblock_remove so far

memory == <<regions, n, size>>
locals == <<base, end, i, start, stop, nid>>
vars   == <<memory, locals, pc, call, ret, removes>>

-----------------------------------------------------------------------------
(* Helpers on the array.                                                   *)

End(r) == r.base + r.size

MinOf(a, b) == IF a < b THEN a ELSE b
MaxOf(a, b) == IF a > b THEN a ELSE b
Clamp(a, low, high) == MinOf(MaxOf(a, low), high)

\* ALIGN_KERNEL: round up to a multiple of 'a'.
AlignUp(x, a) == ((x + a - 1) \div a) * a

NewRegion(b, s, f, nd) == [base |-> b, size |-> s, flags |-> f, nid |-> nd]

\* The array after the memmove and the stores of insert_region(k, ...).
Inserted(rs, k, r) ==
    [j \in Slots |-> IF j < k \/ j > n THEN rs[j]
                     ELSE IF j = k THEN r ELSE rs[j - 1]]

\* The array after the memmove that drops entry k: the last entry stays where
\* it is and is now one entry past the end.
Dropped(rs, k) ==
    [j \in Slots |-> IF j >= k /\ j < n - 1 THEN rs[j + 1] ELSE rs[j]]

\* (Mutant of HasRoom: off by one.)
HasRoomLate == n <= NR_REGIONS

\* The guard of the assertion in insert_region.
HasRoom == n + 1 <= NR_REGIONS

\* (Mutant of Mergeable: touching and overlapping are confused.)
MergeableOverlap(r, s) == End(r) >= s.base /\ r.nid = s.nid /\ r.flags = s.flags

\* The test of merge_regions on two neighbouring entries.
Mergeable(r, s) == End(r) = s.base /\ r.nid = s.nid /\ r.flags = s.flags

(* find_in_range_node, with flags = MEMBLOCK_NONE as in its only call: the *)
(* first region with room for 'sz' bytes once its bounds are clamped to    *)
(* [lo, hi) and its start is aligned.  The answer 0 means there is none.   *)
FitBase(r, a, lo, hi) == AlignUp(Clamp(r.base, lo, hi), a)

\* (Mutant of Fits: a region that fits exactly is passed over.)
FitsStrict(r, sz, a, lo, hi, nd) ==
    /\ r.flags = "NONE"
    /\ nd = NO_NODE \/ nd = r.nid
    /\ Clamp(End(r), lo, hi) - FitBase(r, a, lo, hi) > sz

\* (Mutant of Fits: the flags are not looked at.)
FitsAny(r, sz, a, lo, hi, nd) ==
    /\ nd = NO_NODE \/ nd = r.nid
    /\ FitBase(r, a, lo, hi) < Clamp(End(r), lo, hi)
    /\ Clamp(End(r), lo, hi) - FitBase(r, a, lo, hi) >= sz

Fits(r, sz, a, lo, hi, nd) ==
    /\ r.flags = "NONE"
    /\ nd = NO_NODE \/ nd = r.nid
    /\ FitBase(r, a, lo, hi) < Clamp(End(r), lo, hi)
    /\ Clamp(End(r), lo, hi) - FitBase(r, a, lo, hi) >= sz

find_in_range_node(sz, a, lo, hi, nd) ==
    LET from == MaxOf(lo, PAGE_SIZE)
        to   == MaxOf(from, hi)
        hits == {j \in 0 .. n - 1 : Fits(regions[j], sz, a, from, to, nd)}
    IN  IF hits = {} THEN 0
        ELSE FitBase(regions[CHOOSE j \in hits : \A k \in hits : j <= k], a, from, to)

-----------------------------------------------------------------------------
Init ==
    /\ regions = [j \in Slots |-> NewRegion(0, 0, "NONE", 0)]
    /\ n = 0
    /\ size = 0
    /\ pc = "idle"
    /\ call = NoCall
    /\ base = 0 /\ end = 0 /\ i = 0 /\ start = -1 /\ stop = 0
    /\ nid = NO_NODE
    /\ ret = 0
    /\ removes = 0

-----------------------------------------------------------------------------
(* The API.  A call is made when no other is in progress: the boot path is *)
(* one thread with interrupts off.  Ranges do not wrap around.             *)

Begin(c) ==
    /\ pc = "idle"
    /\ c.base + c.size <= MaxAddr
    /\ call' = c
    /\ base' = c.base
    /\ end' = c.base + c.size
    /\ nid' = c.nid
    /\ i' = 0 /\ start' = -1 /\ stop' = 0

\* memblock_add: the flags argument is stripped of MEMBLOCK_RESERVED, the only
\* flag there is, so a new region is always free.  This is also the code of
\* add_range up to its loop: nothing to do, or the first region of all.
memblock_add(b, s, nd) ==
    /\ Begin(RangeCall("add", b, s, nd, FALSE))
    /\ \/ /\ s = 0
          /\ pc' = "return"
          /\ UNCHANGED memory
       \/ /\ s > 0 /\ n = 0
          /\ regions' = [regions EXCEPT ![0] = NewRegion(b, s, "NONE", nd)]
          /\ n' = 1
          /\ size' = s
          /\ pc' = "return"
       \/ /\ s > 0 /\ n > 0
          /\ pc' = "add"
          /\ UNCHANGED memory
    /\ ret' = 0
    /\ UNCHANGED removes

memblock_remove(b, s) ==
    /\ removes < MaxRemoves
    /\ removes' = removes + 1
    /\ Begin(RangeCall("remove", b, s, NO_NODE, FALSE))
    /\ pc' = "entry"
    /\ ret' = 0
    /\ UNCHANGED memory

\* memblock_setclr_flag with MEMBLOCK_RESERVED, the flag of both its callers:
\* memblock_reserve (set) and memblock_free (clear).
memblock_setclr_flag(b, s, set) ==
    /\ Begin(RangeCall("setclr", b, s, NO_NODE, set))
    /\ pc' = "entry"
    /\ ret' = 0
    /\ UNCHANGED <<memory, removes>>

memblock_reserve(b, s) == memblock_setclr_flag(b, s, TRUE)
memblock_free(b, s)    == memblock_setclr_flag(b, s, FALSE)

memblock_set_node(b, s, nd) ==
    /\ Begin(RangeCall("set_node", b, s, nd, FALSE))
    /\ pc' = "entry"
    /\ ret' = 0
    /\ UNCHANGED <<memory, removes>>

memblock_alloc(s, a, lo, hi, nd, exact) ==
    /\ Begin(AllocCall(s, a, lo, hi, nd, exact))
    /\ pc' = "find"
    /\ ret' = 0
    /\ UNCHANGED <<memory, removes>>

-----------------------------------------------------------------------------
(* add_range: one iteration of the loop, the code behind it.               *)

AddSkip ==       \* (2) the region ends before the new range
    /\ pc = "add" /\ i < n
    /\ regions[i].base < end
    /\ End(regions[i]) <= base
    /\ i' = i + 1
    /\ UNCHANGED <<memory, base, end, start, stop, nid, pc, call, ret, removes>>

AddCovered ==    \* (3) nothing of the new range lies before the region
    /\ pc = "add" /\ i < n
    /\ regions[i].base < end
    /\ End(regions[i]) > base
    /\ regions[i].base <= base
    /\ base' = MinOf(End(regions[i]), end)
    /\ i' = i + 1
    /\ UNCHANGED <<memory, end, start, stop, nid, pc, call, ret, removes>>

\* (Mutant of InsertAt: memory.size is not kept up.)
InsertAtUncounted(k, r) ==
    /\ HasRoom
    /\ regions' = Inserted(regions, k, r)
    /\ n' = n + 1
    /\ size' = size

InsertAt(k, r) ==
    /\ HasRoom
    /\ regions' = Inserted(regions, k, r)
    /\ n' = n + 1
    /\ size' = size + r.size

AddGap ==        \* (3) insert the part of the new range before the region
    /\ pc = "add" /\ i < n
    /\ regions[i].base < end
    /\ regions[i].base > base
    /\ InsertAt(i, NewRegion(base, regions[i].base - base, "NONE", nid))
    /\ start' = IF start = -1 THEN i ELSE start
    /\ stop' = i + 1
    /\ base' = MinOf(End(regions[i]), end)
    /\ i' = i + 1
    /\ UNCHANGED <<end, nid, pc, call, ret, removes>>

\* The loop ran off the array, or met a region behind the range (1).
LoopOver == IF i < n THEN regions[i].base >= end ELSE TRUE

\* (Mutant of MergeFrom: the entry in front is left out.)
MergeFromHere(k) == k

\* merge_regions starts one entry before the range it is given.
MergeFrom(k) == IF k > 0 THEN k - 1 ELSE k

AddTail ==
    /\ pc = "add" /\ LoopOver
    /\ base < end
    /\ InsertAt(i, NewRegion(base, end - base, "NONE", nid))
    /\ start' = IF start = -1 THEN i ELSE start
    /\ stop' = i + 1
    /\ i' = MergeFrom(start')
    /\ pc' = "merge"
    /\ UNCHANGED <<base, end, nid, call, ret, removes>>

AddNoTail ==
    /\ pc = "add" /\ LoopOver
    /\ base >= end
    /\ pc' = IF start = -1 THEN "return" ELSE "merge"
    /\ i' = IF start = -1 THEN i ELSE MergeFrom(start)
    /\ UNCHANGED <<memory, base, end, start, stop, nid, call, ret, removes>>

-----------------------------------------------------------------------------
(* memblock_alloc around memblock_setclr_flag.                             *)

AllocFind ==
    /\ pc = "find"
    /\ ret' = find_in_range_node(call.size, call.align, call.lo, call.hi, nid)
    /\ pc' = IF ret' = 0 THEN "retry" ELSE "entry"
    /\ base' = ret'
    /\ end' = ret' + call.size
    /\ UNCHANGED <<memory, i, start, stop, nid, call, removes>>

AllocRetry ==
    /\ pc = "retry"
    /\ IF nid # NO_NODE /\ ~call.exact
       THEN nid' = NO_NODE /\ pc' = "find"
       ELSE UNCHANGED nid /\ pc' = "return"
    /\ ret' = 0
    /\ UNCHANGED <<memory, base, end, i, start, stop, call, removes>>

-----------------------------------------------------------------------------
(* isolate_range: split the regions that cross 'base' or 'end', and find   *)
(* the entries [start, stop) that lie inside.                              *)

\* (Mutant of Isolated: memblock_remove begins behind the last entry.)
IsolatedPast(first, last) ==
    /\ pc' = IF call.fn = "remove" THEN "remove" ELSE "set"
    /\ i' = IF call.fn = "remove" THEN last ELSE first

\* What the caller does with the isolated range; memblock_remove walks down.
Isolated(first, last) ==
    /\ pc' = IF call.fn = "remove" THEN "remove" ELSE "set"
    /\ i' = IF call.fn = "remove" THEN last - 1 ELSE first

IsolateEmpty ==
    /\ pc = "entry"
    /\ call.size = 0
    /\ start' = 0 /\ stop' = 0
    /\ Isolated(0, 0)
    /\ UNCHANGED <<memory, base, end, nid, call, ret, removes>>

IsolateNoSpace ==
    /\ pc = "entry"
    /\ call.size > 0
    /\ n + 2 > NR_REGIONS
    /\ start' = 0 /\ stop' = 0
    /\ pc' = IF call.fn = "alloc" THEN "retry" ELSE "return"
    /\ ret' = ENOSPC
    /\ UNCHANGED <<memory, base, end, i, nid, call, removes>>

\* (Mutant of IsolateStart: room for one cut only.)
IsolateStartTight ==
    /\ pc = "entry"
    /\ call.size > 0
    /\ n + 1 <= NR_REGIONS
    /\ start' = 0 /\ stop' = 0
    /\ i' = 0
    /\ pc' = "isolate"
    /\ UNCHANGED <<memory, base, end, nid, call, ret, removes>>

IsolateStart ==
    /\ pc = "entry"
    /\ call.size > 0
    /\ n + 2 <= NR_REGIONS
    /\ start' = 0 /\ stop' = 0
    /\ i' = 0
    /\ pc' = "isolate"
    /\ UNCHANGED <<memory, base, end, nid, call, ret, removes>>

IsolateSkip ==   \* (2)
    /\ pc = "isolate" /\ i < n
    /\ regions[i].base < end
    /\ End(regions[i]) <= base
    /\ i' = i + 1
    /\ UNCHANGED <<memory, base, end, start, stop, nid, pc, call, ret, removes>>

Lower(r, at) == NewRegion(r.base, at - r.base, r.flags, r.nid)

\* (Mutant of Upper: the entry that is cut keeps its base.)
UpperUncut(r, at) == NewRegion(r.base, End(r) - at, r.flags, r.nid)

Upper(r, at) == NewRegion(at, End(r) - at, r.flags, r.nid)

\* Cut entry i at 'at': the lower part is inserted in front of the rest.
Split(at) ==
    /\ HasRoom
    /\ regions' = Inserted([regions EXCEPT ![i] = Upper(@, at)], i, Lower(regions[i], at))
    /\ n' = n + 1
    /\ size' = (size - (at - regions[i].base)) + (at - regions[i].base)

IsolateLow ==    \* (3) the region crosses 'base'
    /\ pc = "isolate" /\ i < n
    /\ regions[i].base < end
    /\ End(regions[i]) > base
    /\ regions[i].base < base
    /\ Split(base)
    /\ i' = i + 1
    /\ UNCHANGED <<base, end, start, stop, nid, pc, call, ret, removes>>

\* (Mutant of IsolateHigh: the index is not stepped back.)
IsolateHighForward ==
    /\ pc = "isolate" /\ i < n
    /\ regions[i].base < end
    /\ regions[i].base >= base
    /\ End(regions[i]) > end
    /\ Split(end)
    /\ i' = i + 1
    /\ UNCHANGED <<base, end, start, stop, nid, pc, call, ret, removes>>

IsolateHigh ==   \* (4) the region crosses 'end': the lower part is next
    /\ pc = "isolate" /\ i < n
    /\ regions[i].base < end
    /\ regions[i].base >= base
    /\ End(regions[i]) > end
    /\ Split(end)
    /\ UNCHANGED <<locals, pc, call, ret, removes>>

IsolateInside == \* (5) the region is inside
    /\ pc = "isolate" /\ i < n
    /\ End(regions[i]) > base
    /\ regions[i].base >= base
    /\ End(regions[i]) <= end
    /\ regions[i].base < end
    /\ start' = IF stop = 0 THEN i ELSE start
    /\ stop' = i + 1
    /\ i' = i + 1
    /\ UNCHANGED <<memory, base, end, nid, pc, call, ret, removes>>

IsolateDone ==   \* (1), or the end of the array
    /\ pc = "isolate" /\ LoopOver
    /\ Isolated(start, stop)
    /\ UNCHANGED <<memory, base, end, start, stop, nid, call, ret, removes>>

\* Where the code calls insert_region next.
InsertDue ==
    \/ /\ pc = "add"
       /\ IF LoopOver THEN base < end ELSE regions[i].base > base
    \/ /\ pc = "isolate" /\ i < n
       /\ regions[i].base < end /\ End(regions[i]) > base
       /\ regions[i].base < base \/ End(regions[i]) > end

\* The assertion of insert_region: "out-of-space.", and the kernel stops.  In
\* isolate_range the entry is cut, and its size subtracted, before the call.
InsertHalt ==
    /\ InsertDue /\ ~HasRoom
    /\ LET at == IF regions[i].base < base THEN base ELSE end
       IN  /\ regions' = IF pc = "add" THEN regions
                         ELSE [regions EXCEPT ![i] = Upper(@, at)]
           /\ size' = IF pc = "add" THEN size ELSE size - (at - regions[i].base)
    /\ pc' = "halt"
    /\ UNCHANGED <<n, locals, call, ret, removes>>

-----------------------------------------------------------------------------
(* The loops of memblock_remove, memblock_setclr_flag and memblock_set_node*)
(* over the isolated entries.                                              *)

\* remove_region subtracts the size found in slot i after the memmove.
RemoveStep ==
    /\ pc = "remove"
    /\ i >= start
    /\ regions' = Dropped(regions, i)
    /\ n' = n - 1
    /\ size' = size - regions'[i].size
    /\ i' = i - 1
    /\ UNCHANGED <<base, end, start, stop, nid, pc, call, ret, removes>>

RemoveDone ==
    /\ pc = "remove"
    /\ i < start
    /\ pc' = "return"
    /\ UNCHANGED <<memory, locals, call, ret, removes>>

\* What memblock_setclr_flag and memblock_set_node store in an entry.
Updated(r, c) ==
    IF c.fn = "set_node" THEN [r EXCEPT !.nid = c.nid]
    ELSE [r EXCEPT !.flags = IF c.set THEN "RESERVED" ELSE "NONE"]

SetStep ==
    /\ pc = "set"
    /\ i < stop
    /\ regions' = [regions EXCEPT ![i] = Updated(regions[i], call)]
    /\ i' = i + 1
    /\ UNCHANGED <<n, size, base, end, start, stop, nid, pc, call, ret, removes>>

SetDone ==
    /\ pc = "set"
    /\ i >= stop
    /\ i' = MergeFrom(start)
    /\ pc' = "merge"
    /\ UNCHANGED <<memory, base, end, start, stop, nid, call, ret, removes>>

-----------------------------------------------------------------------------
(* merge_regions: 'next' is regions[i + 1], which is a live entry, the     *)
(* stale entry one past the end, or the bytes behind the array.            *)

Joined(r, s) == NewRegion(r.base, r.size + s.size, r.flags, r.nid)

MergeKeep ==
    /\ pc = "merge" /\ i < stop
    /\ IF i + 1 < NR_REGIONS THEN ~Mergeable(regions[i], regions[i + 1]) ELSE TRUE
    /\ i' = i + 1
    /\ UNCHANGED <<memory, base, end, start, stop, nid, pc, call, ret, removes>>

MergeJoin ==
    /\ pc = "merge" /\ i < stop
    /\ i + 1 < NR_REGIONS /\ i + 2 <= n
    /\ Mergeable(regions[i], regions[i + 1])
    /\ regions' = Dropped([regions EXCEPT ![i] = Joined(@, regions[i + 1])], i + 1)
    /\ n' = n - 1
    /\ stop' = stop - 1
    /\ UNCHANGED <<size, base, end, i, start, nid, pc, call, ret, removes>>

\* n - (i + 2) is negative: as an unsigned count it makes memmove run off
\* the mapped memory.
MergeFault ==
    /\ pc = "merge" /\ i < stop
    /\ i + 2 > n
    /\ IF i + 1 < NR_REGIONS THEN Mergeable(regions[i], regions[i + 1])
                             ELSE BeyondMayMatch
    /\ pc' = "fault"
    /\ UNCHANGED <<memory, locals, call, ret, removes>>

MergeDone ==
    /\ pc = "merge" /\ i >= stop
    /\ pc' = "return"
    /\ UNCHANGED <<memory, locals, call, ret, removes>>

-----------------------------------------------------------------------------
\* The caller has the result; the locals of the call are gone.
Return ==
    /\ pc = "return"
    /\ pc' = "idle"
    /\ call' = NoCall
    /\ base' = 0 /\ end' = 0 /\ i' = 0 /\ start' = -1 /\ stop' = 0
    /\ nid' = NO_NODE
    /\ ret' = 0
    /\ UNCHANGED <<memory, removes>>

Addrs == 0 .. MaxAddr

Request ==
    \/ \E b \in Addrs, s \in Addrs, nd \in Nids : memblock_add(b, s, nd)
    \/ \E b \in Addrs, s \in Addrs : memblock_remove(b, s)
    \/ \E b \in Addrs, s \in Addrs : memblock_reserve(b, s)
    \/ \E b \in Addrs, s \in Addrs : memblock_free(b, s)
    \/ \E b \in Addrs, s \in Addrs, nd \in Nodes : memblock_set_node(b, s, nd)
    \/ \E s \in Addrs, a \in Aligns, w \in Windows, nd \in Nids, exact \in BOOLEAN :
          memblock_alloc(s, a, w[1], w[2], nd, exact)

\* What the processor does by itself once a call is made.
Step ==
    \/ AddSkip \/ AddCovered \/ AddGap \/ AddTail \/ AddNoTail
    \/ AllocFind \/ AllocRetry
    \/ IsolateEmpty \/ IsolateNoSpace \/ IsolateStart
    \/ IsolateSkip \/ IsolateLow \/ IsolateHigh \/ IsolateInside
    \/ IsolateDone \/ InsertHalt
    \/ RemoveStep \/ RemoveDone \/ SetStep \/ SetDone
    \/ MergeKeep \/ MergeJoin \/ MergeFault \/ MergeDone
    \/ Return

Next == Request \/ Step

Spec == Init /\ [][Next]_vars /\ WF_vars(Step)

-----------------------------------------------------------------------------
(* Properties.                                                             *)

Live == 0 .. n - 1

PCs == {"idle", "add", "find", "retry", "entry", "isolate", "set", "remove",
        "merge", "return", "halt", "fault"}

\* Every variable has its type; in particular no loop leaves the array.
TypeOK ==
    /\ regions \in [Slots -> Region]
    /\ n \in 0 .. NR_REGIONS
    /\ size \in Int
    /\ pc \in PCs
    /\ call \in Call
    /\ base \in Nat /\ end \in Nat
    /\ i \in -1 .. NR_REGIONS
    /\ start \in -1 .. NR_REGIONS /\ stop \in 0 .. NR_REGIONS
    /\ nid \in Nids
    /\ ret \in Int
    /\ removes \in 0 .. MaxRemoves

\* The live entries are sorted by address, disjoint and not empty, inside every
\* loop of every call: the "r_base >= end" breaks of add_range and
\* isolate_range are only right if they are.
Sorted ==
    /\ \A j \in Live : regions[j].size > 0
    /\ \A j, k \in Live : j < k => End(regions[j]) <= regions[k].base

\* Between calls no two neighbours could be one entry: merge_regions is called
\* on a range wide enough after every change.  find_in_range_node depends on
\* it, because it only looks for room inside one entry.
Merged ==
    pc \in {"idle", "return"} =>
        \A j \in Live : j + 1 < n => ~Mergeable(regions[j], regions[j + 1])

\* isolate_range asks for two spare entries up front; with them the assertion
\* of insert_region never stops the kernel in a reserve, free, set_node,
\* remove or alloc, whatever region the range cuts.
IsolateHasRoom == pc = "halt" => call.fn = "add"

\* merge_regions never takes the entry one past the end for a neighbour.
NoFault == pc # "fault"

Bytes(r) == r.base .. End(r) - 1
Covered == UNION {Bytes(regions[j]) : j \in Live}

\* memory.size, which memblock_phys_mem_size returns, is the number of bytes
\* the live entries cover (kept by four different functions).
SizeIsCoverage == pc # "halt" => size = Cardinality(Covered)

\* isolate_range hands out exactly the entries that lie inside the range:
\* no byte of the range is left out, none outside it is touched.
IsolationExact ==
    pc = "set" =>
        /\ 0 <= start /\ stop <= n
        /\ UNION {Bytes(regions[j]) : j \in start .. stop - 1}
             = Covered \cap (base .. end - 1)

\* The entry that holds byte a, and what memblock records for that byte.
Holder(a) == CHOOSE j \in Live : a \in Bytes(regions[j])
CellOf(r) == [flags |-> r.flags, nid |-> r.nid]

\* A block of sz bytes at p could be handed out for node nd: it is aligned,
\* above the first page, inside [lo, hi), and all of it is free and alike.
BlockFree(p, sz, a, lo, hi, nd) ==
    /\ p % a = 0 /\ p >= PAGE_SIZE /\ p >= lo /\ p + sz <= hi
    /\ p .. p + sz - 1 \subseteq Covered
    /\ \A b \in p .. p + sz - 1 :
          LET r == regions[Holder(b)]
          IN  /\ r.flags = "NONE"
              /\ r.nid = (IF nd = NO_NODE THEN regions[Holder(p)].nid ELSE nd)

\* memblock_alloc answers 0 only when no such block exists, on the node asked
\* for or, unless the caller insists on it, on any one node; or when the
\* array has no two spare entries left to cut the block out.
AllocFailsOnlyWhenFull ==
    pc = "return" /\ call.fn = "alloc" /\ call.size > 0 /\ ret = 0 =>
        \/ n + 2 > NR_REGIONS
        \/ \A p \in 0 .. MaxAddr - 1 : \A nd \in {call.nid, nid} :
              ~BlockFree(p, call.size, call.align, call.lo, call.hi, nd)
=============================================================================
