------------------------- MODULE MemblockRefinement -------------------------
(***************************************************************************)
(* The mapping that shows Memblock to implement MemblockAbs.               *)
(***************************************************************************)
EXTENDS Memblock

NoMemory == [flags |-> "ABSENT", nid |-> NO_NODE]

\* Entry j as the caller will find it: the loops of memblock_remove and
\* memblock_setclr_flag or memblock_set_node have yet to reach some entries.
EntryCell(j) ==
    CellOf(IF pc = "set" /\ j \in i .. stop - 1 THEN Updated(regions[j], call)
           ELSE regions[j])

Gone(j) == pc = "remove" /\ j \in start .. i

AbsMem ==
    [a \in 0 .. MaxAddr - 1 |->
        IF a \in Covered
        THEN IF Gone(Holder(a)) THEN NoMemory ELSE EntryCell(Holder(a))
        ELSE IF call.fn = "add" /\ pc \in {"add", "halt"} /\ a \in base .. end - 1
             THEN [flags |-> "NONE", nid |-> nid]
             ELSE NoMemory]

\* A memmove that runs off the mapped memory is no answer: the call has had its
\* effect, and never returns.
AbsSt == CASE pc = "idle" -> "idle"
           [] pc \in {"find", "retry", "entry", "isolate"} -> "busy"
           [] pc = "halt" -> "dead"
           [] OTHER -> "done"

AbsRes == IF AbsSt = "busy" THEN 0 ELSE ret

Abs == INSTANCE MemblockAbs WITH
    mem <- AbsMem,
    st  <- AbsSt,
    req <- call,
    res <- AbsRes

\* memblock.c implements MemblockAbs, as long as nobody calls memblock_remove
\* and the bytes behind the array do not look like the next region: whatever
\* the array goes through, each call changes every byte of its range at one
\* instant, to what the interface says, an allocated block was free before, and
\* every call is answered, where only an add may be answered by the assertion
\* that stops the kernel.
ImplementsAbs == Abs!Spec

\* With memblock_remove, and stale entries behind the last one, what the loops do
\* to the memory is still what the interface says: only the promise that a call
\* returns is lost, to the memmove of merge_regions.
NeverWrong == Abs!Safety
=============================================================================
