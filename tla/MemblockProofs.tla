--------------------------- MODULE MemblockProofs ---------------------------
(***************************************************************************)
(* Theorems about Memblock, for every size of the array, every set of      *)
(* nodes, every range of addresses, alignment and window, in three parts:  *)
(* the types and the indices of the array; what the array says of memory;  *)
(* and that memblock.c implements MemblockAbs.                             *)
(***************************************************************************)
EXTENDS MemblockRefinement, WellFoundedInduction, FiniteSetTheorems, TLAPS

-----------------------------------------------------------------------------
(* Types and indices.  That no loop leaves the array is a matter of where  *)
(* each loop's bounds come from, so the two go together.                   *)

IndexInv ==
    /\ pc = "add" => /\ 0 <= i /\ i <= n
                     /\ start = -1 \/ 0 <= start
                     /\ stop <= n
                     /\ call.fn = "add"
    /\ pc = "isolate" => 0 <= i /\ i <= n /\ 0 <= start /\ stop <= n
    /\ pc = "set" => 0 <= i /\ 0 <= start /\ stop <= n
    /\ pc = "remove" => i < n /\ 0 <= start
    /\ pc = "merge" => 0 <= i /\ 0 <= start /\ stop <= n

TypeInv == TypeOK /\ IndexInv

\* Rounding up to a multiple of the alignment never rounds down.
LEMMA AlignUpNat ==
    ASSUME NEW x \in Nat, NEW a \in Nat \ {0}
    PROVE  AlignUp(x, a) \in Nat /\ AlignUp(x, a) >= x
BY DEF AlignUp

\* The array keeps its type when insert_region writes an entry into it.
LEMMA InsertedType ==
    ASSUME NEW rs \in [Slots -> Region], NEW k \in Nat, NEW r \in Region,
           n \in Nat, n < NR_REGIONS
    PROVE  Inserted(rs, k, r) \in [Slots -> Region]
BY MemblockAssumption DEF Inserted, Slots

\* The array keeps its type when the memmove of merge_regions or remove_region
\* drops an entry.
LEMMA DroppedType ==
    ASSUME NEW rs \in [Slots -> Region], NEW k \in Nat, n \in 0 .. NR_REGIONS
    PROVE  Dropped(rs, k) \in [Slots -> Region]
BY MemblockAssumption DEF Dropped, Slots

\* A non-empty set of array indices has a least element: the first hit of the
\* search in find_in_range_node.
LEMMA LeastNatural ==
    ASSUME NEW S \in SUBSET Nat, S # {}
    PROVE  \E j \in S : \A k \in S : j <= k
<1>1. PICK j \in S : \A k \in S : ~(<<k, j>> \in OpToRel(<, Nat))
  BY NatLessThanWellFounded, WFMin
<1>2. \A k \in S : ~(k < j)
  BY <1>1 DEF OpToRel
<1> QED BY <1>2

\* find_in_range_node answers an address.
LEMMA FindNat ==
    ASSUME TypeOK, NEW sz \in Nat, NEW a \in Nat \ {0}, NEW lo \in Nat,
           NEW hi \in Nat, NEW nd \in Nids
    PROVE  find_in_range_node(sz, a, lo, hi, nd) \in Nat
<1> DEFINE from == MaxOf(lo, PAGE_SIZE)
           to == MaxOf(from, hi)
           hits == {j \in 0 .. n - 1 : Fits(regions[j], sz, a, from, to, nd)}
           first == CHOOSE j \in hits : \A k \in hits : j <= k
<1>1. from \in Nat /\ to \in Nat
  BY MemblockAssumption DEF MaxOf
<1>2. ASSUME NEW j \in 0 .. n - 1
      PROVE  FitBase(regions[j], a, from, to) \in Nat
  <2>1. regions[j].base \in Nat
    BY MemblockAssumption DEF TypeOK, Slots, Region
  <2>2. Clamp(regions[j].base, from, to) \in Nat
    BY <2>1, <1>1 DEF Clamp, MinOf, MaxOf
  <2> QED BY <2>2, AlignUpNat DEF FitBase
<1> HIDE DEF from, to
<1>3. CASE hits = {}
  BY <1>3 DEF find_in_range_node, from, to
<1>4. CASE hits # {}
  <2>1. \E j \in hits : \A k \in hits : j <= k
    <3>1. hits \in SUBSET Nat
      BY DEF TypeOK
    <3> QED BY <3>1, <1>4, LeastNatural
  <2>2. first \in 0 .. n - 1
    BY <2>1
  <2>3. find_in_range_node(sz, a, lo, hi, nd) = FitBase(regions[first], a, from, to)
    BY <1>4 DEF find_in_range_node, from, to
  <2> QED BY <2>2, <2>3, <1>2
<1> QED BY <1>3, <1>4

\* The initial state has its types.
LEMMA InitType == Init => TypeInv
BY MemblockAssumption DEF Init, TypeInv, TypeOK, IndexInv, Slots, Region, Flags, PCs,
   Call, Calls, NoCall, RangeCall, Nids, NO_NODE, NewRegion

\* A call stores arguments of their types and leaves the array to the loops.
LEMMA RequestType == ASSUME TypeInv, Request PROVE TypeInv'
<1> USE MemblockAssumption DEF TypeInv, TypeOK
<1>1. ASSUME NEW c \in Call, Begin(c), UNCHANGED memory, ret' = 0,
             removes' \in 0 .. MaxRemoves,
             pc' \in {"return", "add", "entry", "find"},
             pc' = "add" => c.fn = "add"
      PROVE  TypeInv'
  <2>1. base' \in Nat /\ end' \in Nat /\ nid' \in Nids
    BY <1>1 DEF Begin, Call
  <2>2. call' \in Call /\ i' = 0 /\ start' = -1 /\ stop' = 0
    BY <1>1 DEF Begin
  <2>3. regions' = regions /\ n' = n /\ size' = size
    BY <1>1 DEF memory
  <2>4. TypeOK'
    BY <1>1, <2>1, <2>2, <2>3 DEF PCs
  <2>5. IndexInv'
    BY <1>1, <2>2, <2>3 DEF IndexInv, Begin
  <2> QED BY <2>4, <2>5
<1>2. ASSUME NEW f \in Calls, NEW b \in Addrs, NEW s \in Addrs, NEW nd \in Nids,
             NEW x \in BOOLEAN
      PROVE  RangeCall(f, b, s, nd, x) \in Call
  BY DEF RangeCall, Call, Addrs
<1>3. ASSUME NEW b \in Addrs, NEW s \in Addrs, NEW nd \in Nids, memblock_add(b, s, nd)
      PROVE  TypeInv'
  <2> DEFINE c == RangeCall("add", b, s, nd, FALSE)
  <2>1. c \in Call /\ c.fn = "add"
    BY DEF RangeCall, Call, Calls, Addrs
  <2>2. Begin(c) /\ ret' = 0 /\ removes' = removes
    BY <1>3 DEF memblock_add
  <2> HIDE DEF c
  <2>3. CASE UNCHANGED memory /\ pc' \in {"return", "add"}
    BY <2>1, <2>2, <2>3, <1>1
  <2>4. CASE /\ regions' = [regions EXCEPT ![0] = NewRegion(b, s, "NONE", nd)]
             /\ n' = 1 /\ size' = s /\ pc' = "return"
    <3>1. base' \in Nat /\ end' \in Nat /\ nid' \in Nids
      BY <2>1, <2>2 DEF Begin, Call
    <3>2. call' \in Call /\ i' = 0 /\ start' = -1 /\ stop' = 0
      BY <2>1, <2>2 DEF Begin
    <3>3. NewRegion(b, s, "NONE", nd) \in Region
      BY DEF NewRegion, Region, Flags, Addrs
    <3>4. regions' \in [Slots -> Region]
      BY <2>4, <3>3
    <3> QED BY <2>2, <2>4, <3>1, <3>2, <3>4 DEF PCs, IndexInv, Addrs
  <2> QED BY <1>3, <2>3, <2>4 DEF memblock_add
<1>4. ASSUME NEW b \in Addrs, NEW s \in Addrs, memblock_remove(b, s)
      PROVE  TypeInv'
  <2>1. RangeCall("remove", b, s, NO_NODE, FALSE) \in Call
    BY <1>2 DEF Calls, Nids
  <2>2. removes' \in 0 .. MaxRemoves
    BY <1>4 DEF memblock_remove
  <2> QED BY <2>1, <2>2, <1>1, <1>4 DEF memblock_remove
<1>5. ASSUME NEW b \in Addrs, NEW s \in Addrs, NEW x \in BOOLEAN,
             memblock_setclr_flag(b, s, x)
      PROVE  TypeInv'
  <2>1. RangeCall("setclr", b, s, NO_NODE, x) \in Call
    BY <1>2 DEF Calls, Nids
  <2>2. UNCHANGED memory /\ UNCHANGED removes
    BY <1>5 DEF memblock_setclr_flag
  <2> QED BY <2>1, <2>2, <1>1, <1>5 DEF memblock_setclr_flag
<1>6. ASSUME NEW b \in Addrs, NEW s \in Addrs, NEW nd \in Nodes, memblock_set_node(b, s, nd)
      PROVE  TypeInv'
  <2>1. RangeCall("set_node", b, s, nd, FALSE) \in Call
    BY <1>2 DEF Calls, Nids
  <2>2. UNCHANGED memory /\ UNCHANGED removes
    BY <1>6 DEF memblock_set_node
  <2> QED BY <2>1, <2>2, <1>1, <1>6 DEF memblock_set_node
<1>7. ASSUME NEW s \in Addrs, NEW a \in Aligns, NEW w \in Windows, NEW nd \in Nids,
             NEW exact \in BOOLEAN, memblock_alloc(s, a, w[1], w[2], nd, exact)
      PROVE  TypeInv'
  <2>1. w[1] \in Nat /\ w[2] \in Nat /\ a \in Nat
    OBVIOUS
  <2>2. AllocCall(s, a, w[1], w[2], nd, exact) \in Call
    BY <2>1 DEF AllocCall, Call, Calls, Addrs
  <2>3. UNCHANGED memory /\ UNCHANGED removes
    BY <1>7 DEF memblock_alloc
  <2> QED BY <2>2, <2>3, <1>1, <1>7 DEF memblock_alloc
<1> QED BY <1>3, <1>4, <1>5, <1>6, <1>7 DEF Request, memblock_reserve, memblock_free

\* An iteration of a loop keeps the types and stays inside the array.
LEMMA StepType == ASSUME TypeInv, Step PROVE TypeInv'
<1> USE MemblockAssumption DEF TypeInv, TypeOK, IndexInv
<1>1. ASSUME NEW j \in Live
      PROVE  /\ j \in Slots /\ regions[j] \in Region
             /\ regions[j].base \in Nat /\ regions[j].size \in Nat
             /\ End(regions[j]) \in Nat
  BY DEF Live, Slots, Region, End
<1>2. CASE AddSkip
  BY <1>2 DEF AddSkip, memory
<1>3. CASE AddCovered
  BY <1>3, <1>1 DEF AddCovered, memory, MinOf, Live
<1>4. CASE AddGap
  <2>1. NewRegion(base, regions[i].base - base, "NONE", nid) \in Region
    BY <1>4, <1>1 DEF AddGap, NewRegion, Region, Flags, Live
  <2>2. regions' \in [Slots -> Region]
    BY <1>4, <2>1, InsertedType DEF AddGap, InsertAt, HasRoom
  <2>3. size' \in Int
    BY <1>4, <1>1 DEF AddGap, InsertAt, NewRegion, Live
  <2> QED BY <1>4, <1>1, <2>2, <2>3 DEF AddGap, InsertAt, HasRoom, MinOf, Live
<1>5. CASE AddTail
  <2>1. NewRegion(base, end - base, "NONE", nid) \in Region
    BY <1>5 DEF AddTail, NewRegion, Region, Flags
  <2>2. regions' \in [Slots -> Region]
    BY <1>5, <2>1, InsertedType DEF AddTail, InsertAt, HasRoom
  <2>3. size' \in Int
    BY <1>5 DEF AddTail, InsertAt, NewRegion
  <2> QED BY <1>5, <2>2, <2>3 DEF AddTail, InsertAt, HasRoom, MergeFrom, PCs
<1>6. CASE AddNoTail
  BY <1>6 DEF AddNoTail, memory, MergeFrom, PCs
<1>7. CASE AllocFind
  <2>1. /\ call.size \in Nat /\ call.align \in Nat \ {0} /\ call.lo \in Nat
        /\ call.hi \in Nat /\ nid \in Nids
    BY DEF Call
  <2>2. ret' \in Nat
    BY <1>7, <2>1, FindNat DEF AllocFind
  <2> QED BY <1>7, <2>1, <2>2 DEF AllocFind, memory, PCs
<1>8. CASE AllocRetry
  BY <1>8 DEF AllocRetry, memory, PCs, Nids
<1>9. CASE IsolateEmpty
  BY <1>9 DEF IsolateEmpty, Isolated, memory, PCs
<1>26. CASE IsolateNoSpace
  BY <1>26 DEF IsolateNoSpace, memory, PCs, ENOSPC
<1>27. CASE IsolateStart
  BY <1>27 DEF IsolateStart, memory, PCs
<1>10. CASE IsolateSkip
  BY <1>10 DEF IsolateSkip, memory
<1>11. ASSUME NEW at \in Nat, Split(at), i \in Live, regions[i].base < at, at < End(regions[i])
       PROVE  regions' \in [Slots -> Region] /\ n' = n + 1 /\ n' <= NR_REGIONS /\ size' \in Int
  <2>1. Upper(regions[i], at) \in Region /\ Lower(regions[i], at) \in Region
    BY <1>11, <1>1 DEF Region, Upper, Lower, NewRegion
  <2> DEFINE rs == [regions EXCEPT ![i] = Upper(@, at)]
  <2>2. rs \in [Slots -> Region] /\ i \in Nat
    BY <2>1, <1>1, <1>11 DEF Live
  <2>5. regions' = Inserted(rs, i, Lower(regions[i], at))
    BY <1>11 DEF Split
  <2>6. n \in Nat /\ n < NR_REGIONS
    BY <1>11 DEF Split, HasRoom
  <2> HIDE DEF rs
  <2>3. regions' \in [Slots -> Region]
    BY <2>1, <2>2, <2>5, <2>6, InsertedType
  <2>4. size' \in Int
    BY <1>11, <1>1 DEF Split
  <2> QED BY <1>11, <2>3, <2>4 DEF Split, HasRoom
<1>12. CASE IsolateLow
  BY <1>12, <1>11 DEF IsolateLow, Live
<1>13. CASE IsolateHigh
  BY <1>13, <1>11 DEF IsolateHigh, Live, locals
<1>14. CASE IsolateInside
  BY <1>14 DEF IsolateInside, memory
<1>15. CASE IsolateDone
  BY <1>15 DEF IsolateDone, Isolated, memory, PCs
<1>16. CASE InsertHalt
  <2>1. size' \in Int /\ regions' \in [Slots -> Region]
    <3>1. CASE pc = "add"
      BY <1>16, <3>1 DEF InsertHalt
    <3>2. CASE pc = "isolate"
      <4> DEFINE at == IF regions[i].base < base THEN base ELSE end
      <4>1. i \in Live /\ at \in Nat /\ at < End(regions[i])
        BY <1>16, <3>2 DEF InsertHalt, InsertDue, Live
      <4>2. Upper(regions[i], at) \in Region
        BY <4>1, <1>1 DEF Region, Upper, NewRegion
      <4>3. regions' = [regions EXCEPT ![i] = Upper(@, at)] /\ size' = size - (at - regions[i].base)
        BY <1>16, <3>2 DEF InsertHalt
      <4> QED BY <4>1, <4>2, <4>3, <1>1
    <3> QED BY <1>16, <3>1, <3>2 DEF InsertHalt, InsertDue
  <2> QED BY <1>16, <2>1 DEF InsertHalt, locals, PCs
<1>17. CASE RemoveStep
  <2>1. regions' \in [Slots -> Region]
    BY <1>17, DroppedType DEF RemoveStep
  <2>2. regions'[i].size \in Int
    BY <1>17, <2>1 DEF RemoveStep, Slots, Region
  <2> QED BY <1>17, <2>1, <2>2 DEF RemoveStep
<1>18. CASE RemoveDone
  BY <1>18 DEF RemoveDone, memory, locals, PCs
<1>19. CASE SetStep
  <2>1. i \in Live
    BY <1>19 DEF SetStep, Live
  <2>2. Updated(regions[i], call) \in Region
    BY <2>1, <1>1 DEF Updated, Region, Flags, Call
  <2>3. regions' \in [Slots -> Region]
    BY <1>19, <2>2 DEF SetStep
  <2> QED BY <1>19, <2>1, <2>3 DEF SetStep, Live
<1>20. CASE SetDone
  BY <1>20 DEF SetDone, memory, MergeFrom, PCs
<1>21. CASE MergeKeep
  BY <1>21 DEF MergeKeep, memory
<1>22. CASE MergeJoin
  <2>1. i \in Live /\ i + 1 \in Live
    BY <1>22 DEF MergeJoin, Live
  <2>2. Joined(regions[i], regions[i + 1]) \in Region
    BY <2>1, <1>1 DEF Region, Joined, NewRegion
  <2> DEFINE rs == [regions EXCEPT ![i] = Joined(@, regions[i + 1])]
  <2>3. rs \in [Slots -> Region] /\ i + 1 \in Nat /\ n \in 0 .. NR_REGIONS
    BY <2>1, <2>2, <1>1 DEF Live
  <2>4. regions' = Dropped(rs, i + 1)
    BY <1>22 DEF MergeJoin
  <2> HIDE DEF rs
  <2>5. regions' \in [Slots -> Region]
    BY <2>3, <2>4, DroppedType
  <2>6. /\ pc = "merge" /\ n' = n - 1 /\ stop' = stop - 1 /\ 0 <= i /\ i < stop /\ stop <= n /\ 0 <= start
        /\ UNCHANGED <<size, base, end, i, start, nid, pc, call, ret, removes>>
    BY <1>22 DEF MergeJoin
  <2> QED BY <2>5, <2>6
<1>23. CASE MergeFault
  BY <1>23 DEF MergeFault, memory, locals, PCs
<1>24. CASE MergeDone
  BY <1>24 DEF MergeDone, memory, locals, PCs
<1>25. CASE Return
  BY <1>25 DEF Return, memory, PCs, NoCall, RangeCall, Call, Calls, Nids, NO_NODE
<1> QED BY <1>2, <1>3, <1>4, <1>5, <1>6, <1>7, <1>8, <1>9, <1>10, <1>12, <1>13, <1>14,
           <1>15, <1>16, <1>17, <1>18, <1>19, <1>20, <1>21, <1>22, <1>23, <1>24, <1>25,
           <1>26, <1>27
        DEF Step

\* The types and the index bounds hold in every reachable state.
LEMMA TypeInvariant == Spec => []TypeInv
<1>1. Init => TypeInv
  BY InitType
<1>2. TypeInv /\ [Next]_vars => TypeInv'
  <2> SUFFICES ASSUME TypeInv, [Next]_vars PROVE TypeInv'
    OBVIOUS
  <2>1. CASE Next
    BY <2>1, RequestType, StepType DEF Next
  <2>2. CASE UNCHANGED vars
    BY <2>2 DEF vars, memory, locals, TypeInv, TypeOK, IndexInv
  <2> QED BY <2>1, <2>2
<1> QED BY <1>1, <1>2, PTL DEF Spec

\* Every variable keeps its type: in particular no loop of memblock.c writes,
\* or counts, past the end of regions[].
THEOREM TypeCorrect == Spec => []TypeOK
<1>1. TypeInv => TypeOK
  BY DEF TypeInv
<1> QED BY <1>1, TypeInvariant, PTL

-----------------------------------------------------------------------------
(* Order.  While add_range walks the array, the part of the new range that *)
(* is still to be placed starts behind every entry it has passed; that is  *)
(* what lets it insert in place.                                           *)

AddInv ==
    pc = "add" =>
        /\ base <= end
        /\ base < end => \A j \in Live : j < i => End(regions[j]) <= base

OrderInv == Sorted /\ AddInv

\* What insert_region and the memmove of merge_regions leave in each slot.
LEMMA InsertedAt ==
    ASSUME NEW rs, NEW k \in Nat, NEW r, n \in Nat, n < NR_REGIONS, k <= n
    PROVE  \A j \in 0 .. n :
              /\ j < k => Inserted(rs, k, r)[j] = rs[j]
              /\ j = k => Inserted(rs, k, r)[j] = r
              /\ j > k => Inserted(rs, k, r)[j] = rs[j - 1]
BY MemblockAssumption DEF Inserted, Slots

\* What the memmove of merge_regions and remove_region leaves in each slot.
LEMMA DroppedAt ==
    ASSUME NEW rs, NEW k \in Nat, n \in 0 .. NR_REGIONS, k < n
    PROVE  \A j \in 0 .. n - 2 :
              Dropped(rs, k)[j] = IF j < k THEN rs[j] ELSE rs[j + 1]
BY MemblockAssumption DEF Dropped, Slots

\* Sorted, of any array rs with m live entries.
InOrder(rs, m) ==
    /\ \A j \in 0 .. m - 1 : rs[j].size > 0
    /\ \A j, k \in 0 .. m - 1 : j < k => End(rs[j]) <= rs[k].base

\* Sorted, as a statement about any array and any count of live entries.
LEMMA SortedInOrder == Sorted <=> InOrder(regions, n)
BY DEF Sorted, InOrder, Live

\* The fields of an entry of the array have their types.
LEMMA EntryType ==
    ASSUME NEW rs \in [Slots -> Region], NEW m \in 0 .. NR_REGIONS, NEW j \in 0 .. m - 1
    PROVE  /\ rs[j] \in Region /\ rs[j].base \in Nat /\ rs[j].size \in Nat
           /\ End(rs[j]) \in Nat /\ End(rs[j]) = rs[j].base + rs[j].size
BY MemblockAssumption DEF Slots, Region, End

\* Inserting an entry where it belongs keeps the order.
LEMMA InsertInOrder ==
    ASSUME NEW rs \in [Slots -> Region], NEW k \in Nat, NEW r \in Region,
           n \in Nat, n < NR_REGIONS, k <= n, InOrder(rs, n), r.size > 0,
           \A j \in 0 .. n - 1 : j < k => End(rs[j]) <= r.base,
           \A j \in 0 .. n - 1 : j >= k => End(r) <= rs[j].base
    PROVE  InOrder(Inserted(rs, k, r), n + 1)
<1> DEFINE new == Inserted(rs, k, r)
<1>1. \A j \in 0 .. n : /\ j < k => new[j] = rs[j]
                        /\ j = k => new[j] = r
                        /\ j > k => new[j] = rs[j - 1]
  BY InsertedAt
<1> HIDE DEF new
<1>2. ASSUME NEW j \in 0 .. n PROVE new[j].size > 0
  BY <1>1 DEF InOrder
<1>3. ASSUME NEW j \in 0 .. n, NEW l \in 0 .. n, j < l PROVE End(new[j]) <= new[l].base
  BY <1>1, <1>3 DEF InOrder
<1>4. InOrder(new, n + 1)
  BY <1>2, <1>3 DEF InOrder
<1> QED BY <1>4 DEF new

\* Dropping an entry keeps the order.
LEMMA DropInOrder ==
    ASSUME NEW rs \in [Slots -> Region], NEW k \in Nat, n \in 0 .. NR_REGIONS, k < n,
           InOrder(rs, n)
    PROVE  InOrder(Dropped(rs, k), n - 1)
<1> DEFINE new == Dropped(rs, k)
<1>1. \A j \in 0 .. n - 2 : new[j] = IF j < k THEN rs[j] ELSE rs[j + 1]
  BY DroppedAt
<1> HIDE DEF new
<1>2. ASSUME NEW j \in 0 .. n - 2 PROVE new[j].size > 0
  BY <1>1 DEF InOrder
<1>3. ASSUME NEW j \in 0 .. n - 2, NEW l \in 0 .. n - 2, j < l
      PROVE  End(new[j]) <= new[l].base
  BY <1>1, <1>3 DEF InOrder
<1>4. InOrder(new, n - 1)
  BY <1>2, <1>3 DEF InOrder
<1> QED BY <1>4 DEF new

\* Cutting an entry in two keeps the order.
LEMMA SplitInOrder ==
    ASSUME NEW at \in Nat, TypeOK, i \in Live, InOrder(regions, n),
           regions[i].base < at, at < End(regions[i]), n < NR_REGIONS
    PROVE  InOrder(Inserted([regions EXCEPT ![i] = Upper(@, at)], i, Lower(regions[i], at)),
                   n + 1)
<1> DEFINE r == regions[i]
           rs == [regions EXCEPT ![i] = Upper(@, at)]
<1>1. /\ regions \in [Slots -> Region] /\ n \in 0 .. NR_REGIONS /\ i \in Nat /\ i < n
      /\ r \in Region /\ r.base \in Nat /\ r.size \in Nat /\ End(r) = r.base + r.size
  BY EntryType DEF TypeOK, Live
<1>2. /\ Upper(r, at) \in Region /\ Upper(r, at).base = at /\ Upper(r, at).size > 0
      /\ End(Upper(r, at)) = End(r)
      /\ Lower(r, at) \in Region /\ Lower(r, at).base = r.base /\ Lower(r, at).size > 0
      /\ End(Lower(r, at)) = at
  BY <1>1 DEF Upper, Lower, NewRegion, Region, End
<1>3. /\ rs \in [Slots -> Region] /\ rs[i] = Upper(r, at)
      /\ \A j \in 0 .. n - 1 : j # i => rs[j] = regions[j]
  BY <1>1, <1>2, MemblockAssumption DEF Slots
<1> HIDE DEF r, rs
<1>4. \A j \in 0 .. n - 1 : j < i => End(rs[j]) <= r.base
  BY <1>1, <1>3 DEF InOrder, r
<1>5. \A j \in 0 .. n - 1 : j > i => End(r) <= rs[j].base
  BY <1>1, <1>3 DEF InOrder, r
<1>6. InOrder(rs, n)
  <2>1. ASSUME NEW j \in 0 .. n - 1 PROVE rs[j].size > 0
    BY <1>1, <1>2, <1>3 DEF InOrder
  <2>2. ASSUME NEW j \in 0 .. n - 1, NEW k \in 0 .. n - 1, j < k
        PROVE  End(rs[j]) <= rs[k].base
    <3>1. CASE j = i
      BY <2>2, <3>1, <1>1, <1>2, <1>3, <1>5
    <3>2. CASE k = i
      <4>1. End(rs[j]) \in Nat
        BY <1>1, <1>3, EntryType
      <4> QED BY <2>2, <3>2, <4>1, <1>1, <1>2, <1>3, <1>4 DEF r
    <3>3. CASE j # i /\ k # i
      BY <2>2, <3>3, <1>3 DEF InOrder
    <3> QED BY <3>1, <3>2, <3>3
  <2> QED BY <2>1, <2>2 DEF InOrder
<1>7. \A j \in 0 .. n - 1 : j >= i => End(Lower(r, at)) <= rs[j].base
  <2> SUFFICES ASSUME NEW j \in 0 .. n - 1, j >= i PROVE End(Lower(r, at)) <= rs[j].base
    OBVIOUS
  <2>1. rs[j].base \in Nat
    BY <1>1, <1>3, EntryType
  <2>2. CASE j = i
    BY <2>2, <1>2, <1>3
  <2>3. CASE j > i
    BY <2>1, <2>3, <1>1, <1>2, <1>5 DEF r
  <2>4. j = i \/ j > i
    BY <1>1
  <2> QED BY <2>2, <2>3, <2>4
<1>8. InOrder(Inserted(rs, i, Lower(r, at)), n + 1)
  BY <1>1, <1>2, <1>3, <1>4, <1>6, <1>7, InsertInOrder
<1> QED BY <1>8 DEF r, rs

\* Joining an entry with the one behind it keeps the order.
LEMMA JoinInOrder ==
    ASSUME TypeOK, i \in Nat, i + 1 < n, InOrder(regions, n),
           End(regions[i]) = regions[i + 1].base
    PROVE  InOrder(Dropped([regions EXCEPT ![i] = Joined(@, regions[i + 1])], i + 1), n - 1)
<1> DEFINE r == Joined(regions[i], regions[i + 1])
           rs == [regions EXCEPT ![i] = Joined(@, regions[i + 1])]
           new == Dropped(rs, i + 1)
<1>1. /\ regions \in [Slots -> Region] /\ n \in 0 .. NR_REGIONS
      /\ regions[i] \in Region /\ regions[i].base \in Nat /\ regions[i].size \in Nat
      /\ End(regions[i]) = regions[i].base + regions[i].size
      /\ regions[i + 1].base \in Nat /\ regions[i + 1].size \in Nat
      /\ End(regions[i + 1]) = regions[i + 1].base + regions[i + 1].size
  BY EntryType DEF TypeOK
<1>2. /\ r \in Region /\ r.base = regions[i].base /\ r.size > 0
      /\ End(r) = End(regions[i + 1])
  BY <1>1 DEF Joined, NewRegion, Region, End, InOrder
<1>3. /\ rs \in [Slots -> Region] /\ rs[i] = r
      /\ \A j \in 0 .. n - 1 : j # i => rs[j] = regions[j]
  BY <1>1, <1>2, MemblockAssumption DEF Slots
<1> HIDE DEF r, rs
<1>4. \A j \in 0 .. n - 2 : new[j] = IF j < i + 1 THEN rs[j] ELSE rs[j + 1]
  BY <1>1, <1>3, DroppedAt
<1> HIDE DEF new
<1>5. \A j \in 0 .. n - 2 : new[j] = IF j < i THEN regions[j]
                                     ELSE IF j = i THEN r ELSE regions[j + 1]
  BY <1>1, <1>3, <1>4
<1>6. ASSUME NEW j \in 0 .. n - 2 PROVE new[j].size > 0
  BY <1>1, <1>2, <1>5 DEF InOrder
<1>7. ASSUME NEW j \in 0 .. n - 2, NEW k \in 0 .. n - 2, j < k
      PROVE  End(new[j]) <= new[k].base
  <2>1. \A a, b \in 0 .. n - 1 : a < b => End(regions[a]) <= regions[b].base
    BY DEF InOrder
  <2>2. CASE k < i
    BY <2>1, <2>2, <1>1, <1>5, <1>7
  <2>3. CASE k = i
    BY <2>1, <2>3, <1>1, <1>2, <1>5, <1>7
  <2>4. CASE k > i /\ j = i
    <3>1. End(new[j]) = End(regions[i + 1]) /\ new[k] = regions[k + 1]
      BY <2>4, <1>2, <1>5
    <3>2. i + 1 \in 0 .. n - 1 /\ k + 1 \in 0 .. n - 1 /\ i + 1 < k + 1
      BY <2>4, <1>1
    <3> QED BY <2>1, <3>1, <3>2
  <2>5. CASE k > i /\ j # i
    BY <2>1, <2>5, <1>1, <1>5, <1>7
  <2> QED BY <2>2, <2>3, <2>4, <2>5, <1>1
<1>8. InOrder(new, n - 1)
  BY <1>1, <1>6, <1>7 DEF InOrder
<1> QED BY <1>8 DEF new, rs

\* No call and no iteration of a loop breaks the order.
LEMMA OrderStep == ASSUME TypeInv, OrderInv, Next PROVE OrderInv'
<1>1. /\ InOrder(regions, n) /\ TypeOK /\ IndexInv /\ AddInv
      /\ regions \in [Slots -> Region] /\ n \in 0 .. NR_REGIONS
      /\ base \in Nat /\ end \in Nat /\ i \in Int
  BY SortedInOrder DEF OrderInv, TypeInv, TypeOK
<1>2. ASSUME InOrder(regions', n'), pc' # "add" PROVE OrderInv'
  BY <1>2 DEF OrderInv, AddInv, Sorted, InOrder, Live
<1>3. ASSUME UNCHANGED <<regions, n>>, pc' # "add" PROVE OrderInv'
  BY <1>1, <1>2, <1>3
<1>4. ASSUME NEW j \in Live
      PROVE  /\ regions[j].base \in Nat /\ regions[j].size \in Nat /\ regions[j].size > 0
             /\ End(regions[j]) \in Nat /\ regions[j].base < End(regions[j])
             /\ \A k \in Live : j < k => End(regions[j]) <= regions[k].base
  BY <1>1, EntryType DEF InOrder, Live
<1>5. CASE Request
  <2>1. ASSUME NEW b \in Addrs, NEW s \in Addrs, NEW nd \in Nids, memblock_add(b, s, nd)
        PROVE  OrderInv'
    <3>1. CASE UNCHANGED memory
      BY <3>1, <2>1, <1>1 DEF memory, memblock_add, Begin, RangeCall, OrderInv, AddInv,
         Sorted, InOrder, Live, Addrs
    <3>2. CASE /\ regions' = [regions EXCEPT ![0] = NewRegion(b, s, "NONE", nd)]
               /\ n' = 1 /\ s > 0 /\ pc' = "return"
      <4>1. regions'[0].size = s
        BY <3>2, <1>1, MemblockAssumption DEF NewRegion, Slots
      <4>2. InOrder(regions', n')
        BY <3>2, <4>1 DEF InOrder
      <4> QED BY <3>2, <4>2, <1>2
    <3> QED BY <2>1, <3>1, <3>2 DEF memblock_add
  <2>2. CASE UNCHANGED memory /\ pc' \in {"entry", "find"}
    BY <2>2, <1>3 DEF memory
  <2> QED BY <1>5, <2>1, <2>2 DEF Request, memblock_remove, memblock_reserve,
             memblock_free, memblock_setclr_flag, memblock_set_node, memblock_alloc
<1>6. CASE AddSkip
  BY <1>6, <1>1, <1>4 DEF AddSkip, memory, OrderInv, AddInv, Sorted, Live, InOrder
<1>7. CASE AddCovered
  BY <1>7, <1>1, <1>4 DEF AddCovered, memory, OrderInv, AddInv, Sorted, Live, InOrder, MinOf,
     IndexInv
<1>8. CASE AddGap
  <2> DEFINE r == NewRegion(base, regions[i].base - base, "NONE", nid)
  <2>1. /\ i \in Live /\ i \in Nat /\ i < n /\ n < NR_REGIONS
        /\ base < regions[i].base /\ regions[i].base < end /\ nid \in Nids
        /\ base' = MinOf(End(regions[i]), end) /\ i' = i + 1 /\ n' = n + 1 /\ pc' = pc
        /\ pc = "add" /\ end' = end /\ regions' = Inserted(regions, i, r)
    BY <1>8, <1>1, MemblockAssumption DEF AddGap, InsertAt, HasRoom, IndexInv, Live, TypeOK
  <2>2. r \in Region /\ r.size > 0 /\ r.base = base /\ End(r) = regions[i].base
    BY <2>1, <1>1, <1>4 DEF NewRegion, Region, Flags, End
  <2>3. \A j \in 0 .. n - 1 : j < i => End(regions[j]) <= r.base
    BY <2>1, <2>2, <1>1, <1>4 DEF AddInv, Live
  <2>4. \A j \in 0 .. n - 1 : j >= i => End(r) <= regions[j].base
    <3> SUFFICES ASSUME NEW j \in 0 .. n - 1, j >= i PROVE End(r) <= regions[j].base
      OBVIOUS
    <3>1. CASE j = i
      BY <3>1, <2>1, <2>2, <1>4
    <3>2. CASE i < j
      BY <3>2, <2>1, <2>2, <1>4 DEF Live
    <3> QED BY <2>1, <3>1, <3>2
  <2>5. InOrder(regions', n')
    BY <2>1, <2>2, <2>3, <2>4, <1>1, InsertInOrder
  <2>6. base' \in Nat /\ base' <= end /\ regions[i].base < base'
    BY <2>1, <1>1, <1>4 DEF MinOf
  <2>7. \A j \in 0 .. n : j < i + 1 => End(regions'[j]) <= base'
    <3> SUFFICES ASSUME NEW j \in 0 .. n, j < i + 1 PROVE End(regions'[j]) <= base'
      OBVIOUS
    <3>1. CASE j = i
      <4>1. regions'[j] = r
        BY <3>1, <2>1, <1>1, InsertedAt
      <4> QED BY <4>1, <2>1, <2>2, <2>6, <1>4
    <3>2. CASE j < i
      <4>1. regions'[j] = regions[j] /\ j \in Live
        BY <3>2, <2>1, <1>1, InsertedAt DEF Live
      <4> QED BY <4>1, <3>2, <2>1, <2>6, <1>4
    <3> QED BY <2>1, <3>1, <3>2
  <2>8. AddInv'
    BY <2>1, <2>6, <2>7, <1>1 DEF AddInv, Live
  <2> QED BY <2>5, <2>8 DEF OrderInv, Sorted, InOrder, Live
<1>9. CASE AddTail
  <2> DEFINE r == NewRegion(base, end - base, "NONE", nid)
  <2>1. /\ i \in Nat /\ i <= n /\ n < NR_REGIONS /\ n \in Nat /\ base < end /\ nid \in Nids
        /\ n' = n + 1 /\ pc' = "merge" /\ pc = "add" /\ regions' = Inserted(regions, i, r)
        /\ i < n => end <= regions[i].base
    BY <1>9, <1>1, MemblockAssumption DEF AddTail, InsertAt, HasRoom, IndexInv, TypeOK, LoopOver
  <2>2. r \in Region /\ r.size > 0 /\ r.base = base /\ End(r) = end
    BY <2>1, <1>1 DEF NewRegion, Region, Flags, End
  <2>3. \A j \in 0 .. n - 1 : j < i => End(regions[j]) <= r.base
    BY <2>1, <2>2, <1>1 DEF AddInv, Live
  <2>4. \A j \in 0 .. n - 1 : j >= i => End(r) <= regions[j].base
    <3> SUFFICES ASSUME NEW j \in 0 .. n - 1, j >= i PROVE End(r) <= regions[j].base
      OBVIOUS
    <3>1. CASE j = i
      BY <3>1, <2>1, <2>2
    <3>2. CASE i < j
      BY <3>2, <2>1, <2>2, <1>1, <1>4 DEF Live
    <3> QED BY <2>1, <3>1, <3>2
  <2>5. InOrder(regions', n')
    BY <2>1, <2>2, <2>3, <2>4, <1>1, InsertInOrder
  <2> QED BY <2>1, <2>5, <1>2
<1>10. CASE \/ AddNoTail \/ AllocFind \/ AllocRetry \/ IsolateEmpty \/ IsolateNoSpace
            \/ IsolateStart \/ IsolateSkip \/ IsolateInside \/ IsolateDone \/ RemoveDone
            \/ SetDone \/ MergeKeep \/ MergeFault \/ MergeDone \/ Return
  <2>1. UNCHANGED <<regions, n>> /\ pc' # "add"
    BY <1>10 DEF AddNoTail, AllocFind, AllocRetry, IsolateEmpty, IsolateNoSpace, Isolated,
       IsolateStart, IsolateSkip, IsolateInside, IsolateDone, RemoveDone, SetDone, MergeKeep,
       MergeFault, MergeDone, Return, memory
  <2> QED BY <2>1, <1>3
<1>11. ASSUME NEW at \in Nat, Split(at), i \in Live, regions[i].base < at,
              at < End(regions[i]), pc' # "add"
       PROVE  OrderInv'
  <2>1. n < NR_REGIONS
    BY <1>11, <1>1, MemblockAssumption DEF Split, HasRoom
  <2>2. InOrder(regions', n')
    BY <2>1, <1>11, <1>1, SplitInOrder DEF Split
  <2> QED BY <2>2, <1>11, <1>2
<1>12. CASE IsolateLow
  BY <1>12, <1>11, <1>1 DEF IsolateLow, IndexInv, Live
<1>13. CASE IsolateHigh
  BY <1>13, <1>11, <1>1 DEF IsolateHigh, IndexInv, Live
<1>14. CASE InsertHalt
  <2>1. CASE pc = "add"
    BY <2>1, <1>14, <1>3 DEF InsertHalt
  <2>2. CASE pc = "isolate"
    <3> DEFINE at == IF regions[i].base < base THEN base ELSE end
    <3>1. i \in Live /\ at \in Nat /\ regions[i].base < at /\ at < End(regions[i])
      BY <2>2, <1>14, <1>1 DEF InsertHalt, InsertDue, IndexInv, Live
    <3>2. regions' = [regions EXCEPT ![i] = Upper(@, at)] /\ n' = n /\ pc' = "halt"
      BY <2>2, <1>14 DEF InsertHalt
    <3> HIDE DEF at
    <3>3. /\ i \in Slots /\ regions'[i] = Upper(regions[i], at)
          /\ \A j \in Live : j # i => regions'[j] = regions[j]
      BY <3>1, <3>2, <1>1, MemblockAssumption DEF Live, Slots
    <3>4. /\ Upper(regions[i], at).size > 0 /\ Upper(regions[i], at).base = at
          /\ End(Upper(regions[i], at)) = End(regions[i])
      BY <3>1, <1>4 DEF Upper, NewRegion, End
    <3>5. ASSUME NEW j \in Live, NEW k \in Live, j < k
          PROVE  End(regions'[j]) <= regions'[k].base
      BY <3>1, <3>3, <3>4, <3>5, <1>4
    <3>6. InOrder(regions', n')
      BY <3>2, <3>3, <3>4, <3>5, <1>4 DEF InOrder, Live
    <3> QED BY <3>2, <3>6, <1>2
  <2> QED BY <2>1, <2>2, <1>14 DEF InsertHalt, InsertDue
<1>15. CASE RemoveStep
  <2>1. i \in Nat /\ i < n /\ regions' = Dropped(regions, i) /\ n' = n - 1 /\ pc' # "add"
    BY <1>15, <1>1, MemblockAssumption DEF RemoveStep, IndexInv, TypeOK
  <2>2. InOrder(regions', n')
    BY <2>1, <1>1, DropInOrder
  <2> QED BY <2>1, <2>2, <1>2
<1>16. CASE SetStep
  <2>1. i \in Live /\ n' = n /\ pc' # "add"
        /\ regions' = [regions EXCEPT ![i] = Updated(regions[i], call)]
    BY <1>16, <1>1 DEF SetStep, IndexInv, Live, TypeOK
  <2>2. Updated(regions[i], call).base = regions[i].base
        /\ Updated(regions[i], call).size = regions[i].size
    BY <2>1, <1>1, EntryType DEF Updated, Region, Live
  <2>3. \A j \in Live : /\ regions'[j].base = regions[j].base
                        /\ regions'[j].size = regions[j].size
    BY <2>1, <2>2, <1>1 DEF Live, Slots
  <2>4. InOrder(regions', n')
    BY <2>1, <2>3, <1>1 DEF InOrder, Live, End
  <2> QED BY <2>1, <2>4, <1>2
<1>17. CASE MergeJoin
  <2>1. /\ i \in Nat /\ i + 1 < n /\ n' = n - 1 /\ pc' # "add"
        /\ End(regions[i]) = regions[i + 1].base
        /\ regions' = Dropped([regions EXCEPT ![i] = Joined(@, regions[i + 1])], i + 1)
    BY <1>17, <1>1 DEF MergeJoin, IndexInv, Mergeable
  <2>2. InOrder(regions', n')
    BY <2>1, <1>1, JoinInOrder
  <2> QED BY <2>1, <2>2, <1>2
<1> QED BY <1>5, <1>6, <1>7, <1>8, <1>9, <1>10, <1>12, <1>13, <1>14, <1>15, <1>16, <1>17
        DEF Next, Step

\* The order, and the loop invariant it rests on, hold in every state.
LEMMA OrderInvariant == Spec => []OrderInv
<1>1. Init => OrderInv
  BY DEF Init, OrderInv, AddInv, Sorted, Live
<1>2. TypeInv /\ OrderInv /\ [Next]_vars => OrderInv'
  <2> SUFFICES ASSUME TypeInv, OrderInv, [Next]_vars PROVE OrderInv'
    OBVIOUS
  <2>1. CASE UNCHANGED vars
    BY <2>1 DEF vars, memory, locals, OrderInv, AddInv, Sorted, Live
  <2> QED BY <2>1, OrderStep
<1> QED BY <1>1, <1>2, TypeInvariant, PTL DEF Spec

\* The live entries stay sorted, disjoint and non-empty inside every loop of
\* memblock.c, for any array size and any sequence of calls.
THEOREM SortedAlways == Spec => []Sorted
<1>1. OrderInv => Sorted
  BY DEF OrderInv
<1> QED BY <1>1, OrderInvariant, PTL

-----------------------------------------------------------------------------
(* Room.  A boundary of the isolated range lies inside at most one entry,  *)
(* and once that entry is cut it lies inside none; so of the two entries   *)
(* asked for up front, one is left as long as one boundary is still to be  *)
(* cut.                                                                    *)

Crosses(a) == \E j \in Live : regions[j].base < a /\ a < End(regions[j])

RoomInv ==
    /\ pc = "isolate" => /\ Crosses(base) \/ Crosses(end) => n + 1 <= NR_REGIONS
                         /\ Crosses(base) /\ Crosses(end) => n + 2 <= NR_REGIONS
    /\ IsolateHasRoom

\* What a cut of isolate_range leaves in each slot.
LEMMA SplitAt ==
    ASSUME NEW at \in Nat, TypeOK, i \in Live, n < NR_REGIONS
    PROVE  LET new == Inserted([regions EXCEPT ![i] = Upper(@, at)], i, Lower(regions[i], at))
           IN  \A j \in 0 .. n :
                 new[j] = IF j < i THEN regions[j]
                          ELSE IF j = i THEN Lower(regions[i], at)
                          ELSE IF j = i + 1 THEN Upper(regions[i], at) ELSE regions[j - 1]
<1> DEFINE rs == [regions EXCEPT ![i] = Upper(@, at)]
           lower == Lower(regions[i], at)
<1>1. n \in Nat /\ i \in Nat /\ i <= n
  BY DEF TypeOK, Live
<1>2. rs[i] = Upper(regions[i], at) /\ \A j \in Live : j # i => rs[j] = regions[j]
  BY MemblockAssumption DEF TypeOK, Live, Slots
<1> HIDE DEF rs, lower
<1>3. \A j \in 0 .. n : /\ j < i => Inserted(rs, i, lower)[j] = rs[j]
                        /\ j = i => Inserted(rs, i, lower)[j] = lower
                        /\ j > i => Inserted(rs, i, lower)[j] = rs[j - 1]
  BY <1>1, MemblockAssumption DEF Inserted, Slots
<1>4. \A j \in 0 .. n :
        Inserted(rs, i, lower)[j]
          = IF j < i THEN regions[j]
            ELSE IF j = i THEN lower
            ELSE IF j = i + 1 THEN Upper(regions[i], at) ELSE regions[j - 1]
  BY <1>1, <1>2, <1>3 DEF Live
<1> QED BY <1>4 DEF rs, lower

\* A cut adds no crossing, and removes the one at the cut.
LEMMA SplitCrosses ==
    ASSUME NEW at \in Nat, TypeOK, Sorted, Split(at), i \in Live,
           regions[i].base < at, at < End(regions[i]),
           NEW a \in Nat, \E j \in 0 .. n : regions'[j].base < a /\ a < End(regions'[j])
    PROVE  Crosses(a) /\ a # at
<1>1. n \in Nat /\ n < NR_REGIONS /\ i \in Nat
  BY MemblockAssumption DEF TypeOK, Split, HasRoom, Live
<1>2. PICK j \in 0 .. n : regions'[j].base < a /\ a < End(regions'[j])
  OBVIOUS
<1>3. regions'[j] = IF j < i THEN regions[j]
                    ELSE IF j = i THEN Lower(regions[i], at)
                    ELSE IF j = i + 1 THEN Upper(regions[i], at) ELSE regions[j - 1]
  BY <1>1, SplitAt DEF Split
<1>4. \A k \in Live : /\ regions[k].base \in Nat /\ regions[k].size \in Nat
                      /\ End(regions[k]) = regions[k].base + regions[k].size
  BY EntryType DEF TypeOK, Live
<1>5. /\ Lower(regions[i], at).base = regions[i].base /\ End(Lower(regions[i], at)) = at
      /\ Upper(regions[i], at).base = at /\ End(Upper(regions[i], at)) = End(regions[i])
  BY <1>4 DEF Lower, Upper, NewRegion, End
<1>6. CASE j = i
  BY <1>1, <1>2, <1>3, <1>4, <1>5, <1>6 DEF Crosses
<1>7. CASE j = i + 1
  BY <1>1, <1>2, <1>3, <1>4, <1>5, <1>7 DEF Crosses
<1>8. CASE j < i
  <2>1. j \in Live /\ regions'[j] = regions[j] /\ End(regions[j]) <= regions[i].base
    BY <1>1, <1>3, <1>8 DEF Live, Sorted
  <2> QED BY <2>1, <1>2, <1>4 DEF Crosses
<1>9. CASE j > i + 1
  <2>1. j - 1 \in Live /\ regions'[j] = regions[j - 1] /\ End(regions[i]) <= regions[j - 1].base
    BY <1>1, <1>3, <1>9 DEF Live, Sorted
  <2> QED BY <2>1, <1>2, <1>4 DEF Crosses
<1> QED BY <1>1, <1>6, <1>7, <1>8, <1>9

\* No step uses up the room that a later cut needs.
LEMMA RoomStep == ASSUME TypeInv, OrderInv, RoomInv, Next PROVE RoomInv'
<1>1. /\ TypeOK /\ IndexInv /\ Sorted /\ n \in Nat /\ NR_REGIONS \in Nat
      /\ base \in Nat /\ end \in Nat /\ i \in Int
  BY MemblockAssumption DEF TypeInv, OrderInv, TypeOK
<1>2. CASE IsolateStart
  BY <1>2, <1>1 DEF IsolateStart, memory, RoomInv, IsolateHasRoom
<1>3. CASE IsolateSkip \/ IsolateInside
  BY <1>3 DEF IsolateSkip, IsolateInside, memory, RoomInv, IsolateHasRoom, Crosses, Live
<1>4. CASE IsolateLow
  <2>1. /\ pc = "isolate" /\ pc' = pc /\ base' = base /\ end' = end /\ n' = n + 1
        /\ Split(base) /\ i \in Live /\ regions[i].base < base /\ base < End(regions[i])
    BY <1>4, <1>1 DEF IsolateLow, Split, IndexInv, Live
  <2>2. Crosses(base)
    BY <2>1 DEF Crosses
  <2>3. ASSUME NEW a \in Nat, Crosses(a)' PROVE Crosses(a) /\ a # base
    <3>1. \E j \in 0 .. n : regions'[j].base < a /\ a < End(regions'[j])
      BY <2>1, <2>3, <1>1 DEF Crosses, Live
    <3> QED BY <3>1, <2>1, <1>1, SplitCrosses
  <2>4. ~Crosses(base)' /\ (Crosses(end)' => Crosses(end))
    BY <2>1, <2>3, <1>1
  <2> QED BY <2>1, <2>2, <2>4, <1>1 DEF RoomInv, IsolateHasRoom, Crosses
<1>5. CASE IsolateHigh
  <2>1. /\ pc = "isolate" /\ pc' = pc /\ base' = base /\ end' = end /\ n' = n + 1
        /\ Split(end) /\ i \in Live /\ regions[i].base < end /\ end < End(regions[i])
    BY <1>5, <1>1 DEF IsolateHigh, Split, IndexInv, Live, locals
  <2>2. Crosses(end)
    BY <2>1 DEF Crosses
  <2>3. ASSUME NEW a \in Nat, Crosses(a)' PROVE Crosses(a) /\ a # end
    <3>1. \E j \in 0 .. n : regions'[j].base < a /\ a < End(regions'[j])
      BY <2>1, <2>3, <1>1 DEF Crosses, Live
    <3> QED BY <3>1, <2>1, <1>1, SplitCrosses
  <2>4. ~Crosses(end)' /\ (Crosses(base)' => Crosses(base))
    BY <2>1, <2>3, <1>1
  <2> QED BY <2>1, <2>2, <2>4, <1>1 DEF RoomInv, IsolateHasRoom, Crosses
<1>6. CASE InsertHalt
  <2>1. CASE pc = "add"
    BY <2>1, <1>6, <1>1 DEF InsertHalt, IndexInv, RoomInv, IsolateHasRoom
  <2>2. CASE pc = "isolate"
    <3>1. /\ i \in Live /\ regions[i].base < end /\ base < End(regions[i])
          /\ regions[i].base < base \/ end < End(regions[i])
      BY <2>2, <1>6, <1>1 DEF InsertHalt, InsertDue, IndexInv, Live
    <3>2. Crosses(base) \/ Crosses(end)
      BY <3>1 DEF Crosses
    <3>3. ~(n + 1 <= NR_REGIONS)
      BY <1>6 DEF InsertHalt, HasRoom
    <3> QED BY <2>2, <3>2, <3>3 DEF RoomInv
  <2> QED BY <2>1, <2>2, <1>6 DEF InsertHalt, InsertDue
<1>7. ASSUME pc' \notin {"isolate", "halt"} PROVE RoomInv'
  BY <1>7 DEF RoomInv, IsolateHasRoom
<1>8. CASE Request
  BY <1>7, <1>8 DEF Request, memblock_add, memblock_remove, memblock_reserve,
     memblock_free, memblock_setclr_flag, memblock_set_node, memblock_alloc
<1>9. CASE \/ AddSkip \/ AddCovered \/ AddGap \/ AddTail \/ AddNoTail \/ AllocFind
           \/ AllocRetry \/ IsolateEmpty \/ IsolateNoSpace \/ IsolateDone \/ RemoveStep
           \/ RemoveDone \/ SetStep \/ SetDone \/ MergeKeep \/ MergeJoin \/ MergeFault
           \/ MergeDone \/ Return
  BY <1>7, <1>9 DEF AddSkip, AddCovered, AddGap, AddTail, AddNoTail, AllocFind, AllocRetry,
     IsolateEmpty, IsolateNoSpace, IsolateDone, Isolated, RemoveStep, RemoveDone, SetStep,
     SetDone, MergeKeep, MergeJoin, MergeFault, MergeDone, Return
<1> QED BY <1>2, <1>3, <1>4, <1>5, <1>6, <1>8, <1>9 DEF Next, Step

\* No step uses up the room isolate_range asked for.
LEMMA RoomInvariant == Spec => []RoomInv
<1>1. Init => RoomInv
  BY DEF Init, RoomInv, IsolateHasRoom
<1>2. TypeInv /\ OrderInv /\ RoomInv /\ [Next]_vars => RoomInv'
  <2> SUFFICES ASSUME TypeInv, OrderInv, RoomInv, [Next]_vars PROVE RoomInv'
    OBVIOUS
  <2>1. CASE UNCHANGED vars
    BY <2>1 DEF vars, memory, locals, RoomInv, IsolateHasRoom, Crosses, Live
  <2> QED BY <2>1, RoomStep
<1> QED BY <1>1, <1>2, TypeInvariant, OrderInvariant, PTL DEF Spec

\* Whatever regions a range cuts, memblock_reserve, memblock_free,
\* memblock_set_node, memblock_remove and memblock_alloc never stop the kernel
\* in the assertion of insert_region: the check for two spare entries at the
\* top of isolate_range is enough.
THEOREM IsolateNeverHalts == Spec => []IsolateHasRoom
<1>1. RoomInv => IsolateHasRoom
  BY DEF RoomInv
<1> QED BY <1>1, RoomInvariant, PTL

-----------------------------------------------------------------------------
(* The entry one past the end.  merge_regions compares the last entry with *)
(* it.  As long as nothing is removed from the array, every slot past the  *)
(* end holds a copy of an entry that still begins inside covered memory,   *)
(* so the comparison fails.                                                *)

StaleInv ==
    /\ call.fn # "remove" /\ pc # "remove"
    /\ pc = "add" => n > 0
    /\ n = 0 => \A j \in Slots : regions[j].base = 0
    /\ n > 0 => \A j \in Slots : j >= n => regions[j].base < End(regions[n - 1])
    /\ NoFault

\* insert_region leaves the slots behind the new last entry alone.
LEMMA InsertedPast ==
    ASSUME NEW rs, NEW k \in Nat, NEW r, n \in Nat
    PROVE  \A j \in Slots : j > n => Inserted(rs, k, r)[j] = rs[j]
BY DEF Inserted

\* Dropping an entry leaves the slots from the last entry on alone.
LEMMA DroppedPast ==
    ASSUME NEW rs, NEW k \in Nat, n \in 0 .. NR_REGIONS, k < n
    PROVE  \A j \in Slots : j >= n - 1 => Dropped(rs, k)[j] = rs[j]
BY DEF Dropped, Slots

\* Without memblock_remove, no step leaves a misleading entry past the end.
LEMMA StaleStep ==
    ASSUME TypeInv, OrderInv, StaleInv, Next, MaxRemoves = 0, ~BeyondMayMatch
    PROVE  StaleInv'
<1>1. /\ TypeOK /\ IndexInv /\ Sorted /\ AddInv /\ n \in Nat /\ NR_REGIONS \in Nat
      /\ n <= NR_REGIONS /\ base \in Nat /\ end \in Nat /\ i \in Int
      /\ regions \in [Slots -> Region]
  BY MemblockAssumption DEF TypeInv, OrderInv, TypeOK
<1>2. \A j \in Slots : /\ regions[j].base \in Nat /\ regions[j].size \in Nat
                       /\ End(regions[j]) = regions[j].base + regions[j].size
  BY <1>1 DEF Region, End
<1>3. ASSUME UNCHANGED <<regions, n, call>>, pc' \notin {"remove", "add", "fault"}
      PROVE  StaleInv'
  BY <1>3 DEF StaleInv, NoFault
<1>4. ASSUME n' > 0, call' = call, pc' \notin {"remove", "fault"},
             \A j \in Slots : j >= n' => regions'[j].base < End(regions'[n' - 1])
      PROVE  StaleInv'
  BY <1>4, <1>1 DEF StaleInv, NoFault
<1>5. CASE Request
  <2>1. ASSUME NEW b \in Addrs, NEW s \in Addrs, NEW nd \in Nids, memblock_add(b, s, nd)
        PROVE  StaleInv'
    <3>1. call'.fn # "remove" /\ pc' \in {"return", "add"}
      BY <2>1 DEF memblock_add, Begin, RangeCall
    <3>2. CASE UNCHANGED memory /\ (pc' = "add" => n > 0)
      BY <3>1, <3>2 DEF memory, StaleInv, NoFault
    <3>3. CASE /\ regions' = [regions EXCEPT ![0] = NewRegion(b, s, "NONE", nd)]
               /\ n = 0 /\ n' = 1 /\ s > 0 /\ pc' = "return"
      <4>1. regions'[0] = NewRegion(b, s, "NONE", nd)
            /\ \A j \in Slots : j >= 1 => regions'[j].base = 0
        BY <3>3, <1>1, MemblockAssumption DEF Slots, StaleInv
      <4>2. End(regions'[0]) > 0
        BY <3>3, <4>1 DEF End, NewRegion, Addrs
      <4> QED BY <3>1, <3>3, <4>1, <4>2 DEF StaleInv, NoFault
    <3> QED BY <2>1, <3>2, <3>3, <1>1 DEF memblock_add
  <2>2. ASSUME NEW b \in Addrs, NEW s \in Addrs PROVE ~memblock_remove(b, s)
    BY <1>1 DEF memblock_remove, TypeOK
  <2>3. CASE UNCHANGED memory /\ pc' \in {"entry", "find"} /\ call'.fn # "remove"
    BY <2>3 DEF memory, StaleInv, NoFault
  <2> QED BY <1>5, <2>1, <2>2, <2>3 DEF Request, memblock_reserve, memblock_free, Begin,
             memblock_setclr_flag, memblock_set_node, memblock_alloc, RangeCall, AllocCall
<1>6. CASE AddSkip \/ AddCovered
  BY <1>6 DEF AddSkip, AddCovered, memory, StaleInv, NoFault
<1>7. CASE \/ AddNoTail \/ AllocFind \/ AllocRetry \/ IsolateEmpty \/ IsolateNoSpace
           \/ IsolateStart \/ IsolateSkip \/ IsolateInside \/ IsolateDone
           \/ SetDone \/ MergeKeep \/ MergeDone
  <2>1. UNCHANGED <<regions, n, call>> /\ pc' \notin {"remove", "add", "fault"}
    BY <1>7 DEF AddNoTail, AllocFind, AllocRetry, IsolateEmpty, IsolateNoSpace, Isolated,
       IsolateStart, IsolateSkip, IsolateInside, IsolateDone, SetDone, MergeKeep,
       MergeDone, memory, StaleInv
  <2> QED BY <2>1, <1>3
<1>8. CASE RemoveStep \/ RemoveDone
  BY <1>8 DEF RemoveStep, RemoveDone, StaleInv
<1>9. CASE Return
  BY <1>9 DEF Return, memory, NoCall, RangeCall, StaleInv, NoFault
<1>10. CASE AddGap
  <2> DEFINE r == NewRegion(base, regions[i].base - base, "NONE", nid)
  <2>1. /\ i \in Nat /\ i < n /\ n < NR_REGIONS /\ n' = n + 1 /\ pc' = "add" /\ call' = call
        /\ regions' = Inserted(regions, i, r)
    BY <1>10, <1>1 DEF AddGap, InsertAt, HasRoom, IndexInv
  <2> HIDE DEF r
  <2>2. regions'[n] = regions[n - 1] /\ \A j \in Slots : j > n => regions'[j] = regions[j]
    BY <2>1, <1>1, InsertedAt, InsertedPast
  <2>3. n' - 1 = n /\ \A j \in Slots : j >= n' => j > n /\ j >= n
    BY <2>1, <1>1 DEF Slots
  <2>4. \A j \in Slots : j >= n => regions[j].base < End(regions[n - 1])
    BY <2>1, <1>1 DEF StaleInv
  <2>5. \A j \in Slots : j >= n' => regions'[j].base < End(regions'[n' - 1])
    BY <2>2, <2>3, <2>4
  <2> QED BY <2>1, <2>5, <1>1, <1>4
<1>11. CASE AddTail
  <2> DEFINE r == NewRegion(base, end - base, "NONE", nid)
  <2>1. /\ i \in Nat /\ i <= n /\ n < NR_REGIONS /\ n' = n + 1 /\ pc' = "merge" /\ call' = call
        /\ regions' = Inserted(regions, i, r) /\ n > 0 /\ base < end /\ pc = "add"
    BY <1>11, <1>1 DEF AddTail, InsertAt, HasRoom, IndexInv, StaleInv
  <2>2. End(r) = end
    BY <2>1, <1>1 DEF NewRegion, End
  <2> HIDE DEF r
  <2>3. /\ \A j \in Slots : j > n => regions'[j] = regions[j]
        /\ regions'[n] = IF i = n THEN r ELSE regions[n - 1]
    BY <2>1, <1>1, InsertedAt, InsertedPast
  <2>4. n - 1 \in Slots /\ (i = n => End(regions[n - 1]) <= base)
    BY <2>1, <1>1 DEF AddInv, Live, Slots
  <2>5. \A j \in Slots : j > n => regions[j].base < End(regions[n - 1])
    BY <2>1, <1>1 DEF StaleInv, Slots
  <2>6. ASSUME NEW j \in Slots, j >= n' PROVE regions'[j].base < End(regions'[n' - 1])
    <3>1. j > n /\ n' - 1 = n
      BY <2>1, <2>6, <1>1 DEF Slots
    <3>2. regions'[j].base < End(regions[n - 1]) /\ regions'[j].base \in Nat
          /\ End(regions[n - 1]) \in Nat
      BY <3>1, <2>3, <2>4, <2>5, <1>2
    <3>3. CASE i = n
      BY <3>1, <3>2, <3>3, <2>1, <2>2, <2>3, <2>4, <1>1
    <3>4. CASE i # n
      BY <3>1, <3>2, <3>4, <2>3
    <3> QED BY <3>3, <3>4
  <2> QED BY <2>1, <2>6, <1>1, <1>4
<1>12. ASSUME NEW at \in Nat, Split(at), i \in Live, regions[i].base < at,
              at < End(regions[i]), pc' \notin {"remove", "fault"}, call' = call
       PROVE  StaleInv'
  <2>1. /\ n < NR_REGIONS /\ n' = n + 1 /\ i \in Nat /\ i < n
        /\ regions' = Inserted([regions EXCEPT ![i] = Upper(@, at)], i, Lower(regions[i], at))
    BY <1>12, <1>1 DEF Split, HasRoom, Live
  <2>7. \A j \in 0 .. n :
          regions'[j] = IF j < i THEN regions[j]
                        ELSE IF j = i THEN Lower(regions[i], at)
                        ELSE IF j = i + 1 THEN Upper(regions[i], at) ELSE regions[j - 1]
    BY <2>1, <1>1, <1>12, SplitAt
  <2>2. regions'[n] = IF n = i + 1 THEN Upper(regions[i], at) ELSE regions[n - 1]
    <3>1. n \in 0 .. n /\ ~(n < i) /\ n # i
      BY <2>1, <1>1
    <3> QED BY <3>1, <2>7
  <2>3. End(Upper(regions[i], at)) = End(regions[i])
    BY <2>1, <1>1, <1>2, <1>12 DEF Upper, NewRegion, End, Slots
  <2>4. End(regions'[n]) = End(regions[n - 1])
    BY <2>1, <2>2, <2>3, <1>1
  <2>5. \A j \in Slots : j > n => regions'[j] = regions[j]
    BY <2>1, <1>1 DEF Inserted, Slots
  <2>8. n' - 1 = n /\ n' > 0 /\ \A j \in Slots : j >= n' => j > n /\ j >= n
    BY <2>1, <1>1 DEF Slots
  <2>9. \A j \in Slots : j >= n => regions[j].base < End(regions[n - 1])
    BY <2>1, <1>1 DEF StaleInv
  <2>6. \A j \in Slots : j >= n' => regions'[j].base < End(regions'[n' - 1])
    BY <2>4, <2>5, <2>8, <2>9
  <2> QED BY <2>6, <2>8, <1>4, <1>12
<1>13. CASE IsolateLow
  BY <1>13, <1>12, <1>1 DEF IsolateLow, IndexInv, Live
<1>14. CASE IsolateHigh
  BY <1>14, <1>12, <1>1 DEF IsolateHigh, IndexInv, Live
<1>15. CASE InsertHalt
  <2>1. CASE pc = "add"
    BY <2>1, <1>15, <1>3 DEF InsertHalt
  <2>2. CASE pc = "isolate"
    <3> DEFINE at == IF regions[i].base < base THEN base ELSE end
    <3>1. /\ i \in Nat /\ i < n /\ at \in Nat /\ regions[i].base < at /\ at < End(regions[i])
      BY <2>2, <1>15, <1>1 DEF InsertHalt, InsertDue, IndexInv
    <3>2. regions' = [regions EXCEPT ![i] = Upper(@, at)] /\ n' = n /\ pc' = "halt" /\ call' = call
      BY <2>2, <1>15 DEF InsertHalt
    <3> HIDE DEF at
    <3>3. End(Upper(regions[i], at)) = End(regions[i])
      BY <3>1, <1>1, <1>2 DEF Upper, NewRegion, End, Slots
    <3>4. End(regions'[n - 1]) = End(regions[n - 1])
          /\ \A j \in Slots : j >= n => regions'[j] = regions[j]
      BY <3>1, <3>2, <3>3, <1>1 DEF Slots
    <3> QED BY <3>1, <3>2, <3>4, <1>1, <1>4 DEF StaleInv
  <2> QED BY <2>1, <2>2, <1>15 DEF InsertHalt, InsertDue
<1>16. CASE SetStep
  <2>1. /\ i \in Slots /\ i < n /\ n' = n /\ pc' = "set" /\ call' = call
        /\ regions' = [regions EXCEPT ![i] = Updated(regions[i], call)]
    BY <1>16, <1>1 DEF SetStep, IndexInv, Slots, TypeOK
  <2>2. /\ Updated(regions[i], call).base = regions[i].base
        /\ Updated(regions[i], call).size = regions[i].size
    BY <2>1, <1>1 DEF Updated, Region
  <2>3. \A j \in Slots : regions'[j].base = regions[j].base /\ End(regions'[j]) = End(regions[j])
    BY <2>1, <2>2, <1>1 DEF End
  <2>4. n - 1 \in Slots
    BY <2>1, <1>1 DEF Slots
  <2> QED BY <2>1, <2>3, <2>4, <1>1, <1>4 DEF StaleInv, Slots
<1>17. CASE MergeJoin
  <2> DEFINE r == Joined(regions[i], regions[i + 1])
             rs == [regions EXCEPT ![i] = Joined(@, regions[i + 1])]
  <2>1. /\ i \in Nat /\ i + 1 < n /\ n' = n - 1 /\ pc' = "merge" /\ call' = call
        /\ End(regions[i]) = regions[i + 1].base /\ regions' = Dropped(rs, i + 1)
    BY <1>17, <1>1 DEF MergeJoin, IndexInv, Mergeable
  <2>2. /\ i \in Slots /\ i + 1 \in Slots /\ n - 1 \in Slots /\ n - 2 \in Slots
    BY <2>1, <1>1 DEF Slots
  <2>3. End(r) = End(regions[i + 1])
    BY <2>1, <2>2, <1>2 DEF Joined, NewRegion, End
  <2>4. rs[i] = r /\ \A j \in Slots : j # i => rs[j] = regions[j]
    BY <2>2, <1>1
  <2> HIDE DEF r, rs
  <2>5. /\ \A j \in Slots : j >= n - 1 => regions'[j] = rs[j]
        /\ regions'[n - 2] = IF n - 2 < i + 1 THEN rs[n - 2] ELSE rs[n - 1]
    BY <2>1, <2>2, <1>1, DroppedAt, DroppedPast
  <2>6. End(regions'[n - 2]) = End(regions[n - 1])
    <3>1. CASE n - 2 = i
      BY <3>1, <2>1, <2>3, <2>4, <2>5, <1>1
    <3>2. CASE n - 2 # i
      BY <3>2, <2>1, <2>2, <2>4, <2>5, <1>1
    <3> QED BY <3>1, <3>2
  <2>7. ASSUME NEW j \in Slots, j >= n - 1 PROVE regions'[j].base < End(regions[n - 1])
    <3>1. regions'[j] = regions[j]
      BY <2>1, <2>4, <2>5, <2>7, <1>1
    <3>2. CASE j = n - 1
      <4>1. regions[n - 1].size > 0
        BY <2>1, <1>1 DEF Sorted, Live
      <4> QED BY <3>1, <3>2, <4>1, <2>2, <1>2
    <3>3. CASE j >= n
      BY <3>1, <3>3, <2>1, <1>1 DEF StaleInv
    <3> QED BY <2>7, <3>2, <3>3, <1>1 DEF Slots
  <2> QED BY <2>1, <2>6, <2>7, <1>1, <1>4
<1>18. CASE MergeFault
  <2>1. 0 <= i /\ i < stop /\ stop <= n /\ i + 2 > n /\ stop \in Int
    BY <1>18, <1>1 DEF MergeFault, IndexInv, TypeOK
  <2>2. i = n - 1 /\ n > 0
    BY <2>1, <1>1
  <2>3. CASE n < NR_REGIONS
    <3>1. n \in Slots /\ End(regions[n - 1]) = regions[n].base
      BY <2>2, <2>3, <1>18, <1>1 DEF MergeFault, Mergeable, Slots
    <3>2. regions[n].base < End(regions[n - 1])
      BY <3>1, <2>2, <1>1 DEF StaleInv
    <3> QED BY <3>1, <3>2, <1>2
  <2>4. CASE n = NR_REGIONS
    BY <2>2, <2>4, <1>18, <1>1 DEF MergeFault
  <2> QED BY <2>3, <2>4, <1>1
<1> QED BY <1>5, <1>6, <1>7, <1>8, <1>9, <1>10, <1>11, <1>13, <1>14, <1>15, <1>16, <1>17, <1>18
        DEF Next, Step

\* In the kernel as it is (nobody calls memblock_remove), merge_regions never
\* takes a left-over entry past the end for a neighbour of the last one, which
\* would make it move almost the whole address space; the bytes behind a full
\* array are assumed not to look like a continuation of memory.
THEOREM KernelNeverFaults ==
    ASSUME MaxRemoves = 0, ~BeyondMayMatch
    PROVE  Spec => []NoFault
<1>1. Init => StaleInv
  BY DEF Init, StaleInv, NoFault, NoCall, RangeCall, NewRegion
<1>2. TypeInv /\ OrderInv /\ StaleInv /\ [Next]_vars => StaleInv'
  <2> SUFFICES ASSUME TypeInv, OrderInv, StaleInv, [Next]_vars PROVE StaleInv'
    OBVIOUS
  <2>1. CASE UNCHANGED vars
    BY <2>1 DEF vars, memory, locals, StaleInv, NoFault
  <2> QED BY <2>1, StaleStep
<1>3. StaleInv => NoFault
  BY DEF StaleInv
<1> QED BY <1>1, <1>2, <1>3, TypeInvariant, OrderInvariant, PTL DEF Spec

-----------------------------------------------------------------------------
(***************************************************************************)
(* What the array says of memory: which entries isolate_range hands out,   *)
(* that merge_regions is given a range wide enough, that memory.size is    *)
(* the memory covered, and that memblock_alloc fails only when it has to.  *)
(***************************************************************************)

-----------------------------------------------------------------------------
(* isolate_range.  The entries it has passed lie before the range, or      *)
(* inside it and between start and stop; when it is done, the others lie   *)
(* behind the range.                                                       *)

Before(j) == End(regions[j]) <= base
Inside(j) == base <= regions[j].base /\ End(regions[j]) <= end
Behind(j) == end <= regions[j].base

PassedInv ==
    pc = "isolate" =>
        /\ base < end
        /\ stop = 0 => start = 0
        /\ stop > 0 => start < stop /\ stop = i
        /\ \A j \in Live : j < i => IF stop > 0 /\ j >= start THEN Inside(j) ELSE Before(j)

HandedOutInv ==
    pc = "set" =>
        /\ i >= start
        /\ base < end => \A j \in Live : IF start <= j /\ j < stop THEN Inside(j)
                                         ELSE Before(j) \/ Behind(j)
        /\ base = end => start = 0 /\ stop = 0

LeftInv ==
    pc = "remove" /\ start > 0 =>
        /\ base < end
        /\ \A j \in Live : (j < start => Before(j)) /\ (j > i => Behind(j))

IsolateInv ==
    /\ pc \in {"entry", "isolate", "set", "remove"} => end = base + call.size
    /\ PassedInv
    /\ HandedOutInv
    /\ LeftInv

\* The entries of the array, their bounds and their order, in the form the
\* proofs below use them.
LEMMA LiveEntry ==
    ASSUME TypeInv, OrderInv
    PROVE  /\ n \in Nat /\ i \in Int /\ start \in Int /\ stop \in Nat /\ base \in Nat
           /\ end \in Nat /\ call.size \in Nat
           /\ \A j \in Live : /\ regions[j].base \in Nat /\ regions[j].size \in Nat
                              /\ End(regions[j]) \in Nat /\ regions[j].base < End(regions[j])
                              /\ End(regions[j]) = regions[j].base + regions[j].size
           /\ \A j, k \in Live : j < k => End(regions[j]) <= regions[k].base
<1>1. /\ regions \in [Slots -> Region] /\ n \in 0 .. NR_REGIONS /\ call \in Call /\ TypeOK
      /\ Sorted /\ NR_REGIONS \in Nat
  BY MemblockAssumption DEF TypeInv, TypeOK, OrderInv
<1>2. /\ n \in Nat /\ i \in Int /\ start \in Int /\ stop \in Nat /\ base \in Nat
      /\ end \in Nat
  BY <1>1 DEF TypeOK
<1>3. call.size \in Nat
  BY <1>1 DEF Call
<1>4. \A j \in Live : /\ regions[j].base \in Nat /\ regions[j].size \in Nat
                      /\ End(regions[j]) \in Nat
                      /\ End(regions[j]) = regions[j].base + regions[j].size
  BY <1>1, EntryType DEF Live
<1>5. \A j \in Live : regions[j].size > 0
  BY <1>1 DEF Sorted
<1> QED BY <1>1, <1>2, <1>3, <1>4, <1>5 DEF Sorted

\* isolate_range keeps the entries it has passed apart from the others.
LEMMA IsolateStep == ASSUME TypeInv, OrderInv, IsolateInv, Next PROVE IsolateInv'
<1>1. /\ n \in Nat /\ i \in Int /\ start \in Int /\ stop \in Nat /\ base \in Nat
      /\ end \in Nat /\ call.size \in Nat
      /\ \A j \in Live : /\ regions[j].base \in Nat /\ regions[j].size \in Nat
                         /\ End(regions[j]) \in Nat /\ regions[j].base < End(regions[j])
      /\ \A j, k \in Live : j < k => End(regions[j]) <= regions[k].base
  BY LiveEntry
<1>2. TypeOK /\ IndexInv /\ NR_REGIONS \in Nat /\ regions \in [Slots -> Region]
  BY MemblockAssumption DEF TypeInv, TypeOK
<1>3. ASSUME pc' \notin {"isolate", "set", "remove"},
             pc' = "entry" => end' = base' + call'.size
      PROVE  IsolateInv'
  BY <1>3 DEF IsolateInv, PassedInv, HandedOutInv, LeftInv
<1>4. CASE Request
  <2>1. ASSUME NEW c, Begin(c) PROVE end' = base' + call'.size
    BY <2>1 DEF Begin
  <2> QED BY <1>4, <1>3, <2>1 DEF Request, memblock_add, memblock_remove, memblock_reserve, memblock_free,
     memblock_setclr_flag, memblock_set_node, memblock_alloc
<1>5. CASE AllocFind
  BY <1>5, <1>3 DEF AllocFind
<1>6. CASE \/ AddSkip \/ AddCovered \/ AddGap \/ AddTail \/ AddNoTail \/ AllocRetry
           \/ IsolateNoSpace \/ InsertHalt \/ RemoveDone \/ SetDone \/ MergeKeep
           \/ MergeJoin \/ MergeFault \/ MergeDone \/ Return
  BY <1>6, <1>3 DEF AddSkip, AddCovered, AddGap, AddTail, AddNoTail, AllocRetry,
     IsolateNoSpace, InsertHalt, RemoveDone, SetDone, MergeKeep, MergeJoin, MergeFault,
     MergeDone, Return
<1>7. CASE IsolateEmpty
  <2>1. /\ pc' \in {"set", "remove"} /\ start' = 0 /\ stop' = 0 /\ base' = base /\ end' = end
        /\ call' = call /\ end = base /\ (pc' = "set" => i' = 0)
    BY <1>7, <1>1 DEF IsolateEmpty, Isolated, IsolateInv
  <2>2. end' = base' + call'.size
    BY <2>1, <1>7, <1>1 DEF IsolateEmpty
  <2> QED BY <2>1, <2>2, <1>1 DEF IsolateInv, PassedInv, HandedOutInv, LeftInv
<1>8. CASE IsolateStart
  <2>1. /\ pc' = "isolate" /\ start' = 0 /\ stop' = 0 /\ i' = 0 /\ base' = base /\ end' = end
        /\ call' = call /\ end = base + call.size /\ call.size > 0 /\ n' = n
    BY <1>8 DEF IsolateStart, IsolateInv, memory
  <2> QED BY <2>1, <1>1 DEF IsolateInv, PassedInv, HandedOutInv, LeftInv, Live
<1>9. CASE IsolateSkip
  <2>1. /\ pc = "isolate" /\ pc' = pc /\ i \in Live /\ End(regions[i]) <= base /\ i' = i + 1
        /\ UNCHANGED <<regions, n, base, end, start, stop, call>>
    BY <1>9, <1>1, <1>2 DEF IsolateSkip, memory, IndexInv, Live
  <2>2. stop = 0
    <3> SUFFICES ASSUME stop > 0 PROVE FALSE
      BY <1>1
    <3>1. start < i /\ 0 <= start /\ base < end
      BY <2>1, <1>2 DEF IsolateInv, PassedInv, IndexInv
    <3>2. start \in Live /\ Inside(start)
      BY <2>1, <3>1, <1>1, <1>2 DEF IsolateInv, PassedInv, Live
    <3> QED BY <2>1, <3>1, <3>2, <1>1 DEF Inside
  <2>3. \A j \in Live : j < i + 1 => Before(j)
    BY <2>1, <2>2, <1>1 DEF IsolateInv, PassedInv, Before, Live
  <2> QED BY <2>1, <2>2, <2>3, <1>1 DEF IsolateInv, PassedInv, HandedOutInv, LeftInv, Live,
             Before
<1>10. CASE IsolateInside
  <2>1. /\ pc = "isolate" /\ pc' = pc /\ i \in Live /\ i >= 0 /\ i' = i + 1 /\ stop' = i + 1
        /\ start' = (IF stop = 0 THEN i ELSE start) /\ Inside(i)
        /\ UNCHANGED <<regions, n, base, end, call>>
    BY <1>10, <1>1, <1>2 DEF IsolateInside, memory, IndexInv, Live, Inside
  <2>2. \A j \in Live : j < i + 1 => IF j >= start' THEN Inside(j) ELSE Before(j)
    BY <2>1, <1>1 DEF IsolateInv, PassedInv, Live
  <2>3. start' < stop' /\ base < end
    BY <2>1, <1>1 DEF IsolateInv, PassedInv
  <2>4. PassedInv'
    BY <2>1, <2>2, <2>3, <1>1 DEF PassedInv, Live, Before, Inside
  <2> QED BY <2>1, <2>4 DEF IsolateInv, HandedOutInv, LeftInv
<1>11. CASE IsolateLow
  <2>1. /\ pc = "isolate" /\ pc' = pc /\ i \in Live /\ i' = i + 1 /\ n' = n + 1
        /\ n < NR_REGIONS /\ regions[i].base < base /\ base < End(regions[i])
        /\ regions' = Inserted([regions EXCEPT ![i] = Upper(@, base)], i,
                               Lower(regions[i], base))
        /\ UNCHANGED <<base, end, start, stop, call>>
    BY <1>11, <1>1, <1>2 DEF IsolateLow, Split, HasRoom, IndexInv, Live
  <2>2. \A j \in 0 .. n :
          regions'[j] = IF j < i THEN regions[j]
                        ELSE IF j = i THEN Lower(regions[i], base)
                        ELSE IF j = i + 1 THEN Upper(regions[i], base) ELSE regions[j - 1]
    BY <2>1, <1>1, <1>2, SplitAt
  <2>3. End(Lower(regions[i], base)) = base
    BY <2>1, <1>1 DEF Lower, NewRegion, End
  <2>4. stop = 0
    <3> SUFFICES ASSUME stop > 0 PROVE FALSE
      BY <1>1
    <3>1. start < i /\ 0 <= start
      BY <2>1, <1>2 DEF IsolateInv, PassedInv, IndexInv
    <3>2. start \in Live /\ Inside(start)
      BY <2>1, <3>1, <1>1, <1>2 DEF IsolateInv, PassedInv, Live
    <3> QED BY <2>1, <3>1, <3>2, <1>1 DEF Inside
  <2>5. \A j \in 0 .. n : j < i + 1 => End(regions'[j]) <= base
    <3> SUFFICES ASSUME NEW j \in 0 .. n, j < i + 1 PROVE End(regions'[j]) <= base
      OBVIOUS
    <3>1. CASE j = i
      BY <3>1, <2>2, <2>3, <1>1
    <3>2. CASE j < i
      <4>1. j \in Live /\ regions'[j] = regions[j]
        <5>1. i \in Int /\ i <= n - 1 /\ n \in Nat
          BY <2>1, <1>1 DEF Live
        <5> QED BY <3>2, <2>2, <5>1 DEF Live
      <4> QED BY <4>1, <3>2, <2>1, <2>4 DEF IsolateInv, PassedInv, Before
    <3> QED BY <3>1, <3>2, <2>1, <1>1 DEF Live
  <2>7. Live' = 0 .. n
    BY <2>1, <1>1 DEF Live
  <2>6. PassedInv'
    <3>1. base < end /\ start = 0
      BY <2>1, <2>4 DEF IsolateInv, PassedInv
    <3>2. \A j \in Live' : j < i' => Before(j)'
      BY <2>1, <2>5, <2>7 DEF Before
    <3> QED BY <2>1, <2>4, <3>1, <3>2 DEF PassedInv
  <2> QED BY <2>1, <2>6 DEF IsolateInv, HandedOutInv, LeftInv
<1>12. CASE IsolateHigh
  <2>1. /\ pc = "isolate" /\ pc' = pc /\ i \in Live /\ i' = i /\ n' = n + 1
        /\ n < NR_REGIONS
        /\ regions' = Inserted([regions EXCEPT ![i] = Upper(@, end)], i,
                               Lower(regions[i], end))
        /\ UNCHANGED <<base, end, start, stop, call>>
    BY <1>12, <1>1, <1>2 DEF IsolateHigh, Split, HasRoom, IndexInv, Live, locals
  <2>2. \A j \in 0 .. n :
          regions'[j] = IF j < i THEN regions[j]
                        ELSE IF j = i THEN Lower(regions[i], end)
                        ELSE IF j = i + 1 THEN Upper(regions[i], end) ELSE regions[j - 1]
    BY <2>1, <1>1, <1>2, SplitAt
  <2>3. \A j \in 0 .. n : j < i => j \in Live /\ regions'[j] = regions[j]
    <3>1. i \in Int /\ i <= n - 1 /\ n \in Nat
      BY <2>1, <1>1 DEF Live
    <3> QED BY <2>2, <3>1 DEF Live
  <2>5. Live' = 0 .. n
    BY <2>1, <1>1 DEF Live
  <2>4. PassedInv'
    BY <2>1, <2>3, <2>5 DEF IsolateInv, PassedInv, Before, Inside, Live
  <2> QED BY <2>1, <2>4 DEF IsolateInv, HandedOutInv, LeftInv
<1>13. CASE IsolateDone
  <2>1. /\ pc = "isolate" /\ LoopOver /\ base < end /\ 0 <= i /\ 0 <= start /\ i <= n
        /\ UNCHANGED <<regions, n, base, end, start, stop, call>>
        /\ pc' = (IF call.fn = "remove" THEN "remove" ELSE "set")
        /\ i' = IF call.fn = "remove" THEN stop - 1 ELSE start
    BY <1>13, <1>2 DEF IsolateDone, Isolated, memory, IsolateInv, PassedInv, IndexInv
  <2>2. \A j \in Live : j >= i => Behind(j)
    <3> SUFFICES ASSUME NEW j \in Live, j >= i PROVE Behind(j)
      OBVIOUS
    <3>1. i \in Live /\ end <= regions[i].base
      BY <2>1, <1>1 DEF LoopOver, Live
    <3>2. regions[i].base <= regions[j].base
      <4>1. CASE i = j
        BY <4>1, <3>1, <1>1
      <4>2. CASE i < j
        BY <4>2, <3>1, <1>1
      <4> QED BY <4>1, <4>2, <1>1 DEF Live
    <3>3. regions[i].base \in Nat /\ regions[j].base \in Nat /\ end \in Nat
      BY <3>1, <1>1
    <3> QED BY <3>1, <3>2, <3>3 DEF Behind
  <2>3. \A j \in Live : IF start <= j /\ j < stop THEN Inside(j) ELSE Before(j) \/ Behind(j)
    BY <2>1, <2>2, <1>1 DEF IsolateInv, PassedInv, Live
  <2>4. \A j \in Live : start > 0 => (j < start => Before(j)) /\ (j > stop - 1 => Behind(j))
    BY <2>1, <2>2, <1>1 DEF IsolateInv, PassedInv, Live
  <2>5. CASE call.fn # "remove"
    BY <2>1, <2>3, <2>5, <1>1 DEF IsolateInv, PassedInv, HandedOutInv, LeftInv, Live,
       Before, Inside, Behind
  <2>6. CASE call.fn = "remove"
    BY <2>1, <2>4, <2>6, <1>1 DEF IsolateInv, PassedInv, HandedOutInv, LeftInv, Live,
       Before, Inside, Behind
  <2> QED BY <2>5, <2>6
<1>14. CASE SetStep
  <2>1. /\ pc = "set" /\ pc' = "set" /\ i \in Live /\ i' = i + 1
        /\ regions' = [regions EXCEPT ![i] = Updated(regions[i], call)]
        /\ UNCHANGED <<n, base, end, start, stop, call>>
    BY <1>14, <1>1, <1>2 DEF SetStep, IndexInv, Live
  <2>2. /\ Updated(regions[i], call).base = regions[i].base
        /\ Updated(regions[i], call).size = regions[i].size
    BY <2>1, <1>2, EntryType DEF Updated, Region, Live, TypeOK
  <2>3. \A j \in Live : regions'[j].base = regions[j].base /\ End(regions'[j]) = End(regions[j])
    BY <2>1, <2>2, <1>2 DEF End, Live, Slots
  <2>4. HandedOutInv'
    BY <2>1, <2>3, <1>1 DEF IsolateInv, HandedOutInv, Live, Before, Inside, Behind
  <2> QED BY <2>1, <2>4 DEF IsolateInv, PassedInv, LeftInv
<1>15. CASE RemoveStep
  <2>1. /\ pc = "remove" /\ pc' = "remove" /\ i \in Nat /\ i \in Live /\ i >= start /\ i' = i - 1
        /\ regions' = Dropped(regions, i) /\ n' = n - 1
        /\ UNCHANGED <<base, end, start, stop, call>>
    BY <1>15, <1>1, <1>2 DEF RemoveStep, IndexInv, Live
  <2>2. \A j \in 0 .. n - 2 : regions'[j] = IF j < i THEN regions[j] ELSE regions[j + 1]
    BY <2>1, <1>1, <1>2, DroppedAt DEF Live, TypeOK
  <2>3. LeftInv'
    BY <2>1, <2>2, <1>1 DEF IsolateInv, LeftInv, Live, Before, Behind
  <2> QED BY <2>1, <2>3 DEF IsolateInv, PassedInv, HandedOutInv
<1> QED BY <1>4, <1>5, <1>6, <1>7, <1>8, <1>9, <1>10, <1>11, <1>12, <1>13, <1>14, <1>15
        DEF Next, Step

\* isolate_range's loop invariant holds in every state.
LEMMA IsolateInvariant == Spec => []IsolateInv
<1>1. Init => IsolateInv
  BY DEF Init, IsolateInv, PassedInv, HandedOutInv, LeftInv
<1>2. TypeInv /\ OrderInv /\ IsolateInv /\ [Next]_vars => IsolateInv'
  <2> SUFFICES ASSUME TypeInv, OrderInv, IsolateInv, [Next]_vars PROVE IsolateInv'
    OBVIOUS
  <2>1. CASE UNCHANGED vars
    BY <2>1 DEF vars, memory, locals, IsolateInv, PassedInv, HandedOutInv, LeftInv, Live,
       Before, Inside, Behind
  <2> QED BY <2>1, IsolateStep
<1> QED BY <1>1, <1>2, TypeInvariant, OrderInvariant, PTL DEF Spec

\* The bytes of an entry.
LEMMA BytesOf ==
    ASSUME NEW r, r.base \in Nat, End(r) \in Nat, NEW a
    PROVE  a \in Bytes(r) <=> a \in Nat /\ r.base <= a /\ a < End(r)
BY DEF Bytes

\* Whatever range memblock_reserve, memblock_free, memblock_set_node or
\* memblock_alloc works on, isolate_range hands out the entries that cover
\* exactly the known memory of the range: no byte of it keeps its old flag or
\* node, and no byte outside it changes.
THEOREM RangeIsolated == Spec => []IsolationExact
<1>1. ASSUME TypeInv, OrderInv, IsolateInv PROVE IsolationExact
  <2> SUFFICES ASSUME pc = "set"
               PROVE  /\ 0 <= start /\ stop <= n
                      /\ UNION {Bytes(regions[j]) : j \in start .. stop - 1}
                           = Covered \cap (base .. end - 1)
    BY DEF IsolationExact
  <2>1. /\ n \in Nat /\ start \in Int /\ stop \in Nat /\ base \in Nat /\ end \in Nat
        /\ \A j \in Live : regions[j].base \in Nat /\ End(regions[j]) \in Nat
        /\ end = base + call.size /\ call.size \in Nat
    BY <1>1, LiveEntry DEF IsolateInv
  <2>2. 0 <= start /\ stop <= n
    BY <1>1 DEF TypeInv, IndexInv
  <2>3. \A j \in start .. stop - 1 : j \in Live
    BY <2>1, <2>2 DEF Live
  <2>4. ASSUME NEW a, NEW j \in start .. stop - 1, a \in Bytes(regions[j])
        PROVE  a \in Covered \cap (base .. end - 1)
    <3>1. base < end
      BY <1>1, <2>1 DEF IsolateInv, HandedOutInv
    <3>6. j \in Live /\ start <= j /\ j < stop
      BY <2>1, <2>3
    <3>2. j \in Live /\ Inside(j)
      BY <1>1, <3>1, <3>6 DEF IsolateInv, HandedOutInv
    <3>3. a \in Covered
      BY <2>4, <3>2 DEF Covered
    <3>4. a \in Nat /\ regions[j].base <= a /\ a < End(regions[j])
      BY <2>1, <2>4, <3>2, BytesOf
    <3>5. a \in base .. end - 1
      BY <2>1, <3>2, <3>4 DEF Inside
    <3> QED BY <3>3, <3>5
  <2>5. ASSUME NEW a \in base .. end - 1, a \in Covered
        PROVE  \E j \in start .. stop - 1 : a \in Bytes(regions[j])
    <3>1. PICK j \in Live : a \in Bytes(regions[j])
      BY <2>5 DEF Covered
    <3>2. a \in Nat /\ regions[j].base <= a /\ a < End(regions[j])
      BY <2>1, <3>1, BytesOf
    <3>3. base < end /\ base <= a /\ a < end
      BY <2>1
    <3>4. ~Before(j) /\ ~Behind(j)
      BY <2>1, <3>2, <3>3 DEF Before, Behind
    <3>5. start <= j /\ j < stop
      BY <1>1, <3>3, <3>4 DEF IsolateInv, HandedOutInv
    <3>6. j \in start .. stop - 1
      BY <2>1, <3>5 DEF Live
    <3> QED BY <3>1, <3>6
  <2> QED BY <2>2, <2>4, <2>5
<1> QED BY <1>1, TypeInvariant, OrderInvariant, IsolateInvariant, PTL

-----------------------------------------------------------------------------
(* merge_regions.  Of the pairs of neighbours that could be one entry,     *)
(* every one lies where something was inserted, cut or changed, and that   *)
(* is where merge_regions is going to look.                                *)

\* The entries that may continue in the next one.
Loose ==
    CASE pc = "add"     -> IF start = -1 THEN {} ELSE start - 1 .. stop - 1
      [] pc = "isolate" -> {j \in Live : End(regions[j]) \in {base, end}}
      [] pc = "set"     -> start - 1 .. stop - 1
      [] pc = "remove"  -> start - 1 .. i
      [] pc = "merge"   -> i .. stop - 1
      [] pc \in {"halt", "fault"} -> Live
      [] OTHER -> {}

Continues(j) == j + 1 < n /\ Mergeable(regions[j], regions[j + 1])

MergeInv ==
    /\ pc = "add" /\ start # -1 => start < stop /\ stop <= i
    /\ \A j \in Live : Continues(j) => j \in Loose

\* Loose, spelled out for each loop.
LEMMA LooseIn ==
    /\ pc = "add" => Loose = IF start = -1 THEN {} ELSE start - 1 .. stop - 1
    /\ pc = "isolate" => Loose = {j \in Live : End(regions[j]) \in {base, end}}
    /\ pc = "set" => Loose = start - 1 .. stop - 1
    /\ pc = "remove" => Loose = start - 1 .. i
    /\ pc = "merge" => Loose = i .. stop - 1
    /\ pc \in {"halt", "fault"} => Loose = Live
    /\ pc \in {"idle", "find", "retry", "entry", "return"} => Loose = {}
BY Zenon DEF Loose

\* The same of the next state.
LEMMA LooseNext ==
    /\ pc' = "add" => Loose' = IF start' = -1 THEN {} ELSE start' - 1 .. stop' - 1
    /\ pc' = "isolate" => Loose' = {j \in Live' : End(regions'[j]) \in {base', end'}}
    /\ pc' = "set" => Loose' = start' - 1 .. stop' - 1
    /\ pc' = "remove" => Loose' = start' - 1 .. i'
    /\ pc' = "merge" => Loose' = i' .. stop' - 1
    /\ pc' \in {"halt", "fault"} => Loose' = Live'
    /\ pc' \in {"idle", "find", "retry", "entry", "return"} => Loose' = {}
BY Zenon DEF Loose

\* No step leaves two neighbours that could be one entry outside the part of
\* the array merge_regions is going to look at.
LEMMA MergeStep == ASSUME TypeInv, OrderInv, IsolateInv, MergeInv, Next PROVE MergeInv'
<1>1. /\ n \in Nat /\ i \in Int /\ start \in Int /\ stop \in Nat /\ base \in Nat
      /\ end \in Nat
  BY LiveEntry
<1>2. \A j \in Live : /\ regions[j].base \in Nat /\ regions[j].size \in Nat
                      /\ End(regions[j]) \in Nat /\ regions[j].base < End(regions[j])
                      /\ End(regions[j]) = regions[j].base + regions[j].size
  BY LiveEntry
<1>3. TypeOK /\ IndexInv /\ NR_REGIONS \in Nat /\ regions \in [Slots -> Region] /\ n <= NR_REGIONS
  BY MemblockAssumption DEF TypeInv, TypeOK
<1>4. \A j \in Live : Continues(j) => j \in Loose
  BY DEF MergeInv
<1>5. ASSUME UNCHANGED <<regions, n>>, pc' = "add" /\ start' # -1 => start' < stop' /\ stop' <= i',
             \A j \in Live : j \in Loose /\ Continues(j) => j \in Loose'
      PROVE  MergeInv'
  <2>1. Live' = Live /\ \A j \in Live : Continues(j)' <=> Continues(j)
    BY <1>5 DEF Live, Continues
  <2> QED BY <2>1, <1>4, <1>5 DEF MergeInv
<1>6. CASE Request
  <2>4. ASSUME NEW c, Begin(c) PROVE pc = "idle" /\ start' = -1
    BY <2>4 DEF Begin
  <2>5. pc = "idle" /\ start' = -1
    BY <1>6, <2>4 DEF Request, memblock_add, memblock_remove, memblock_reserve,
       memblock_free, memblock_setclr_flag, memblock_set_node, memblock_alloc
  <2>1. pc = "idle" /\ start' = -1 /\ Loose = {}
    BY <2>5, LooseIn
  <2>2. CASE n' = 1
    BY <2>1, <2>2 DEF MergeInv, Continues, Live
  <2>3. CASE UNCHANGED memory
    BY <2>1, <2>3, <1>5 DEF memory
  <2> QED BY <1>6, <2>2, <2>3 DEF Request, memblock_add, memblock_remove, memblock_reserve,
       memblock_free, memblock_setclr_flag, memblock_set_node, memblock_alloc
<1>7. CASE AddSkip \/ AddCovered
  <2>1. /\ pc = "add" /\ pc' = "add" /\ UNCHANGED <<regions, n, start, stop>> /\ i' = i + 1
    BY <1>7 DEF AddSkip, AddCovered, memory
  <2>2. Loose' = Loose
    BY <2>1, LooseIn, LooseNext
  <2> QED BY <2>1, <2>2, <1>1, <1>5 DEF MergeInv
<1>8. CASE AddNoTail
  <2>1. /\ pc = "add" /\ UNCHANGED <<regions, n, start, stop>>
        /\ pc' = (IF start = -1 THEN "return" ELSE "merge")
        /\ i' = IF start = -1 THEN i ELSE MergeFrom(start)
    BY <1>8 DEF AddNoTail, memory
  <2>2. CASE start = -1
    BY <2>1, <2>2, <1>5, LooseIn
  <2>3. CASE start # -1
    <3>1. Loose = start - 1 .. stop - 1 /\ Loose' = MergeFrom(start) .. stop - 1 /\ pc' = "merge"
      BY <2>1, <2>3, LooseIn, LooseNext
    <3>2. \A j \in Live : j \in Loose => j \in Loose'
      BY <3>1, <1>1 DEF Live, MergeFrom
    <3> QED BY <2>1, <3>1, <3>2, <1>5
  <2> QED BY <2>2, <2>3
<1>9. CASE AllocFind \/ AllocRetry \/ IsolateNoSpace \/ IsolateEmpty \/ IsolateStart \/ Return
  <2>1. /\ pc \in {"find", "retry", "entry", "return"} /\ UNCHANGED <<regions, n>> /\ pc' # "add"
    BY <1>9 DEF AllocFind, AllocRetry, IsolateNoSpace, IsolateEmpty, IsolateStart, Return,
       Isolated, memory
  <2> QED BY <2>1, <1>5, LooseIn
<1>10. CASE IsolateSkip \/ IsolateInside
  <2>1. pc = "isolate" /\ pc' = pc /\ UNCHANGED <<regions, n, base, end>>
    BY <1>10 DEF IsolateSkip, IsolateInside, memory
  <2>2. Loose' = Loose
    BY <2>1, LooseIn, LooseNext DEF Live
  <2> QED BY <2>1, <2>2, <1>5
<1>11. CASE MergeKeep
  <2>1. /\ pc = "merge" /\ pc' = "merge" /\ i < stop /\ i' = i + 1
        /\ UNCHANGED <<regions, n, stop>>
        /\ i + 1 < NR_REGIONS => ~Mergeable(regions[i], regions[i + 1])
    BY <1>11 DEF MergeKeep, memory
  <2>2. Loose = i .. stop - 1 /\ Loose' = i + 1 .. stop - 1
    BY <2>1, LooseIn, LooseNext
  <2>3. ~Continues(i)
    BY <2>1, <1>1, <1>3 DEF Continues
  <2>4. \A j \in Live : j \in Loose /\ Continues(j) => j \in Loose'
    BY <2>2, <2>3, <1>1 DEF Live
  <2> QED BY <2>1, <2>4, <1>5
<1>12. CASE MergeFault \/ MergeDone
  <2>1. UNCHANGED <<regions, n>> /\ pc = "merge"
        /\ (pc' = "fault" \/ (pc' = "return" /\ i >= stop))
    BY <1>12 DEF MergeFault, MergeDone, memory
  <2>2. Loose = i .. stop - 1
    BY <2>1, LooseIn
  <2>3. CASE pc' = "fault"
    BY <2>1, <2>3, <1>5, LooseNext DEF Live
  <2>4. CASE i >= stop /\ pc' = "return"
    <3>1. Loose = {}
      BY <2>2, <2>4, <1>1
    <3> QED BY <2>1, <2>4, <3>1, <1>5
  <2> QED BY <2>1, <2>3, <2>4
<1>13. CASE InsertHalt
  <2>1. pc' = "halt"
    BY <1>13 DEF InsertHalt
  <2> QED BY <2>1, LooseNext DEF MergeInv
<1>14. CASE SetDone
  <2>1. /\ pc = "set" /\ pc' = "merge" /\ UNCHANGED <<regions, n, start, stop>>
        /\ i' = MergeFrom(start) /\ 0 <= start
    BY <1>14, <1>3 DEF SetDone, memory, IndexInv
  <2>2. Loose = start - 1 .. stop - 1 /\ Loose' = MergeFrom(start) .. stop - 1
    BY <2>1, LooseIn, LooseNext
  <2>3. \A j \in Live : j \in Loose => j \in Loose'
    BY <2>1, <2>2, <1>1 DEF Live, MergeFrom
  <2> QED BY <2>1, <2>3, <1>5
<1>15. CASE RemoveDone
  <2>1. /\ pc = "remove" /\ pc' = "return" /\ UNCHANGED <<regions, n>> /\ i < start
    BY <1>15 DEF RemoveDone, memory
  <2>2. Loose = start - 1 .. i
    BY <2>1, LooseIn
  <2>3. ASSUME NEW j \in Live, j \in Loose, Continues(j) PROVE FALSE
    <3>1. j = start - 1 /\ j = i /\ start > 0 /\ j + 1 < n
      BY <2>1, <2>2, <2>3, <1>1 DEF Live, Continues
    <3>2. j + 1 \in Live /\ End(regions[j]) = regions[j + 1].base
      BY <2>3, <3>1, <1>1 DEF Live, Continues, Mergeable
    <3>3. /\ \A k \in Live : (k < start => Before(k)) /\ (k > i => Behind(k))
          /\ base < end
      BY <2>1, <3>1 DEF IsolateInv, LeftInv
    <3>4. End(regions[j]) <= base /\ end <= regions[j + 1].base
      BY <3>1, <3>2, <3>3, <1>1 DEF Before, Behind
    <3> QED BY <3>2, <3>3, <3>4, <1>1, <1>2
  <2> QED BY <2>1, <2>3, <1>5
<1>16. CASE IsolateDone
  <2>1. /\ pc = "isolate" /\ LoopOver /\ base < end /\ UNCHANGED <<regions, n, start, stop>>
        /\ 0 <= i /\ i <= n /\ 0 <= start
        /\ pc' \in {"set", "remove"} /\ (pc' = "remove" => i' = stop - 1)
    BY <1>16, <1>3 DEF IsolateDone, Isolated, memory, IsolateInv, PassedInv, IndexInv
  <2>2. /\ Loose' = start - 1 .. stop - 1
        /\ \A j \in Loose : End(regions[j]) = base \/ End(regions[j]) = end
    BY <2>1, LooseIn, LooseNext
  <2>3. /\ stop = 0 => start = 0
        /\ stop > 0 => start < stop /\ stop = i
        /\ \A j \in Live : j < i => IF stop > 0 /\ j >= start THEN Inside(j) ELSE Before(j)
    BY <2>1 DEF IsolateInv, PassedInv
  <2>4. \A j \in Live : j >= i => end <= regions[j].base
    <3> SUFFICES ASSUME NEW j \in Live, j >= i PROVE end <= regions[j].base
      OBVIOUS
    <3>1. i \in Live /\ end <= regions[i].base
      BY <2>1, <1>1 DEF LoopOver, Live
    <3>2. CASE i = j
      BY <3>1, <3>2
    <3>3. CASE i < j
      <4>1. End(regions[i]) <= regions[j].base
        BY <3>1, <3>3, LiveEntry
      <4>2. /\ regions[i].base \in Nat /\ End(regions[i]) \in Nat /\ regions[j].base \in Nat
            /\ regions[i].base < End(regions[i])
        BY <3>1, <1>2
      <4> QED BY <3>1, <4>1, <4>2, <1>1
    <3> QED BY <3>2, <3>3, <1>1 DEF Live
  <2>5. ASSUME NEW j \in Live, j \in Loose, Continues(j) PROVE j \in Loose'
    <3>1. j + 1 \in Live /\ End(regions[j]) = regions[j + 1].base
      BY <2>5, <1>1 DEF Live, Continues, Mergeable
    <3>2. /\ regions[j].base \in Nat /\ End(regions[j]) \in Nat /\ End(regions[j + 1]) \in Nat
          /\ regions[j].base < End(regions[j]) /\ regions[j + 1].base < End(regions[j + 1])
      BY <3>1, <1>2
    <3>3. j \in Int
      BY DEF Live
    <3>4. CASE End(regions[j]) = base
      <4>1. j + 1 < i
        <5>1. base < end /\ ~(end <= regions[j + 1].base)
          BY <2>1, <3>1, <3>4, <1>1
        <5> QED BY <2>4, <3>1, <3>3, <5>1, <1>1
      <4>2. ~Before(j + 1)
        BY <3>1, <3>2, <3>4, <1>1 DEF Before
      <4>3. stop > 0 /\ j + 1 >= start
        BY <2>3, <3>1, <4>1, <4>2
      <4> QED BY <2>2, <2>3, <3>3, <4>1, <4>3, <1>1
    <3>5. CASE End(regions[j]) = end
      <4>1. j < i
        BY <2>4, <3>2, <3>3, <3>5, <1>1
      <4>2. ~Before(j)
        BY <2>1, <3>2, <3>5, <1>1 DEF Before
      <4>3. stop > 0 /\ j >= start
        BY <2>3, <4>1, <4>2
      <4> QED BY <2>2, <2>3, <3>3, <4>1, <4>3, <1>1
    <3> QED BY <2>2, <2>5, <3>4, <3>5
  <2> QED BY <2>1, <2>5, <1>5
<1>17. ASSUME NEW r, n < NR_REGIONS, regions' = Inserted(regions, i, r), n' = n + 1,
              pc = "add", 0 <= i, i <= n, start' = (IF start = -1 THEN i ELSE start),
              stop' = i + 1
       PROVE  /\ start' < stop'
              /\ \A j \in Live' : Continues(j)' => j \in start' - 1 .. i
  <2>1. start' \in Int /\ start' <= i /\ (start # -1 => start' = start /\ stop <= i)
    BY <1>17, <1>1 DEF MergeInv
  <2>2. \A j \in 0 .. n : /\ j < i => regions'[j] = regions[j]
                          /\ j = i => regions'[j] = r
                          /\ j > i => regions'[j] = regions[j - 1]
    BY <1>17, <1>1, InsertedAt
  <2>3. Loose = IF start = -1 THEN {} ELSE start - 1 .. stop - 1
    BY <1>17, LooseIn
  <2>4. ASSUME NEW j \in 0 .. n, j + 1 <= n, Mergeable(regions'[j], regions'[j + 1])
        PROVE  j \in start' - 1 .. i
    <3>1. CASE j + 1 < i
      <4>1. j \in Live /\ Continues(j)
        BY <2>2, <2>4, <3>1, <1>1, <1>17 DEF Live, Continues
      <4>2. j \in Loose
        BY <4>1, <1>4
      <4>3. start # -1
        BY <2>3, <4>2
      <4>4. start' = start /\ j >= start - 1
        BY <2>1, <2>3, <4>2, <4>3, <1>1
      <4> QED BY <4>4, <3>1, <1>1
    <3>2. CASE j + 1 = i \/ j = i
      <4>1. PICK first \in Int : first = start'
        BY <2>1
      <4>2. first <= i
        BY <2>1, <4>1
      <4>3. j \in first - 1 .. i
        BY <4>2, <3>2, <1>1
      <4> QED BY <4>1, <4>3
    <3>3. CASE j > i
      <4>1. j - 1 \in Live /\ regions'[j] = regions[j - 1] /\ regions'[j + 1] = regions[j]
        BY <2>2, <2>4, <3>3, <1>1, <1>17 DEF Live
      <4>2. Continues(j - 1)
        BY <2>4, <4>1, <1>1 DEF Continues
      <4>3. j - 1 \in Loose
        BY <4>1, <4>2, <1>4
      <4> QED BY <2>1, <2>3, <4>3, <3>3, <1>1
    <3> QED BY <3>1, <3>2, <3>3, <1>1
  <2>5. Live' = 0 .. n
    BY <1>17, <1>1 DEF Live
  <2>6. ASSUME NEW j \in Live', Continues(j)' PROVE j \in start' - 1 .. i
    <3>1. j \in 0 .. n /\ j + 1 <= n /\ Mergeable(regions'[j], regions'[j + 1])
      BY <2>5, <2>6, <1>17, <1>1 DEF Continues, Mergeable, End
    <3> QED BY <2>4, <3>1
  <2> QED BY <2>1, <2>6, <1>17, <1>1
<1>18. CASE AddGap
  <2>1. /\ pc = "add" /\ pc' = "add" /\ 0 <= i /\ i <= n /\ n < NR_REGIONS /\ n' = n + 1
        /\ start' = (IF start = -1 THEN i ELSE start) /\ stop' = i + 1 /\ i' = i + 1
        /\ regions' = Inserted(regions, i, NewRegion(base, regions[i].base - base, "NONE", nid))
    BY <1>18, <1>1, <1>3 DEF AddGap, InsertAt, HasRoom, IndexInv
  <2>2. start' < stop' /\ \A j \in Live' : Continues(j)' => j \in start' - 1 .. i
    BY <2>1, <1>17
  <2>3. start' # -1 /\ stop' - 1 = i
    BY <2>1, <1>1
  <2>4. Loose' = start' - 1 .. i
    BY <2>1, <2>3, LooseNext
  <2> QED BY <2>1, <2>2, <2>4, <1>1 DEF MergeInv
<1>19. CASE AddTail
  <2>1. /\ pc = "add" /\ pc' = "merge" /\ 0 <= i /\ i <= n /\ n < NR_REGIONS /\ n' = n + 1
        /\ start' = (IF start = -1 THEN i ELSE start) /\ stop' = i + 1
        /\ i' = MergeFrom(start')
        /\ regions' = Inserted(regions, i, NewRegion(base, end - base, "NONE", nid))
    BY <1>19, <1>1, <1>3 DEF AddTail, InsertAt, HasRoom, IndexInv
  <2>2. \A j \in Live' : Continues(j)' => j \in start' - 1 .. i
    BY <2>1, <1>17
  <2>3. stop' - 1 = i /\ start' \in Int
    BY <2>1, <1>1
  <2>4. Loose' = MergeFrom(start') .. i
    BY <2>1, <2>3, LooseNext
  <2>5. \A j \in Live' : j \in start' - 1 .. i => j \in Loose'
    BY <2>1, <2>3, <2>4, <1>1 DEF Live, MergeFrom
  <2> QED BY <2>1, <2>2, <2>5 DEF MergeInv
<1>20. ASSUME NEW at \in Nat, Split(at), i \in Live, regions[i].base < at,
              at < End(regions[i]), pc = "isolate", pc' = pc, base' = base, end' = end,
              at = base \/ at = end
       PROVE  MergeInv'
  <2>1. n < NR_REGIONS /\ n' = n + 1 /\ i \in Nat /\ i < n /\ Live' = 0 .. n
        /\ regions' = Inserted([regions EXCEPT ![i] = Upper(@, at)], i, Lower(regions[i], at))
    BY <1>20, <1>1, <1>3 DEF Split, HasRoom, Live
  <2>2. \A j \in 0 .. n :
          regions'[j] = IF j < i THEN regions[j]
                        ELSE IF j = i THEN Lower(regions[i], at)
                        ELSE IF j = i + 1 THEN Upper(regions[i], at) ELSE regions[j - 1]
    BY <2>1, <1>3, <1>20, SplitAt
  <2>3. /\ Lower(regions[i], at).base = regions[i].base /\ End(Lower(regions[i], at)) = at
        /\ Lower(regions[i], at).flags = regions[i].flags
        /\ Lower(regions[i], at).nid = regions[i].nid
        /\ End(Upper(regions[i], at)) = End(regions[i])
        /\ Upper(regions[i], at).flags = regions[i].flags
        /\ Upper(regions[i], at).nid = regions[i].nid
    BY <1>2, <1>20 DEF Lower, Upper, NewRegion, End
  <2>8. n' = n + 1 /\ i \in Nat /\ i < n /\ n \in Nat
    BY <2>1, <1>1
  <2>4. \A j \in Live : Continues(j) => End(regions[j]) = base \/ End(regions[j]) = end
    BY <1>4, <1>20, LooseIn
  <2>5. ASSUME NEW j \in 0 .. n, j + 1 <= n, Mergeable(regions'[j], regions'[j + 1])
        PROVE  End(regions'[j]) = base \/ End(regions'[j]) = end
    <3>1. CASE j + 1 < i
      <4>1. j \in Live /\ regions'[j] = regions[j] /\ regions'[j + 1] = regions[j + 1]
        BY <2>2, <2>5, <2>8, <3>1 DEF Live
      <4> QED BY <2>1, <2>4, <2>5, <3>1, <4>1, <1>1 DEF Continues
    <3>2. CASE j + 1 = i
      <4>1. /\ j \in Live /\ regions'[j] = regions[j]
            /\ regions'[j + 1] = Lower(regions[i], at)
        BY <2>2, <2>5, <2>8, <3>2 DEF Live
      <4>2. Continues(j)
        BY <2>1, <2>3, <2>5, <3>2, <4>1 DEF Continues, Mergeable
      <4> QED BY <2>4, <4>1, <4>2
    <3>3. CASE j = i
      <4>1. End(regions'[j]) = at
        BY <2>2, <2>3, <3>3, <2>8
      <4> QED BY <4>1, <1>20
    <3>4. CASE j = i + 1
      <4>1. /\ regions'[j] = Upper(regions[i], at) /\ regions'[j + 1] = regions[i + 1]
        BY <2>2, <2>5, <2>8, <3>4
      <4>2. Continues(i)
        BY <2>1, <2>3, <2>5, <3>4, <4>1, <1>1 DEF Continues, Mergeable
      <4> QED BY <2>3, <2>4, <4>1, <4>2, <1>20
    <3>5. CASE j > i + 1
      <4>1. j - 1 \in Live /\ regions'[j] = regions[j - 1] /\ regions'[j + 1] = regions[j]
        BY <2>2, <2>5, <2>8, <3>5 DEF Live
      <4>2. Continues(j - 1)
        BY <2>5, <4>1, <1>1 DEF Continues
      <4> QED BY <2>4, <4>1, <4>2
    <3> QED BY <2>1, <3>1, <3>2, <3>3, <3>4, <3>5
  <2>6. \A j \in Live' : (End(regions'[j]) = base \/ End(regions'[j]) = end) => j \in Loose'
    BY <1>20, LooseNext
  <2>7. ASSUME NEW j \in Live', Continues(j)' PROVE j \in Loose'
    <3>1. j \in 0 .. n /\ j + 1 <= n /\ Mergeable(regions'[j], regions'[j + 1])
      BY <2>1, <2>7, <1>1 DEF Continues, Mergeable, End
    <3> QED BY <2>5, <2>6, <3>1
  <2> QED BY <2>7, <1>20 DEF MergeInv
<1>21. CASE IsolateLow
  BY <1>21, <1>20, <1>1, <1>3 DEF IsolateLow, IndexInv, Live
<1>22. CASE IsolateHigh
  BY <1>22, <1>20, <1>1, <1>3 DEF IsolateHigh, IndexInv, Live, locals
<1>23. CASE SetStep
  <2>1. /\ pc = "set" /\ pc' = "set" /\ i \in Live /\ i < stop /\ start <= i
        /\ regions' = [regions EXCEPT ![i] = Updated(regions[i], call)]
        /\ UNCHANGED <<n, start, stop>>
    BY <1>23, <1>1, <1>3 DEF SetStep, IndexInv, Live, IsolateInv, HandedOutInv
  <2>2. \A j \in Live : j # i => regions'[j] = regions[j]
    BY <2>1, <1>3 DEF Live, Slots
  <2>3. Loose = start - 1 .. stop - 1 /\ Loose' = start - 1 .. stop - 1 /\ Live' = Live
    BY <2>1, LooseIn, LooseNext DEF Live
  <2>4. ASSUME NEW j \in Live, Continues(j)' PROVE j \in Loose
    <3>1. CASE j = i \/ j + 1 = i
      BY <2>1, <2>3, <3>1, <1>1
    <3>2. CASE j # i /\ j + 1 # i
      <4>1. j + 1 < n
        BY <2>1, <2>4 DEF Continues
      <4>2. j + 1 \in Live
        BY <4>1, <1>1 DEF Live
      <4>3. regions'[j] = regions[j] /\ regions'[j + 1] = regions[j + 1]
        BY <2>2, <3>2, <4>2
      <4>4. Continues(j)
        BY <2>4, <4>1, <4>3 DEF Continues, Mergeable, End
      <4> QED BY <4>4, <1>4
    <3> QED BY <3>1, <3>2
  <2> QED BY <2>1, <2>3, <2>4 DEF MergeInv
<1>24. CASE RemoveStep
  <2>1. /\ pc = "remove" /\ pc' = "remove" /\ i \in Nat /\ i < n /\ start <= i /\ i' = i - 1
        /\ regions' = Dropped(regions, i) /\ n' = n - 1 /\ start' = start
    BY <1>24, <1>1, <1>3 DEF RemoveStep, IndexInv
  <2>2. \A j \in 0 .. n - 2 : regions'[j] = IF j < i THEN regions[j] ELSE regions[j + 1]
    BY <2>1, <1>1, <1>3, DroppedAt DEF TypeOK
  <2>3. Loose = start - 1 .. i /\ Loose' = start - 1 .. i - 1
    BY <2>1, LooseIn, LooseNext
  <2>4. ASSUME NEW j \in Live', Continues(j)' PROVE j \in Loose'
    <3>1. j \in 0 .. n - 2 /\ j + 1 < n - 1 /\ Mergeable(regions'[j], regions'[j + 1])
      BY <2>1, <2>4, <1>1 DEF Live, Continues, Mergeable, End
    <3>2. CASE j + 1 < i
      <4>1. j \in Live /\ regions'[j] = regions[j] /\ regions'[j + 1] = regions[j + 1]
        BY <2>1, <2>2, <3>1, <3>2, <1>1 DEF Live
      <4>2. j \in Loose
        BY <3>1, <4>1, <1>1, <1>4 DEF Continues
      <4> QED BY <2>3, <3>1, <3>2, <4>2, <1>1
    <3>3. CASE j + 1 = i
      <4>1. start <= i /\ j \in Int
        BY <2>1, <3>1
      <4> QED BY <2>3, <3>3, <4>1, <1>1
    <3>4. CASE j >= i
      <4>1. j + 1 \in Live /\ regions'[j] = regions[j + 1] /\ regions'[j + 1] = regions[(j + 1) + 1]
        BY <2>1, <2>2, <3>1, <3>4, <1>1 DEF Live
      <4>2. j + 1 \in Loose
        BY <3>1, <4>1, <1>1, <1>4 DEF Continues
      <4> QED BY <2>3, <3>1, <3>4, <4>2, <1>1
    <3> QED BY <3>1, <3>2, <3>3, <3>4, <2>1
  <2> QED BY <2>1, <2>4 DEF MergeInv
<1>25. CASE MergeJoin
  <2> DEFINE r == Joined(regions[i], regions[i + 1])
             rs == [regions EXCEPT ![i] = Joined(@, regions[i + 1])]
  <2>1. /\ pc = "merge" /\ pc' = "merge" /\ i \in Nat /\ i + 1 < n /\ n' = n - 1
        /\ stop' = stop - 1 /\ i' = i /\ Mergeable(regions[i], regions[i + 1])
        /\ regions' = Dropped(rs, i + 1)
    BY <1>25, <1>1, <1>3 DEF MergeJoin, IndexInv
  <2>2. i \in Live /\ i + 1 \in Live
    BY <2>1, <1>1 DEF Live
  <2>3. /\ r.base = regions[i].base /\ End(r) = End(regions[i + 1])
        /\ r.flags = regions[i].flags /\ r.nid = regions[i].nid
        /\ r.flags = regions[i + 1].flags /\ r.nid = regions[i + 1].nid
    BY <2>1, <2>2, <1>2 DEF Joined, NewRegion, End, Mergeable
  <2>4. rs[i] = r /\ \A j \in Live : j # i => rs[j] = regions[j]
    BY <2>1, <1>1, <1>3 DEF Live, Slots
  <2> HIDE DEF r, rs
  <2>5. \A j \in 0 .. n - 2 : regions'[j] = IF j < i + 1 THEN rs[j] ELSE rs[j + 1]
    BY <2>1, <1>1, <1>3, DroppedAt DEF TypeOK
  <2>6. \A j \in 0 .. n - 2 : regions'[j] = IF j < i THEN regions[j]
                                            ELSE IF j = i THEN r ELSE regions[j + 1]
    BY <2>1, <2>4, <2>5, <1>1 DEF Live
  <2>7. Loose = i .. stop - 1 /\ Loose' = i .. (stop - 1) - 1
    BY <2>1, LooseIn, LooseNext
  <2>8. ASSUME NEW j \in Live', Continues(j)' PROVE j \in Loose'
    <3>1. j \in 0 .. n - 2 /\ j + 1 < n - 1 /\ Mergeable(regions'[j], regions'[j + 1])
      BY <2>1, <2>8, <1>1 DEF Live, Continues, Mergeable, End
    <3>2. CASE j + 1 < i
      <4>1. j \in Live /\ regions'[j] = regions[j] /\ regions'[j + 1] = regions[j + 1]
        BY <2>1, <2>6, <3>1, <3>2, <1>1 DEF Live
      <4>2. j \in Loose
        BY <3>1, <4>1, <1>1, <1>4 DEF Continues
      <4> QED BY <2>7, <3>1, <3>2, <4>2, <1>1
    <3>3. CASE j + 1 = i
      <4>1. j \in Live /\ regions'[j] = regions[j] /\ regions'[j + 1] = r
        BY <2>1, <2>6, <3>1, <3>3, <1>1 DEF Live
      <4>2. Continues(j)
        BY <2>1, <2>3, <3>1, <3>3, <4>1, <1>1 DEF Continues, Mergeable
      <4> QED BY <2>7, <3>3, <4>1, <4>2, <1>1, <1>4
    <3>4. CASE j = i
      <4>1. regions'[j] = r /\ regions'[j + 1] = regions[(i + 1) + 1]
        BY <2>1, <2>6, <3>1, <3>4, <1>1
      <4>2. Continues(i + 1)
        BY <2>1, <2>3, <3>1, <3>4, <4>1, <1>1 DEF Continues, Mergeable
      <4> QED BY <2>2, <2>7, <3>4, <4>2, <1>1, <1>4
    <3>5. CASE j > i
      <4>1. j + 1 \in Live /\ regions'[j] = regions[j + 1] /\ regions'[j + 1] = regions[(j + 1) + 1]
        BY <2>1, <2>6, <3>1, <3>5, <1>1 DEF Live
      <4>2. j + 1 \in Loose
        BY <3>1, <4>1, <1>1, <1>4 DEF Continues
      <4> QED BY <2>7, <3>1, <3>5, <4>2, <1>1
    <3> QED BY <3>1, <3>2, <3>3, <3>4, <3>5, <2>1
  <2> QED BY <2>1, <2>8 DEF MergeInv
<1> QED BY <1>6, <1>7, <1>8, <1>9, <1>10, <1>11, <1>12, <1>13, <1>14, <1>15, <1>16, <1>18,
           <1>19, <1>21, <1>22, <1>23, <1>24, <1>25
        DEF Next, Step

\* The part of the array that merge_regions is going to look at holds every
\* pair of entries that could be one, in every state.
LEMMA MergeInvariant == Spec => []MergeInv
<1>1. Init => MergeInv
  BY DEF Init, MergeInv, Live
<1>2. TypeInv /\ OrderInv /\ IsolateInv /\ MergeInv /\ [Next]_vars => MergeInv'
  <2> SUFFICES ASSUME TypeInv, OrderInv, IsolateInv, MergeInv, [Next]_vars PROVE MergeInv'
    OBVIOUS
  <2>1. CASE UNCHANGED vars
    BY <2>1 DEF vars, memory, locals, MergeInv, Continues, Loose, Live, Mergeable
  <2> QED BY <2>1, MergeStep
<1> QED BY <1>1, <1>2, TypeInvariant, OrderInvariant, IsolateInvariant, PTL DEF Spec

\* Between calls no two neighbouring entries could be one: after every insert,
\* cut, flag or node change, and after a removal, merge_regions is called on a
\* range wide enough, and it joins whole runs of entries in one pass.
THEOREM NeighboursMerged == Spec => []Merged
<1>1. ASSUME TypeInv, MergeInv PROVE Merged
  BY <1>1, LooseIn DEF MergeInv, Merged, Continues
<1> QED BY <1>1, TypeInvariant, MergeInvariant, PTL

-----------------------------------------------------------------------------
(* memory.size.  Inserting an entry adds its bytes, which no other entry   *)
(* has; cutting, joining and changing entries moves no byte in or out.     *)
(* remove_region subtracts the size of the wrong slot, so the theorem is   *)
(* about the kernel as it is, in which nobody calls memblock_remove.       *)

\* The bytes covered by the first m entries of rs.
CoverOf(rs, m) == UNION {Bytes(rs[j]) : j \in 0 .. m - 1}

CountInv ==
    /\ pc # "remove" /\ call.fn # "remove"
    /\ SizeIsCoverage

\* A byte is covered when some entry holds it.
LEMMA InCover ==
    ASSUME NEW rs \in [Slots -> Region], NEW m \in 0 .. NR_REGIONS, NEW a
    PROVE  a \in CoverOf(rs, m) <=>
               a \in Nat /\ \E j \in 0 .. m - 1 : rs[j].base <= a /\ a < End(rs[j])
<1>1. \A j \in 0 .. m - 1 : rs[j].base \in Nat /\ End(rs[j]) \in Nat
  BY EntryType
<1>2. \A j \in 0 .. m - 1 : a \in Bytes(rs[j]) <=> a \in Nat /\ rs[j].base <= a /\ a < End(rs[j])
  BY <1>1, BytesOf
<1> QED BY <1>2 DEF CoverOf

\* Finitely many bytes are covered.
LEMMA CoverFinite ==
    ASSUME NEW rs \in [Slots -> Region], NEW m \in 0 .. NR_REGIONS, InOrder(rs, m)
    PROVE  IsFiniteSet(CoverOf(rs, m)) /\ Cardinality(CoverOf(rs, m)) \in Nat
<1>1. \A j \in 0 .. m - 1 : /\ rs[j].base \in Nat /\ rs[j].size \in Nat /\ rs[j].size > 0
                            /\ End(rs[j]) = rs[j].base + rs[j].size /\ End(rs[j]) \in Nat
  BY EntryType DEF InOrder
<1>2. IsFiniteSet(CoverOf(rs, m))
  <2>1. CASE m = 0
    <3>1. CoverOf(rs, m) = {}
      BY <2>1 DEF CoverOf
    <3> QED BY <3>1, FS_EmptySet
  <2>2. CASE m > 0
    <3>1. m - 1 \in 0 .. m - 1
      BY <2>2, MemblockAssumption
    <3>2. CoverOf(rs, m) \in SUBSET Nat
      BY InCover
    <3>3. \A a \in CoverOf(rs, m) : a <= End(rs[m - 1])
      <4> SUFFICES ASSUME NEW a \in CoverOf(rs, m) PROVE a <= End(rs[m - 1])
        OBVIOUS
      <4>1. PICK j \in 0 .. m - 1 : a \in Nat /\ rs[j].base <= a /\ a < End(rs[j])
        BY InCover
      <4>2. CASE j = m - 1
        BY <4>1, <4>2, <1>1
      <4>3. CASE j < m - 1
        <5>1. End(rs[j]) <= rs[m - 1].base
          BY <4>3, <3>1 DEF InOrder
        <5> QED BY <5>1, <4>1, <3>1, <1>1
      <4> QED BY <4>2, <4>3, MemblockAssumption
    <3>4. End(rs[m - 1]) \in Nat
      BY <3>1, <1>1
    <3> QED BY <3>2, <3>3, <3>4, FS_BoundedSetOfNaturals
  <2> QED BY <2>1, <2>2, MemblockAssumption
<1> QED BY <1>2, FS_CardinalityType

\* insert_region adds the bytes of the new entry.
LEMMA CoverInserted ==
    ASSUME NEW rs \in [Slots -> Region], NEW k \in Nat, NEW r \in Region,
           n \in Nat, n < NR_REGIONS, k <= n
    PROVE  CoverOf(Inserted(rs, k, r), n + 1) = CoverOf(rs, n) \cup Bytes(r)
<1> DEFINE new == Inserted(rs, k, r)
<1>1. \A j \in 0 .. n : /\ j < k => new[j] = rs[j]
                        /\ j = k => new[j] = r
                        /\ j > k => new[j] = rs[j - 1]
  BY InsertedAt
<1> HIDE DEF new
<1>2. (n + 1) - 1 = n
  OBVIOUS
<1>3. ASSUME NEW a \in CoverOf(new, n + 1) PROVE a \in CoverOf(rs, n) \cup Bytes(r)
  <2>1. PICK j \in 0 .. n : a \in Bytes(new[j])
    BY <1>2 DEF CoverOf
  <2>2. CASE j < k
    <3>1. j \in 0 .. n - 1 /\ a \in Bytes(rs[j])
      BY <2>1, <2>2, <1>1
    <3> QED BY <3>1 DEF CoverOf
  <2>3. CASE j = k
    BY <2>1, <2>3, <1>1
  <2>4. CASE j > k
    <3>1. j - 1 \in 0 .. n - 1 /\ a \in Bytes(rs[j - 1])
      BY <2>1, <2>4, <1>1
    <3> QED BY <3>1 DEF CoverOf
  <2> QED BY <2>2, <2>3, <2>4
<1>4. ASSUME NEW a \in CoverOf(rs, n) PROVE a \in CoverOf(new, n + 1)
  <2>1. PICK j \in 0 .. n - 1 : a \in Bytes(rs[j])
    BY DEF CoverOf
  <2>2. CASE j < k
    <3>1. j \in 0 .. n /\ a \in Bytes(new[j])
      BY <2>1, <2>2, <1>1
    <3> QED BY <3>1, <1>2 DEF CoverOf
  <2>3. CASE j >= k
    <3>1. j + 1 \in 0 .. n /\ j + 1 > k /\ (j + 1) - 1 = j
      BY <2>3
    <3>2. a \in Bytes(new[j + 1])
      BY <2>1, <3>1, <1>1
    <3> QED BY <3>1, <3>2, <1>2 DEF CoverOf
  <2> QED BY <2>2, <2>3
<1>5. ASSUME NEW a \in Bytes(r) PROVE a \in CoverOf(new, n + 1)
  <2>1. k \in 0 .. n /\ new[k] = r
    BY <1>1
  <2> QED BY <2>1, <1>2 DEF CoverOf
<1>6. CoverOf(new, n + 1) = CoverOf(rs, n) \cup Bytes(r)
  BY <1>3, <1>4, <1>5
<1> QED BY <1>6 DEF new

\* Bytes no entry has add up.
LEMMA CountInserted ==
    ASSUME NEW S, IsFiniteSet(S), NEW r \in Region, r.size > 0, \A a \in Bytes(r) : a \notin S
    PROVE  Cardinality(S \cup Bytes(r)) = Cardinality(S) + r.size
<1>1. r.base \in Nat /\ r.size \in Nat /\ End(r) = r.base + r.size
  BY DEF Region, End
<1>2. Bytes(r) = r.base .. (r.base + r.size) - 1
  BY <1>1 DEF Bytes
<1>3. PICK x \in Int, y \in Int : x = r.base /\ y = (r.base + r.size) - 1
  BY <1>1
<1>4. IsFiniteSet(x .. y) /\ Cardinality(x .. y) = r.size
  <2>1. IsFiniteSet(x .. y) /\ Cardinality(x .. y) = IF x > y THEN 0 ELSE (y - x) + 1
    BY FS_Interval
  <2>2. ~(x > y) /\ (y - x) + 1 = r.size
    BY <1>1, <1>3
  <2> QED BY <2>1, <2>2
<1>5. IsFiniteSet(Bytes(r)) /\ Cardinality(Bytes(r)) = r.size
  BY <1>2, <1>3, <1>4
<1>6. S \cap Bytes(r) = {}
  OBVIOUS
<1>7. Cardinality(S \cup Bytes(r)) = Cardinality(S) + Cardinality(Bytes(r)) - Cardinality({})
  BY <1>5, <1>6, FS_Union
<1>8. Cardinality({}) = 0 /\ Cardinality(S) \in Nat
  BY FS_EmptySet, FS_CardinalityType
<1> QED BY <1>1, <1>5, <1>7, <1>8
\* Cutting an entry in two covers the same bytes.
LEMMA CoverSplit ==
    ASSUME NEW at \in Nat, TypeOK, i \in Live, n < NR_REGIONS,
           regions[i].base < at, at < End(regions[i]), NEW new \in [Slots -> Region],
           \A j \in 0 .. n :
              new[j] = IF j < i THEN regions[j]
                       ELSE IF j = i THEN Lower(regions[i], at)
                       ELSE IF j = i + 1 THEN Upper(regions[i], at) ELSE regions[j - 1]
    PROVE  CoverOf(new, n + 1) = CoverOf(regions, n)
<1>1. /\ regions \in [Slots -> Region] /\ n \in 0 .. NR_REGIONS /\ n + 1 \in 0 .. NR_REGIONS
      /\ n \in Nat /\ i \in Nat /\ i < n /\ (n + 1) - 1 = n
  BY MemblockAssumption DEF TypeOK, Live
<1>3. \A j \in 0 .. n - 1 : /\ regions[j].base \in Nat /\ regions[j].size \in Nat
                            /\ End(regions[j]) = regions[j].base + regions[j].size
  BY <1>1, EntryType
<1>4. /\ Lower(regions[i], at).base = regions[i].base /\ End(Lower(regions[i], at)) = at
      /\ Upper(regions[i], at).base = at /\ End(Upper(regions[i], at)) = End(regions[i])
  BY <1>1, <1>3 DEF Lower, Upper, NewRegion, End
<1>5. ASSUME NEW a \in Nat, NEW j \in 0 .. n, new[j].base <= a, a < End(new[j])
      PROVE  \E k \in 0 .. n - 1 : regions[k].base <= a /\ a < End(regions[k])
  <2>1. CASE j < i
    <3>1. j \in 0 .. n - 1 /\ new[j] = regions[j]
      BY <2>1, <1>1
    <3> QED BY <3>1, <1>5
  <2>2. CASE j = i \/ j = i + 1
    <3>1. i \in 0 .. n - 1
      BY <1>1
    <3>2. new[j] = Lower(regions[i], at) \/ new[j] = Upper(regions[i], at)
      BY <2>2, <1>1
    <3>3. regions[i].base <= a /\ a < End(regions[i])
      BY <3>1, <3>2, <1>3, <1>4, <1>5
    <3> QED BY <3>1, <3>3
  <2>3. CASE j > i + 1
    <3>1. j - 1 \in 0 .. n - 1 /\ new[j] = regions[j - 1]
      BY <2>3, <1>1
    <3> QED BY <3>1, <1>5
  <2> QED BY <2>1, <2>2, <2>3, <1>1
<1>6. ASSUME NEW a \in Nat, NEW j \in 0 .. n - 1, regions[j].base <= a, a < End(regions[j])
      PROVE  \E k \in 0 .. n : new[k].base <= a /\ a < End(new[k])
  <2>1. CASE j < i
    <3>1. j \in 0 .. n /\ new[j] = regions[j]
      BY <2>1, <1>1
    <3> QED BY <3>1, <1>6
  <2>2. CASE j = i /\ a < at
    <3>1. i \in 0 .. n /\ new[i] = Lower(regions[i], at)
      BY <1>1
    <3> QED BY <2>2, <3>1, <1>4, <1>6
  <2>3. CASE j = i /\ ~(a < at)
    <3>1. i + 1 \in 0 .. n /\ new[i + 1] = Upper(regions[i], at)
      BY <1>1
    <3> QED BY <2>3, <3>1, <1>4, <1>6
  <2>4. CASE j > i
    <3>1. j + 1 \in 0 .. n /\ new[j + 1] = regions[j]
      BY <2>4, <1>1
    <3> QED BY <3>1, <1>6
  <2> QED BY <2>1, <2>2, <2>3, <2>4, <1>1
<1>7. \A a : a \in CoverOf(regions, n) <=>
               a \in Nat /\ \E j \in 0 .. n - 1 : regions[j].base <= a /\ a < End(regions[j])
  BY <1>1, InCover
<1>8. \A a : a \in CoverOf(new, n + 1) <=>
               a \in Nat /\ \E j \in 0 .. n : new[j].base <= a /\ a < End(new[j])
  BY <1>1, InCover
<1> QED BY <1>5, <1>6, <1>7, <1>8

\* Joining an entry with the one behind it covers the same bytes.
LEMMA CoverJoin ==
    ASSUME TypeOK, i \in Nat, i + 1 < n, End(regions[i]) = regions[i + 1].base,
           NEW new \in [Slots -> Region],
           \A j \in 0 .. n - 2 :
              new[j] = IF j < i THEN regions[j]
                       ELSE IF j = i THEN Joined(regions[i], regions[i + 1]) ELSE regions[j + 1]
    PROVE  CoverOf(new, n - 1) = CoverOf(regions, n)
<1> DEFINE r == Joined(regions[i], regions[i + 1])
<1>1. /\ regions \in [Slots -> Region] /\ n \in 0 .. NR_REGIONS /\ n - 1 \in 0 .. NR_REGIONS
      /\ n \in Nat /\ (n - 1) - 1 = n - 2 /\ i \in 0 .. n - 1 /\ i + 1 \in 0 .. n - 1
  BY MemblockAssumption DEF TypeOK
<1>2. \A j \in 0 .. n - 1 : /\ regions[j].base \in Nat /\ regions[j].size \in Nat
                            /\ End(regions[j]) = regions[j].base + regions[j].size
  BY <1>1, EntryType
<1>3. r.base = regions[i].base /\ End(r) = End(regions[i + 1])
  BY <1>1, <1>2 DEF Joined, NewRegion, End
<1> HIDE DEF r
<1>6. \A j \in 0 .. n - 2 : new[j] = IF j < i THEN regions[j]
                                      ELSE IF j = i THEN r ELSE regions[j + 1]
  BY DEF r
<1>7. ASSUME NEW a \in Nat, NEW j \in 0 .. n - 2, new[j].base <= a, a < End(new[j])
      PROVE  \E k \in 0 .. n - 1 : regions[k].base <= a /\ a < End(regions[k])
  <2>1. CASE j < i
    <3>1. j \in 0 .. n - 1 /\ new[j] = regions[j]
      BY <2>1, <1>1, <1>6
    <3> QED BY <3>1, <1>7
  <2>2. CASE j = i
    <3>1. regions[i].base <= a /\ a < End(regions[i + 1])
      BY <2>2, <1>3, <1>6, <1>7
    <3>2. CASE a < End(regions[i])
      BY <3>1, <3>2, <1>1
    <3>3. CASE ~(a < End(regions[i]))
      <4>1. regions[i + 1].base <= a
        BY <3>3, <1>1, <1>2
      <4> QED BY <3>1, <4>1, <1>1
    <3> QED BY <3>2, <3>3
  <2>3. CASE j > i
    <3>1. j + 1 \in 0 .. n - 1 /\ new[j] = regions[j + 1]
      BY <2>3, <1>1, <1>6
    <3> QED BY <3>1, <1>7
  <2> QED BY <2>1, <2>2, <2>3, <1>1
<1>8. ASSUME NEW a \in Nat, NEW j \in 0 .. n - 1, regions[j].base <= a, a < End(regions[j])
      PROVE  \E k \in 0 .. n - 2 : new[k].base <= a /\ a < End(new[k])
  <2>1. CASE j < i
    <3>1. j \in 0 .. n - 2 /\ new[j] = regions[j]
      BY <2>1, <1>1, <1>6
    <3> QED BY <3>1, <1>8
  <2>2. CASE j = i \/ j = i + 1
    <3>1. i \in 0 .. n - 2 /\ new[i] = r
      BY <1>1, <1>6
    <3>2. r.base <= a /\ a < End(r)
      BY <2>2, <1>1, <1>2, <1>3, <1>8
    <3> QED BY <3>1, <3>2
  <2>3. CASE j > i + 1
    <3>1. j - 1 \in 0 .. n - 2 /\ new[j - 1] = regions[j]
      BY <2>3, <1>1, <1>6
    <3> QED BY <3>1, <1>8
  <2> QED BY <2>1, <2>2, <2>3, <1>1
<1>9. \A a : a \in CoverOf(regions, n) <=>
               a \in Nat /\ \E j \in 0 .. n - 1 : regions[j].base <= a /\ a < End(regions[j])
  BY <1>1, InCover
<1>10. \A a : a \in CoverOf(new, n - 1) <=>
               a \in Nat /\ \E j \in 0 .. n - 2 : new[j].base <= a /\ a < End(new[j])
  BY <1>1, InCover
<1> QED BY <1>7, <1>8, <1>9, <1>10
\* What merge_regions leaves in each slot.
LEMMA JoinAt ==
    ASSUME TypeOK, i \in Nat, i + 1 < n
    PROVE  LET new == Dropped([regions EXCEPT ![i] = Joined(@, regions[i + 1])], i + 1)
           IN  \A j \in 0 .. n - 2 :
                 new[j] = IF j < i THEN regions[j]
                          ELSE IF j = i THEN Joined(regions[i], regions[i + 1])
                          ELSE regions[j + 1]
<1> DEFINE rs == [regions EXCEPT ![i] = Joined(@, regions[i + 1])]
           r == Joined(regions[i], regions[i + 1])
<1>1. n \in Nat /\ n \in 0 .. NR_REGIONS /\ i + 1 \in Nat
  BY DEF TypeOK
<1>2. rs[i] = r /\ \A j \in 0 .. n - 1 : j # i => rs[j] = regions[j]
  BY MemblockAssumption DEF TypeOK, Slots
<1> HIDE DEF rs, r
<1>3. \A j \in 0 .. n - 2 : Dropped(rs, i + 1)[j] = IF j < i + 1 THEN rs[j] ELSE rs[j + 1]
  BY <1>1, DroppedAt
<1>4. \A j \in 0 .. n - 2 :
        Dropped(rs, i + 1)[j] = IF j < i THEN regions[j] ELSE IF j = i THEN r ELSE regions[j + 1]
  BY <1>1, <1>2, <1>3
<1> QED BY <1>4 DEF rs, r

\* memory.size follows the bytes covered through every step.
LEMMA CountStep ==
    ASSUME TypeInv, TypeInv', OrderInv, OrderInv', CountInv, Next, MaxRemoves = 0
    PROVE  CountInv'
<1>1. /\ n \in Nat /\ i \in Int /\ base \in Nat /\ end \in Nat /\ size \in Int
      /\ NR_REGIONS \in Nat /\ n <= NR_REGIONS /\ n \in 0 .. NR_REGIONS
      /\ regions \in [Slots -> Region] /\ regions' \in [Slots -> Region]
  BY MemblockAssumption DEF TypeInv, TypeOK
<1>2. TypeOK /\ IndexInv /\ InOrder(regions, n)
  BY SortedInOrder DEF TypeInv, OrderInv
<1>3. \A j \in Live : /\ regions[j].base \in Nat /\ regions[j].size \in Nat
                      /\ End(regions[j]) \in Nat
                      /\ End(regions[j]) = regions[j].base + regions[j].size
  BY LiveEntry
<1>4. Covered = CoverOf(regions, n) /\ Covered' = CoverOf(regions', n')
  BY DEF Covered, CoverOf, Live
<1>5. ASSUME pc # "halt", size' = size, CoverOf(regions', n') = CoverOf(regions, n),
             pc' # "remove", call'.fn # "remove"
      PROVE  CountInv'
  BY <1>4, <1>5 DEF CountInv, SizeIsCoverage
<1>6. ASSUME pc # "halt", UNCHANGED memory, pc' # "remove", call'.fn # "remove"
      PROVE  CountInv'
  BY <1>5, <1>6 DEF memory
<1>7. CASE Request
  <2>1. ASSUME NEW b \in Addrs, NEW s \in Addrs PROVE ~memblock_remove(b, s)
    BY <1>2 DEF memblock_remove, TypeOK
  <2>2. ASSUME NEW b \in Addrs, NEW s \in Addrs, NEW nd \in Nids, memblock_add(b, s, nd)
        PROVE  CountInv'
    <3>1. pc = "idle" /\ call'.fn # "remove" /\ pc' # "remove"
      BY <2>2 DEF memblock_add, Begin, RangeCall
    <3>2. CASE UNCHANGED memory
      BY <3>1, <3>2, <1>6
    <3>3. CASE /\ s > 0 /\ n' = 1 /\ size' = s
               /\ regions' = [regions EXCEPT ![0] = NewRegion(b, s, "NONE", nd)]
      <4> DEFINE r == NewRegion(b, s, "NONE", nd)
      <4>1. r \in Region /\ r.size = s
        BY <3>3, MemblockAssumption DEF NewRegion, Region, Flags, Addrs
      <4>2. regions'[0] = r
        BY <3>3, <1>1, MemblockAssumption DEF Slots
      <4> HIDE DEF r
      <4>3. Covered' = {} \cup Bytes(r)
        BY <4>2, <3>3, <1>4 DEF CoverOf
      <4>4. Cardinality({} \cup Bytes(r)) = Cardinality({}) + r.size
        BY <4>1, <3>3, FS_EmptySet, CountInserted
      <4>5. Cardinality(Covered') = s
        BY <4>1, <4>3, <4>4, FS_EmptySet DEF Addrs
      <4> QED BY <3>1, <3>3, <4>5 DEF CountInv, SizeIsCoverage
    <3> QED BY <2>2, <3>2, <3>3 DEF memblock_add
  <2>3. CASE UNCHANGED memory /\ pc = "idle" /\ pc' # "remove" /\ call'.fn # "remove"
    BY <2>3, <1>6
  <2> QED BY <1>7, <2>1, <2>2, <2>3 DEF Request, memblock_reserve, memblock_free, Begin,
             memblock_setclr_flag, memblock_set_node, memblock_alloc, RangeCall, AllocCall
<1>8. CASE \/ AddSkip \/ AddCovered \/ AddNoTail \/ AllocFind \/ AllocRetry \/ IsolateEmpty
           \/ IsolateNoSpace \/ IsolateStart \/ IsolateSkip \/ IsolateInside \/ IsolateDone
           \/ SetDone \/ MergeKeep \/ MergeFault \/ MergeDone \/ Return
  <2>1. pc # "halt" /\ UNCHANGED memory /\ pc' # "remove" /\ call'.fn # "remove"
    BY <1>8 DEF AddSkip, AddCovered, AddNoTail, AllocFind, AllocRetry, IsolateEmpty, Isolated,
       IsolateNoSpace, IsolateStart, IsolateSkip, IsolateInside, IsolateDone, SetDone,
       MergeKeep, MergeFault, MergeDone, Return, NoCall, RangeCall, CountInv, memory
  <2> QED BY <2>1, <1>6
<1>9. CASE RemoveStep \/ RemoveDone
  BY <1>9 DEF RemoveStep, RemoveDone, CountInv
<1>10. CASE InsertHalt
  BY <1>10 DEF InsertHalt, CountInv, SizeIsCoverage
<1>11. ASSUME NEW r \in Region, r.size > 0, InsertAt(i, r), pc # "halt", 0 <= i, i <= n,
              \A j \in Live : End(regions[j]) <= r.base \/ End(r) <= regions[j].base
       PROVE  Cardinality(Covered') = Cardinality(Covered) + r.size
              /\ size' = size + r.size
  <2>1. /\ i \in Nat /\ n < NR_REGIONS /\ n' = n + 1 /\ size' = size + r.size
        /\ regions' = Inserted(regions, i, r)
    BY <1>11, <1>1 DEF InsertAt, HasRoom
  <2>2. Covered' = Covered \cup Bytes(r)
    BY <2>1, <1>1, <1>4, <1>11, CoverInserted
  <2>3. r.base \in Nat /\ r.size \in Nat /\ End(r) \in Nat
    BY DEF Region, End
  <2>4. ASSUME NEW a \in Bytes(r) PROVE a \notin Covered
    <3>1. a \in Nat /\ r.base <= a /\ a < End(r)
      BY <2>3, BytesOf
    <3> SUFFICES ASSUME a \in Covered PROVE FALSE
      OBVIOUS
    <3>2. PICK j \in Live : a \in Bytes(regions[j])
      BY DEF Covered
    <3>3. regions[j].base <= a /\ a < End(regions[j])
      BY <3>2, <1>3, BytesOf
    <3>4. End(regions[j]) <= r.base \/ End(r) <= regions[j].base
      BY <1>11
    <3> QED BY <3>1, <3>3, <3>4, <2>3, <1>3
  <2>5. IsFiniteSet(Covered)
    BY <1>1, <1>2, <1>4, CoverFinite
  <2>6. Cardinality(Covered \cup Bytes(r)) = Cardinality(Covered) + r.size
    BY <2>4, <2>5, <1>11, CountInserted
  <2> QED BY <2>1, <2>2, <2>6
<1>12. CASE AddGap
  <2> DEFINE r == NewRegion(base, regions[i].base - base, "NONE", nid)
  <2>1. /\ i \in Live /\ pc = "add" /\ pc' = "add" /\ call' = call /\ InsertAt(i, r)
        /\ base < regions[i].base /\ regions[i].base < end /\ nid \in Nids /\ 0 <= i /\ i <= n
    BY <1>12, <1>1, <1>2 DEF AddGap, IndexInv, Live, TypeOK
  <2>2. r \in Region /\ r.size > 0 /\ r.base = base /\ End(r) = regions[i].base
    BY <2>1, <1>1, <1>3 DEF NewRegion, Region, Flags, End
  <2> HIDE DEF r
  <2>3. ASSUME NEW j \in Live PROVE End(regions[j]) <= r.base \/ End(r) <= regions[j].base
    <3>1. CASE j < i
      BY <3>1, <2>1, <2>2, <1>1, <1>3 DEF OrderInv, AddInv
    <3>2. CASE j = i
      BY <3>2, <2>2, <1>3
    <3>3. CASE j > i
      <4>1. End(regions[i]) <= regions[j].base
        BY <3>3, <2>1, LiveEntry
      <4>2. regions[i].base <= End(regions[i])
        BY <2>1, <1>3
      <4> QED BY <4>1, <4>2, <2>1, <2>2, <1>3
    <3> QED BY <3>1, <3>2, <3>3, <1>1 DEF Live
  <2>4. Cardinality(Covered') = Cardinality(Covered) + r.size /\ size' = size + r.size
    BY <2>1, <2>2, <2>3, <1>11
  <2> QED BY <2>1, <2>4 DEF CountInv, SizeIsCoverage
<1>13. CASE AddTail
  <2> DEFINE r == NewRegion(base, end - base, "NONE", nid)
  <2>1. /\ pc = "add" /\ pc' = "merge" /\ call' = call /\ InsertAt(i, r) /\ LoopOver
        /\ base < end /\ nid \in Nids /\ 0 <= i /\ i <= n
    BY <1>13, <1>1, <1>2 DEF AddTail, IndexInv, TypeOK
  <2>2. r \in Region /\ r.size > 0 /\ r.base = base /\ End(r) = end
    BY <2>1, <1>1 DEF NewRegion, Region, Flags, End
  <2> HIDE DEF r
  <2>3. ASSUME NEW j \in Live PROVE End(regions[j]) <= r.base \/ End(r) <= regions[j].base
    <3>1. CASE j < i
      BY <3>1, <2>1, <2>2, <1>1, <1>3 DEF OrderInv, AddInv
    <3>2. CASE j >= i
      <4>1. i \in Live /\ end <= regions[i].base
        BY <3>2, <2>1, <1>1 DEF LoopOver, Live
      <4>2. CASE j = i
        BY <4>1, <4>2, <2>2
      <4>3. CASE j > i
        <5>1. End(regions[i]) <= regions[j].base
          BY <4>1, <4>3, LiveEntry
        <5>2. regions[i].base <= End(regions[i])
          BY <4>1, <1>3
        <5> QED BY <5>1, <5>2, <4>1, <2>2, <1>1, <1>3
      <4> QED BY <3>2, <4>2, <4>3, <1>1 DEF Live
    <3> QED BY <3>1, <3>2, <1>1 DEF Live
  <2>4. Cardinality(Covered') = Cardinality(Covered) + r.size /\ size' = size + r.size
    BY <2>1, <2>2, <2>3, <1>11
  <2> QED BY <2>1, <2>4 DEF CountInv, SizeIsCoverage
<1>14. ASSUME NEW at \in Nat, Split(at), i \in Live, regions[i].base < at, at < End(regions[i])
       PROVE  size' = size /\ CoverOf(regions', n') = CoverOf(regions, n)
  <2>1. n < NR_REGIONS /\ n' = n + 1 /\ size' = (size - (at - regions[i].base)) + (at - regions[i].base)
        /\ regions' = Inserted([regions EXCEPT ![i] = Upper(@, at)], i, Lower(regions[i], at))
    BY <1>14, <1>1 DEF Split, HasRoom
  <2>2. \A j \in 0 .. n :
          regions'[j] = IF j < i THEN regions[j]
                        ELSE IF j = i THEN Lower(regions[i], at)
                        ELSE IF j = i + 1 THEN Upper(regions[i], at) ELSE regions[j - 1]
    BY <2>1, <1>2, <1>14, SplitAt
  <2>3. n < NR_REGIONS
    BY <2>1
  <2>4. CoverOf(regions', n + 1) = CoverOf(regions, n)
    BY <2>2, <2>3, <1>1, <1>2, <1>14, CoverSplit
  <2>5. size' = size
    BY <2>1, <1>1, <1>3, <1>14
  <2> QED BY <2>1, <2>4, <2>5
<1>15. CASE IsolateLow
  <2>1. /\ pc = "isolate" /\ pc' = pc /\ call' = call /\ Split(base) /\ i \in Live
        /\ regions[i].base < base /\ base < End(regions[i])
    BY <1>15, <1>1, <1>2 DEF IsolateLow, IndexInv, Live
  <2>2. call'.fn # "remove"
    BY <2>1 DEF CountInv
  <2> QED BY <2>1, <2>2, <1>1, <1>5, <1>14
<1>16. CASE IsolateHigh
  <2>1. /\ pc = "isolate" /\ pc' = pc /\ call' = call /\ Split(end) /\ i \in Live
        /\ regions[i].base < end /\ end < End(regions[i])
    BY <1>16, <1>1, <1>2 DEF IsolateHigh, IndexInv, Live
  <2>2. call'.fn # "remove"
    BY <2>1 DEF CountInv
  <2> QED BY <2>1, <2>2, <1>1, <1>5, <1>14
<1>17. CASE SetStep
  <2>1. /\ pc = "set" /\ pc' = "set" /\ i \in Live /\ n' = n /\ size' = size /\ call' = call
        /\ regions' = [regions EXCEPT ![i] = Updated(regions[i], call)]
    BY <1>17, <1>1, <1>2 DEF SetStep, IndexInv, Live, TypeOK
  <2>2. /\ Updated(regions[i], call).base = regions[i].base
        /\ Updated(regions[i], call).size = regions[i].size
    BY <2>1, <1>1, EntryType DEF Updated, Region, Live
  <2>3. \A j \in 0 .. n - 1 : Bytes(regions'[j]) = Bytes(regions[j])
    BY <2>1, <2>2, <1>1 DEF Bytes, End, Live, Slots
  <2>4. CoverOf(regions', n') = CoverOf(regions, n)
    BY <2>1, <2>3 DEF CoverOf
  <2>5. call'.fn # "remove"
    BY <2>1 DEF CountInv
  <2> QED BY <2>1, <2>4, <2>5, <1>5
<1>18. CASE MergeJoin
  <2>1. /\ pc = "merge" /\ pc' = "merge" /\ i \in Nat /\ i + 1 < n /\ n' = n - 1 /\ call' = call
        /\ size' = size /\ End(regions[i]) = regions[i + 1].base
        /\ regions' = Dropped([regions EXCEPT ![i] = Joined(@, regions[i + 1])], i + 1)
    BY <1>18, <1>1, <1>2 DEF MergeJoin, IndexInv, Mergeable
  <2>2. \A j \in 0 .. n - 2 :
          regions'[j] = IF j < i THEN regions[j]
                        ELSE IF j = i THEN Joined(regions[i], regions[i + 1]) ELSE regions[j + 1]
    BY <2>1, <1>2, JoinAt
  <2>3. i \in Nat /\ i + 1 < n /\ End(regions[i]) = regions[i + 1].base
    BY <2>1
  <2>4. CoverOf(regions', n - 1) = CoverOf(regions, n)
    BY <2>2, <2>3, <1>1, <1>2, CoverJoin
  <2>5. call'.fn # "remove" /\ n' = n - 1
    BY <2>1 DEF CountInv
  <2> QED BY <2>1, <2>4, <2>5, <1>5
<1> QED BY <1>7, <1>8, <1>9, <1>10, <1>12, <1>13, <1>15, <1>16, <1>17, <1>18 DEF Next, Step

\* In the kernel as it is (nobody calls memblock_remove), memory.size, which
\* memblock_phys_mem_size returns, is the number of bytes the entries cover, in
\* every state but a halt: add_range, insert_region, isolate_range and
\* merge_regions keep it right between them.
THEOREM SizeRight ==
    ASSUME MaxRemoves = 0
    PROVE  Spec => []SizeIsCoverage
<1>1. Init => CountInv
  <2> SUFFICES ASSUME Init PROVE CountInv
    OBVIOUS
  <2>1. Covered = {} /\ size = 0
    BY DEF Init, Covered, Live
  <2>2. SizeIsCoverage
    BY <2>1, FS_EmptySet DEF SizeIsCoverage
  <2> QED BY <2>2 DEF Init, CountInv, NoCall, RangeCall
<1>2. /\ TypeInv /\ TypeInv' /\ OrderInv /\ OrderInv' /\ CountInv /\ [Next]_vars => CountInv'
  <2> SUFFICES ASSUME TypeInv, TypeInv', OrderInv, OrderInv', CountInv, [Next]_vars
               PROVE  CountInv'
    OBVIOUS
  <2>1. CASE UNCHANGED vars
    BY <2>1 DEF vars, memory, locals, CountInv, SizeIsCoverage, Covered, Live
  <2> QED BY <2>1, CountStep
<1>3. CountInv => SizeIsCoverage
  BY DEF CountInv
<1> QED BY <1>1, <1>2, <1>3, TypeInvariant, OrderInvariant, PTL DEF Spec

-----------------------------------------------------------------------------
(* memblock_alloc.  A free block whose bytes are alike lies inside one     *)
(* entry, because its neighbours would have been merged otherwise; so      *)
(* looking for room inside one entry misses nothing.                       *)

\* A search of memblock_alloc for node nd that failed had to.
Failed(nd) ==
    \/ n + 2 > NR_REGIONS
    \/ \A p \in 0 .. MaxAddr - 1 :
          ~BlockFree(p, call.size, call.align, call.lo, call.hi, nd)

AllocInv ==
    call.fn = "alloc" /\ call.size > 0 =>
        /\ pc \notin {"add", "remove"}
        /\ pc \in {"find", "retry"} => nid = call.nid \/ Failed(call.nid)
        /\ pc = "retry" => Failed(nid)
        /\ pc \in {"entry", "isolate", "set", "merge"} => ret # 0
        /\ pc = "return" /\ ret = 0 => Failed(nid) /\ Failed(call.nid)

\* Rounding up does not go past an aligned address.
LEMMA AlignUpBelow ==
    ASSUME NEW x \in Nat, NEW a \in Nat \ {0}, NEW p \in Nat, p % a = 0, x <= p
    PROVE  AlignUp(x, a) <= p
<1>1. PICK q \in Nat : p = q * a
  <2>1. PICK q \in Nat : q = p \div a
    OBVIOUS
  <2>2. p = q * a + (p % a)
    BY <2>1
  <2>3. q * a \in Nat
    OBVIOUS
  <2>4. p = q * a
    BY <2>2, <2>3
  <2> QED BY <2>4
<1>2. PICK d \in Nat : d = (x + a - 1) \div a
  OBVIOUS
<1>3. d * a <= x + a - 1
  BY <1>2
<1>4. d * a < q * a + a
  <2>1. d * a \in Nat /\ q * a \in Nat
    OBVIOUS
  <2> QED BY <2>1, <1>1, <1>3
<1>5. d <= q
  <2> SUFFICES ASSUME d >= q + 1 PROVE FALSE
    OBVIOUS
  <2>1. d * a >= (q + 1) * a
    OBVIOUS
  <2>2. (q + 1) * a = q * a + a
    OBVIOUS
  <2>3. d * a \in Nat /\ q * a \in Nat
    OBVIOUS
  <2> QED BY <2>1, <2>2, <2>3, <1>4
<1>6. d * a <= q * a
  BY <1>5
<1> QED BY <1>1, <1>2, <1>6 DEF AlignUp

\* The entry that holds a covered byte.
LEMMA HolderOf ==
    ASSUME TypeInv, OrderInv, NEW b \in Covered
    PROVE  /\ Holder(b) \in Live /\ b \in Nat
           /\ regions[Holder(b)].base <= b /\ b < End(regions[Holder(b)])
<1>1. \E j \in Live : b \in Bytes(regions[j])
  BY DEF Covered
<1>2. Holder(b) \in Live /\ b \in Bytes(regions[Holder(b)])
  BY <1>1 DEF Holder
<1>3. regions[Holder(b)].base \in Nat /\ End(regions[Holder(b)]) \in Nat
  BY <1>2, LiveEntry
<1> QED BY <1>2, <1>3, BytesOf

\* A block that could be handed out lies inside one entry.
LEMMA BlockInOneEntry ==
    ASSUME TypeInv, OrderInv, \A j \in Live : ~Continues(j),
           NEW p \in Nat, NEW sz \in Nat, sz > 0, NEW a, NEW lo, NEW hi, NEW nd,
           BlockFree(p, sz, a, lo, hi, nd)
    PROVE  /\ Holder(p) \in Live /\ regions[Holder(p)].base <= p
           /\ p + sz <= End(regions[Holder(p)])
<1>1. \A b \in p .. p + sz - 1 : b \in Covered
  BY DEF BlockFree
<1>2. p \in p .. p + sz - 1
  OBVIOUS
<1>3. PICK j \in Live : j = Holder(p)
  BY <1>1, <1>2, HolderOf
<1>4. regions[j].base <= p /\ p < End(regions[j])
  BY <1>1, <1>2, <1>3, HolderOf
<1>5. /\ \A k \in Live : /\ regions[k].base \in Nat /\ End(regions[k]) \in Nat
                         /\ regions[k].base < End(regions[k])
      /\ n \in Nat
  BY LiveEntry
<1>6. ASSUME End(regions[j]) < p + sz PROVE FALSE
  <2>1. PICK e \in Nat : e = End(regions[j])
    BY <1>5
  <2>2. e \in p .. p + sz - 1
    BY <1>4, <1>6, <2>1
  <2>3. PICK k \in Live : k = Holder(e)
    BY <1>1, <2>2, HolderOf
  <2>4. regions[k].base <= e /\ e < End(regions[k])
    BY <1>1, <2>2, <2>3, HolderOf
  <2>5. k # j
    BY <2>1, <2>4
  <2>6. ~(k < j)
    <3> SUFFICES ASSUME k < j PROVE FALSE
      OBVIOUS
    <3>1. End(regions[k]) <= regions[j].base
      BY LiveEntry
    <3>2. /\ regions[j].base \in Nat /\ End(regions[k]) \in Nat
          /\ regions[j].base < End(regions[j])
      BY <1>5
    <3> QED BY <2>1, <2>4, <3>1, <3>2
  <2>7. j \in Nat /\ k \in Nat /\ k < n /\ j < k
    BY <2>5, <2>6, <1>5 DEF Live
  <2>8. j + 1 \in Live /\ j + 1 < n
    BY <2>7, <1>5 DEF Live
  <2>9. e <= regions[j + 1].base
    <3>1. End(regions[j]) <= regions[j + 1].base
      BY <2>7, <2>8, LiveEntry
    <3> QED BY <2>1, <3>1
  <2>10. k = j + 1
    <3> SUFFICES ASSUME j + 1 < k PROVE FALSE
      BY <2>7
    <3>1. End(regions[j + 1]) <= regions[k].base
      BY <2>8, LiveEntry
    <3>2. /\ regions[j + 1].base \in Nat /\ End(regions[j + 1]) \in Nat
          /\ regions[j + 1].base < End(regions[j + 1]) /\ regions[k].base \in Nat
      BY <2>8, <1>5
    <3> QED BY <2>4, <2>9, <3>1, <3>2
  <2>11. End(regions[j]) = regions[j + 1].base
    <3>1. regions[j + 1].base \in Nat
      BY <2>8, <1>5
    <3> QED BY <2>1, <2>4, <2>9, <2>10, <3>1
  <2>12. regions[j].flags = regions[j + 1].flags
    BY <1>2, <1>3, <2>2, <2>3, <2>10 DEF BlockFree
  <2>13. regions[j].nid = regions[j + 1].nid
    BY <1>2, <1>3, <2>2, <2>3, <2>10 DEF BlockFree
  <2> QED BY <2>8, <2>11, <2>12, <2>13 DEF Continues, Mergeable
<1>7. p + sz <= End(regions[j])
  BY <1>5, <1>6
<1> QED BY <1>3, <1>4, <1>7

\* When no two neighbours could be one entry, find_in_range_node answers 0
\* only if there is no block to hand out.
LEMMA FindComplete ==
    ASSUME TypeInv, OrderInv, \A j \in Live : ~Continues(j),
           NEW sz \in Nat, sz > 0, NEW a \in Nat \ {0}, NEW lo \in Nat, NEW hi \in Nat,
           NEW nd \in Nids, find_in_range_node(sz, a, lo, hi, nd) = 0,
           NEW p \in Nat
    PROVE  ~BlockFree(p, sz, a, lo, hi, nd)
<1> SUFFICES ASSUME BlockFree(p, sz, a, lo, hi, nd) PROVE FALSE
  OBVIOUS
<1> DEFINE from == MaxOf(lo, PAGE_SIZE)
           to == MaxOf(from, hi)
           hits == {j \in 0 .. n - 1 : Fits(regions[j], sz, a, from, to, nd)}
           first == CHOOSE j \in hits : \A k \in hits : j <= k
<1>1. /\ from \in Nat /\ to \in Nat /\ from > 0 /\ from <= to /\ hi <= to
      /\ from = lo \/ from = PAGE_SIZE
  BY MemblockAssumption DEF MaxOf
<1>2. /\ n \in Nat /\ \A j \in Live : /\ regions[j].base \in Nat /\ End(regions[j]) \in Nat
                                      /\ regions[j].base < End(regions[j])
  BY LiveEntry
<1> HIDE DEF from, to
<1>3. hits = {}
  <2> SUFFICES ASSUME hits # {} PROVE FALSE
    OBVIOUS
  <2>1. hits \in SUBSET Nat
    BY <1>2
  <2>2. \E j \in hits : \A k \in hits : j <= k
    BY <2>1, LeastNatural
  <2>3. first \in 0 .. n - 1
    BY <2>2
  <2>4. find_in_range_node(sz, a, lo, hi, nd) = FitBase(regions[first], a, from, to)
    BY DEF find_in_range_node, from, to
  <2>5. PICK j \in Live : j = first
    BY <2>3 DEF Live
  <2>6. PICK x \in Nat : x = Clamp(regions[j].base, from, to)
    BY <1>1, <1>2 DEF Clamp, MinOf, MaxOf
  <2>7. x >= from
    BY <2>6, <1>1, <1>2 DEF Clamp, MinOf, MaxOf
  <2>8. AlignUp(x, a) \in Nat /\ AlignUp(x, a) >= x
    BY AlignUpNat
  <2> QED BY <2>4, <2>5, <2>6, <2>7, <2>8, <1>1 DEF FitBase
<1>4. PICK j \in Live : j = Holder(p) /\ regions[j].base <= p /\ p + sz <= End(regions[j])
  BY BlockInOneEntry
<1>5. p % a = 0 /\ p >= PAGE_SIZE /\ p >= lo /\ p + sz <= hi
  BY DEF BlockFree
<1>6. p \in p .. p + sz - 1
  OBVIOUS
<1>7. regions[j].flags = "NONE" /\ (nd = NO_NODE \/ nd = regions[j].nid)
  BY <1>4, <1>6 DEF BlockFree
<1>8. from <= p /\ p + sz <= to
  BY <1>1, <1>5
<1>9. PICK x \in Nat : x = Clamp(regions[j].base, from, to)
  BY <1>1, <1>2 DEF Clamp, MinOf, MaxOf
<1>10. PICK y \in Nat : y = Clamp(End(regions[j]), from, to)
  BY <1>1, <1>2 DEF Clamp, MinOf, MaxOf
<1>11. x <= p
  BY <1>1, <1>2, <1>4, <1>8, <1>9 DEF Clamp, MinOf, MaxOf
<1>12. p + sz <= y
  BY <1>1, <1>2, <1>4, <1>8, <1>10 DEF Clamp, MinOf, MaxOf
<1>13. AlignUp(x, a) <= p /\ AlignUp(x, a) \in Nat
  BY <1>5, <1>11, AlignUpBelow, AlignUpNat
<1>14. AlignUp(x, a) < y /\ y - AlignUp(x, a) >= sz
  BY <1>12, <1>13
<1>15. Fits(regions[j], sz, a, from, to, nd)
  BY <1>7, <1>9, <1>10, <1>14 DEF Fits, FitBase
<1>16. j \in hits
  BY <1>15 DEF Live
<1> QED BY <1>3, <1>16

\* A search fails or not by the array and the call alone.
LEMMA FailedSame ==
    ASSUME UNCHANGED <<regions, n, call>>, NEW nd
    PROVE  Failed(nd)' <=> Failed(nd)
BY DEF Failed, BlockFree, Covered, Live, Holder, Bytes, End

\* No step lets memblock_alloc give up while a block is left.
LEMMA AllocStep ==
    ASSUME TypeInv, OrderInv, MergeInv, AllocInv, Next
    PROVE  AllocInv'
<1>1. TypeOK /\ IndexInv /\ call \in Call
  BY DEF TypeInv, TypeOK
<1>2. ASSUME call'.fn # "alloc" PROVE AllocInv'
  BY <1>2 DEF AllocInv
<1>4. ASSUME call' = call, ret' = ret, pc' \in {"isolate", "set", "merge", "halt", "fault"},
             pc \in {"entry", "isolate", "set", "merge"}
      PROVE  AllocInv'
  BY <1>4 DEF AllocInv
<1>5. CASE Request
  <2>1. ASSUME NEW s \in Addrs, NEW a \in Aligns, NEW w \in Windows, NEW nd \in Nids,
               NEW exact \in BOOLEAN, memblock_alloc(s, a, w[1], w[2], nd, exact)
        PROVE  AllocInv'
    <3>1. pc' = "find" /\ nid' = call'.nid
      BY <2>1 DEF memblock_alloc, Begin
    <3> QED BY <3>1 DEF AllocInv
  <2>2. CASE call'.fn # "alloc"
    BY <2>2, <1>2
  <2> QED BY <1>5, <2>1, <2>2 DEF Request, memblock_add, memblock_remove, memblock_reserve,
             memblock_free, Begin, memblock_setclr_flag, memblock_set_node, RangeCall
<1>6. CASE AddSkip \/ AddCovered \/ AddGap \/ AddTail \/ AddNoTail
  <2>1. pc = "add" /\ call' = call
    BY <1>6 DEF AddSkip, AddCovered, AddGap, AddTail, AddNoTail
  <2> QED BY <2>1, <1>1, <1>2 DEF IndexInv
<1>7. CASE RemoveStep \/ RemoveDone
  <2>1. pc = "remove" /\ call' = call /\ (call.size > 0 => call.fn # "alloc")
    BY <1>7 DEF RemoveStep, RemoveDone, AllocInv
  <2> QED BY <2>1 DEF AllocInv
<1>8. CASE AllocFind
  <2>1. /\ pc = "find" /\ UNCHANGED <<regions, n, call, nid>>
        /\ ret' = find_in_range_node(call.size, call.align, call.lo, call.hi, nid)
        /\ pc' = IF ret' = 0 THEN "retry" ELSE "entry"
    BY <1>8 DEF AllocFind, memory
  <2> SUFFICES ASSUME call.fn = "alloc", call.size > 0 PROVE AllocInv'
    BY <2>1 DEF AllocInv
  <2>2. nid = call.nid \/ Failed(call.nid)
    BY <2>1 DEF AllocInv
  <2>3. CASE ret' # 0
    BY <2>1, <2>3 DEF AllocInv
  <2>4. CASE ret' = 0
    <3>1. /\ call.size \in Nat /\ call.align \in Nat \ {0} /\ call.lo \in Nat
          /\ call.hi \in Nat /\ nid \in Nids
      BY <1>1 DEF Call, TypeOK
    <3>2. \A j \in Live : ~Continues(j)
      BY <2>1, LooseIn DEF MergeInv
    <3>3. \A p \in Nat : ~BlockFree(p, call.size, call.align, call.lo, call.hi, nid)
      BY <2>1, <2>4, <3>1, <3>2, FindComplete
    <3>4. Failed(nid)
      BY <3>3, MemblockAssumption DEF Failed
    <3>5. PICK nd : nd = nid
      OBVIOUS
    <3>6. PICK old : old = call.nid
      OBVIOUS
    <3>7. Failed(nd)' /\ (Failed(old) => Failed(old)')
      BY <2>1, <3>4, <3>5, FailedSame
    <3>8. nid' = nd /\ call'.nid = old /\ pc' = "retry"
      BY <2>1, <2>4, <3>5, <3>6
    <3>9. Failed(nid)' /\ (nid = call.nid \/ Failed(call.nid))'
      BY <2>2, <3>5, <3>6, <3>7, <3>8 DEF Failed
    <3> QED BY <3>8, <3>9 DEF AllocInv
  <2> QED BY <2>3, <2>4
<1>9. CASE AllocRetry
  <2>1. /\ pc = "retry" /\ UNCHANGED <<regions, n, call>> /\ ret' = 0
        /\ pc' \in {"find", "return"} /\ (pc' = "return" => nid' = nid)
    BY <1>9 DEF AllocRetry, memory
  <2> SUFFICES ASSUME call.fn = "alloc", call.size > 0 PROVE AllocInv'
    BY <2>1 DEF AllocInv
  <2>2. PICK old : old = call.nid
    OBVIOUS
  <2>3. PICK nd : nd = nid
    OBVIOUS
  <2>4. Failed(nd) /\ Failed(old)
    BY <2>1, <2>2, <2>3 DEF AllocInv
  <2>5. Failed(nd)' /\ Failed(old)'
    BY <2>1, <2>4, FailedSame
  <2>6. Failed(call.nid)' /\ (pc' = "return" => Failed(nid)')
    BY <2>1, <2>2, <2>3, <2>5 DEF Failed
  <2> QED BY <2>1, <2>6 DEF AllocInv
<1>10. CASE IsolateNoSpace
  <2>1. /\ pc' = (IF call.fn = "alloc" THEN "retry" ELSE "return") /\ n' + 2 > NR_REGIONS
        /\ call' = call
    BY <1>10 DEF IsolateNoSpace, memory
  <2>2. Failed(nid)' /\ Failed(call.nid)'
    BY <2>1 DEF Failed
  <2> QED BY <2>1, <2>2 DEF AllocInv
<1>11. CASE IsolateEmpty
  BY <1>11 DEF IsolateEmpty, AllocInv
<1>12. CASE IsolateDone
  <2>1. pc = "isolate" /\ call' = call /\ ret' = ret
        /\ pc' = IF call.fn = "remove" THEN "remove" ELSE "set"
    BY <1>12 DEF IsolateDone, Isolated
  <2> QED BY <2>1, <1>4 DEF AllocInv
<1>13. CASE \/ IsolateStart \/ IsolateSkip \/ IsolateLow \/ IsolateHigh \/ IsolateInside
            \/ SetStep \/ SetDone \/ MergeKeep \/ MergeJoin \/ MergeFault
  BY <1>13, <1>4 DEF IsolateStart, IsolateSkip, IsolateLow, IsolateHigh, IsolateInside,
     SetStep, SetDone, MergeKeep, MergeJoin, MergeFault
<1>14. CASE InsertHalt
  BY <1>14 DEF InsertHalt, AllocInv
<1>15. CASE MergeDone
  BY <1>15 DEF MergeDone, AllocInv
<1>16. CASE Return
  BY <1>16, <1>2 DEF Return, NoCall, RangeCall
<1> QED BY <1>5, <1>6, <1>7, <1>8, <1>9, <1>10, <1>11, <1>12, <1>13, <1>14, <1>15, <1>16
        DEF Next, Step

\* A search that failed had to, in every state of every call.
LEMMA AllocInvariant == Spec => []AllocInv
<1>1. Init => AllocInv
  BY DEF Init, AllocInv, NoCall, RangeCall
<1>2. TypeInv /\ OrderInv /\ MergeInv /\ AllocInv /\ [Next]_vars => AllocInv'
  <2> SUFFICES ASSUME TypeInv, OrderInv, MergeInv, AllocInv, [Next]_vars PROVE AllocInv'
    OBVIOUS
  <2>1. CASE UNCHANGED vars
    <3>1. UNCHANGED <<regions, n, call, nid, pc, ret>>
      BY <2>1 DEF vars, memory, locals
    <3>2. PICK old : old = call.nid
      OBVIOUS
    <3>3. PICK nd : nd = nid
      OBVIOUS
    <3>4. (Failed(old) => Failed(old)') /\ (Failed(nd) => Failed(nd)')
      BY <3>1, FailedSame
    <3>5. (Failed(call.nid) => Failed(call.nid)') /\ (Failed(nid) => Failed(nid)')
      BY <3>1, <3>2, <3>3, <3>4 DEF Failed
    <3> QED BY <3>1, <3>5 DEF AllocInv
  <2> QED BY <2>1, AllocStep
<1> QED BY <1>1, <1>2, TypeInvariant, OrderInvariant, MergeInvariant, PTL DEF Spec

\* memblock_alloc answers 0 only when it has to: no aligned block of the size
\* asked for is free inside the window, above the first page, with all its
\* bytes on one node (the one asked for, or any when the search was repeated),
\* or the array has no two spare entries left to cut the block out.
THEOREM AllocComplete == Spec => []AllocFailsOnlyWhenFull
<1>1. AllocInv => AllocFailsOnlyWhenFull
  BY DEF AllocInv, AllocFailsOnlyWhenFull, Failed
<1> QED BY <1>1, AllocInvariant, PTL

-----------------------------------------------------------------------------
(***************************************************************************)
(* That memblock.c implements MemblockAbs: MemblockRefinement maps each    *)
(* step of each loop to one step of the abstract allocator or to none.     *)
(* (That every call is answered is left to TLC.)                           *)
(***************************************************************************)

-----------------------------------------------------------------------------
(* What the mapping shows of a byte.                                       *)

Has(j, a) == regions[j].base <= a /\ a < End(regions[j])

\* Entry j as the caller will find it, and a byte no entry holds.
Shown(j) == IF Gone(j) THEN NoMemory ELSE EntryCell(j)
Blank(a) == IF call.fn = "add" /\ pc \in {"add", "halt"} /\ a \in base .. end - 1
            THEN [flags |-> "NONE", nid |-> nid] ELSE NoMemory

AbsShape ==
    /\ AbsMem = [a \in Abs!Bytes |-> AbsMem[a]]
    /\ \A a \in Abs!Bytes :
          /\ \A j \in Live : Has(j, a) => AbsMem[a] = Shown(j)
          /\ (\A j \in Live : ~Has(j, a)) => AbsMem[a] = Blank(a)

\* No byte is held by two entries, so the mapping shows each byte as the entry
\* that holds it.
LEMMA Shape == TypeInv /\ OrderInv => AbsShape
<1> SUFFICES ASSUME TypeInv, OrderInv PROVE AbsShape
  OBVIOUS
<1>1. AbsMem = [a \in Abs!Bytes |-> AbsMem[a]]
  BY DEF AbsMem, Abs!Bytes
<1>2. /\ n \in Nat
      /\ \A j \in Live : regions[j].base \in Nat /\ End(regions[j]) \in Nat
      /\ \A j, k \in Live : j < k => End(regions[j]) <= regions[k].base
  BY LiveEntry
<1>3. ASSUME NEW a \in Abs!Bytes, NEW j \in Live, Has(j, a) PROVE AbsMem[a] = Shown(j)
  <2>1. a \in Nat
    BY <1>3, MemblockAssumption DEF Abs!Bytes
  <2>2. a \in Bytes(regions[j])
    BY <1>2, <1>3, <2>1, BytesOf DEF Has
  <2>3. a \in Covered
    BY <2>2, <1>3 DEF Covered
  <2>4. PICK k \in Live : k = Holder(a)
    BY <2>3, HolderOf
  <2>5. regions[k].base <= a /\ a < End(regions[k])
    BY <2>3, <2>4, HolderOf
  <2>6. regions[j].base <= a /\ a < End(regions[j])
    BY <1>3 DEF Has
  <2>7. ~(j < k)
    BY <2>1, <2>4, <2>5, <2>6, <1>2, <1>3
  <2>8. ~(k < j)
    BY <2>1, <2>4, <2>5, <2>6, <1>2, <1>3
  <2>9. k = j
    BY <2>4, <2>7, <2>8, <1>2, <1>3 DEF Live
  <2> QED BY <2>3, <2>4, <2>9, <1>3 DEF AbsMem, Shown, Abs!Bytes
<1>4. ASSUME NEW a \in Abs!Bytes, \A j \in Live : ~Has(j, a) PROVE AbsMem[a] = Blank(a)
  <2>1. a \notin Covered
    <3> SUFFICES ASSUME a \in Covered PROVE FALSE
      OBVIOUS
    <3> QED BY <1>4, HolderOf DEF Has
  <2> QED BY <2>1, <1>4 DEF AbsMem, Blank, Abs!Bytes
<1> QED BY <1>1, <1>3, <1>4 DEF AbsShape

\* The same of the next state.
LEMMA ShapeNext == TypeInv' /\ OrderInv' => AbsShape'
BY Shape, PTL

\* Outside the loops that update or remove entries an entry is shown as it is,
\* and outside add_range a byte no entry holds is shown as absent.
LEMMA ShownPlain ==
    /\ pc \notin {"set", "remove"} => \A j \in Live : Shown(j) = CellOf(regions[j])
    /\ pc \notin {"add", "halt"} \/ call.fn # "add" => \A a \in Abs!Bytes : Blank(a) = NoMemory
BY Zenon DEF Shown, Gone, EntryCell, Blank

LEMMA ShownPlainNext ==
    /\ pc' \notin {"set", "remove"} => \A j \in Live' : Shown(j)' = CellOf(regions'[j])
    /\ pc' \notin {"add", "halt"} \/ call'.fn # "add" => \A a \in Abs!Bytes : Blank(a)' = NoMemory
BY Zenon DEF Shown, Gone, EntryCell, Blank, CellOf

\* The phase of the call, by the loop it is in.
LEMMA Phase ==
    /\ pc = "idle" => AbsSt = "idle"
    /\ pc \in {"find", "retry", "entry", "isolate"} => AbsSt = "busy"
    /\ pc = "halt" => AbsSt = "dead"
    /\ pc \in {"add", "set", "remove", "merge", "return", "fault"} => AbsSt = "done"
BY Zenon DEF AbsSt

LEMMA PhaseNext ==
    /\ pc' = "idle" => AbsSt' = "idle"
    /\ pc' \in {"find", "retry", "entry", "isolate"} => AbsSt' = "busy"
    /\ pc' = "halt" => AbsSt' = "dead"
    /\ pc' \in {"add", "set", "remove", "merge", "return", "fault"} => AbsSt' = "done"
BY Zenon DEF AbsSt

\* Two states that show every byte alike are one to the caller.
LEMMA SameMem ==
    ASSUME AbsShape, AbsShape',
           \A a \in Abs!Bytes : \A j \in Live : Has(j, a) =>
              \/ \E k \in Live' : Has(k, a)' /\ Shown(k)' = Shown(j)
              \/ (\A k \in Live' : ~Has(k, a)') /\ Blank(a)' = Shown(j),
           \A a \in Abs!Bytes : (\A j \in Live : ~Has(j, a)) =>
              \/ \E k \in Live' : Has(k, a)' /\ Shown(k)' = Blank(a)
              \/ (\A k \in Live' : ~Has(k, a)') /\ Blank(a)' = Blank(a)
    PROVE  AbsMem' = AbsMem
<1>1. ASSUME NEW a \in Abs!Bytes PROVE AbsMem'[a] = AbsMem[a]
  <2>1. /\ \A j \in Live : Has(j, a) => AbsMem[a] = Shown(j)
        /\ (\A j \in Live : ~Has(j, a)) => AbsMem[a] = Blank(a)
    BY <1>1 DEF AbsShape
  <2>2. /\ \A j \in Live' : Has(j, a)' => AbsMem'[a] = Shown(j)'
        /\ (\A j \in Live' : ~Has(j, a)') => AbsMem'[a] = Blank(a)'
    BY <1>1 DEF AbsShape, Abs!Bytes
  <2>3. CASE \E j \in Live : Has(j, a)
    BY <2>1, <2>2, <2>3, <1>1
  <2>4. CASE \A j \in Live : ~Has(j, a)
    BY <2>1, <2>2, <2>4, <1>1
  <2> QED BY <2>3, <2>4
<1>2. AbsMem = [a \in Abs!Bytes |-> AbsMem[a]] /\ AbsMem' = [a \in Abs!Bytes |-> AbsMem'[a]]
  BY DEF AbsShape, Abs!Bytes
<1> QED BY <1>1, <1>2

-----------------------------------------------------------------------------
(* The call in progress, and the bounds of the entries.                    *)

\* Which call each loop serves, and with which of its arguments.
CallInv ==
    /\ pc \in {"find", "retry"} => call.fn = "alloc"
    /\ pc \in {"entry", "isolate", "set", "remove"} => call.fn # "add"
    /\ pc \in {"entry", "isolate"} /\ call.fn # "alloc" => base = call.base /\ ret = 0
    /\ pc \in {"find", "retry", "entry", "isolate"} =>
          nid = call.nid \/ (nid = NO_NODE /\ call.exact = FALSE)

\* Every entry lies in the address space and has a node some call gave it.
SpaceInv ==
    /\ \A j \in Live : End(regions[j]) <= MaxAddr /\ regions[j].nid \in Nids
    /\ pc = "add" => end <= MaxAddr

\* No step mixes up the calls.
LEMMA CallStep == ASSUME TypeInv, CallInv, Next PROVE CallInv'
<1>1. call.exact \in BOOLEAN
  BY DEF TypeInv, TypeOK, Call
<1>2. ASSUME UNCHANGED <<call, base, nid, ret>>, pc' = pc \/ (pc = "entry" /\ pc' = "isolate")
      PROVE  CallInv'
  BY Zenon, <1>2 DEF CallInv
<1>3. ASSUME pc' \notin {"find", "retry", "entry", "isolate", "set", "remove"} PROVE CallInv'
  BY <1>3 DEF CallInv
<1>4. CASE Request
  <2>1. ASSUME NEW c, Begin(c), ret' = 0, c.fn = "alloc", pc' = "find" PROVE CallInv'
    BY <2>1 DEF Begin, CallInv
  <2>2. ASSUME NEW c, Begin(c), ret' = 0, c.fn # "add", pc' = "entry" PROVE CallInv'
    BY <2>2 DEF Begin, CallInv
  <2>3. ASSUME NEW b, NEW s, NEW nd, memblock_add(b, s, nd) PROVE CallInv'
    <3>1. pc' \in {"return", "add"}
      BY <2>3 DEF memblock_add
    <3> QED BY <3>1, <1>3
  <2>4. ASSUME NEW b, NEW s, memblock_remove(b, s) PROVE CallInv'
    BY <2>4, <2>2 DEF memblock_remove, RangeCall
  <2>5. ASSUME NEW b, NEW s, NEW x, memblock_setclr_flag(b, s, x) PROVE CallInv'
    BY <2>5, <2>2 DEF memblock_setclr_flag, RangeCall
  <2>6. ASSUME NEW b, NEW s, NEW nd, memblock_set_node(b, s, nd) PROVE CallInv'
    BY <2>6, <2>2 DEF memblock_set_node, RangeCall
  <2>7. ASSUME NEW s, NEW a, NEW w, NEW nd, NEW exact,
               memblock_alloc(s, a, w[1], w[2], nd, exact)
        PROVE  CallInv'
    BY <2>7, <2>1 DEF memblock_alloc, AllocCall
  <2> QED BY <1>4, <2>3, <2>4, <2>5, <2>6, <2>7 DEF Request, memblock_reserve, memblock_free
<1>5. CASE AddSkip \/ AddCovered \/ AddGap \/ AddTail \/ AddNoTail \/ InsertHalt
           \/ RemoveDone \/ SetDone \/ MergeKeep \/ MergeJoin \/ MergeFault \/ MergeDone \/ Return
  <2>1. pc' \notin {"find", "retry", "entry", "isolate", "set", "remove"}
    BY <1>5 DEF AddSkip, AddCovered, AddGap, AddTail, AddNoTail, InsertHalt, RemoveDone, SetDone,
       MergeKeep, MergeJoin, MergeFault, MergeDone, Return
  <2> QED BY <2>1, <1>3
<1>6. CASE \/ IsolateStart \/ IsolateSkip \/ IsolateLow \/ IsolateHigh \/ IsolateInside
           \/ SetStep \/ RemoveStep
  <2>1. UNCHANGED <<call, base, nid, ret>> /\ (pc' = pc \/ (pc = "entry" /\ pc' = "isolate"))
    BY <1>6 DEF IsolateStart, IsolateSkip, IsolateLow, IsolateHigh, IsolateInside, SetStep,
       RemoveStep, locals
  <2> QED BY <2>1, <1>2
<1>7. CASE AllocFind
  <2>1. pc = "find" /\ pc' \in {"retry", "entry"} /\ call' = call /\ nid' = nid
    BY <1>7 DEF AllocFind
  <2> QED BY <2>1 DEF CallInv
<1>8. CASE AllocRetry
  <2>1. pc = "retry" /\ call' = call /\ (pc' = "find" => nid' = NO_NODE /\ call.exact = FALSE)
        /\ pc' \in {"find", "return"}
    BY <1>8, <1>1 DEF AllocRetry
  <2> QED BY <2>1 DEF CallInv
<1>9. CASE IsolateNoSpace
  <2>1. pc = "entry" /\ call' = call /\ nid' = nid
        /\ pc' = IF call.fn = "alloc" THEN "retry" ELSE "return"
    BY <1>9 DEF IsolateNoSpace
  <2> QED BY <2>1 DEF CallInv
<1>10. CASE IsolateEmpty \/ IsolateDone
  <2>1. pc \in {"entry", "isolate"} /\ call' = call /\ pc' \in {"set", "remove"}
    BY <1>10 DEF IsolateEmpty, IsolateDone, Isolated
  <2> QED BY <2>1 DEF CallInv
<1> QED BY <1>4, <1>5, <1>6, <1>7, <1>8, <1>9, <1>10 DEF Next, Step

LEMMA CallInvariant == Spec => []CallInv
<1>1. Init => CallInv
  BY DEF Init, CallInv
<1>2. TypeInv /\ CallInv /\ [Next]_vars => CallInv'
  <2> SUFFICES ASSUME TypeInv, CallInv, [Next]_vars PROVE CallInv'
    OBVIOUS
  <2>1. CASE UNCHANGED vars
    <3>1. UNCHANGED <<pc, call, base, nid, ret>>
      BY <2>1 DEF vars, locals
    <3> QED BY Zenon, <3>1 DEF CallInv
  <2> QED BY <2>1, CallStep
<1> QED BY <1>1, <1>2, TypeInvariant, PTL DEF Spec

\* No step moves an entry out of the address space.
LEMMA SpaceStep == ASSUME TypeInv, OrderInv, SpaceInv, Next PROVE SpaceInv'
<1>1. /\ n \in Nat /\ i \in Int /\ base \in Nat /\ end \in Nat /\ nid \in Nids
      /\ NR_REGIONS \in Nat /\ n <= NR_REGIONS /\ MaxAddr \in Nat /\ call.nid \in Nids
      /\ regions \in [Slots -> Region] /\ n \in 0 .. NR_REGIONS
  BY MemblockAssumption DEF TypeInv, TypeOK, Call
<1>2. TypeOK /\ IndexInv
  BY DEF TypeInv
<1>3. \A j \in Live : /\ regions[j].base \in Nat /\ regions[j].size \in Nat
                      /\ End(regions[j]) \in Nat /\ End(regions[j]) <= MaxAddr
                      /\ End(regions[j]) = regions[j].base + regions[j].size
                      /\ regions[j].nid \in Nids
  BY LiveEntry DEF SpaceInv
<1>4. ASSUME UNCHANGED <<regions, n>>, pc' = "add" => end' <= MaxAddr PROVE SpaceInv'
  BY <1>4 DEF SpaceInv, Live
<1>5. ASSUME NEW r, End(r) <= MaxAddr, r.nid \in Nids, HasRoom, i \in 0 .. n,
             regions' = Inserted(regions, i, r), n' = n + 1, pc' = "add" => end' <= MaxAddr
      PROVE  SpaceInv'
  <2>1. \A j \in 0 .. n : /\ j < i => regions'[j] = regions[j]
                          /\ j = i => regions'[j] = r
                          /\ j > i => regions'[j] = regions[j - 1]
    <3>1. n \in Nat /\ n < NR_REGIONS /\ i \in Nat /\ i <= n
      BY <1>1, <1>5 DEF HasRoom
    <3>2. \A j \in 0 .. n : /\ j < i => Inserted(regions, i, r)[j] = regions[j]
                            /\ j = i => Inserted(regions, i, r)[j] = r
                            /\ j > i => Inserted(regions, i, r)[j] = regions[j - 1]
      BY <3>1, MemblockAssumption DEF Inserted, Slots
    <3> QED BY Zenon, <3>2, <1>5
  <2>2. ASSUME NEW j \in Live' PROVE End(regions'[j]) <= MaxAddr /\ regions'[j].nid \in Nids
    <3>1. j \in 0 .. n /\ (j < i => j \in Live) /\ (j > i => j - 1 \in Live)
      BY <2>2, <1>1, <1>5 DEF Live
    <3>2. CASE j < i
      BY <2>1, <3>1, <3>2, <1>3
    <3>3. CASE j = i
      BY <2>1, <3>1, <3>3, <1>5
    <3>4. CASE j > i
      BY <2>1, <3>1, <3>4, <1>3
    <3> QED BY <3>1, <3>2, <3>3, <3>4, <1>5
  <2> QED BY <2>2, <1>5 DEF SpaceInv
<1>6. ASSUME NEW at \in Nat, at <= MaxAddr, i \in Live, Split(at), pc' # "add" PROVE SpaceInv'
  <2>1. n < NR_REGIONS /\ n' = n + 1
    BY <1>1, <1>6 DEF Split, HasRoom
  <2>2. \A j \in 0 .. n : regions'[j] = IF j < i THEN regions[j]
                    ELSE IF j = i THEN Lower(regions[i], at)
                    ELSE IF j = i + 1 THEN Upper(regions[i], at) ELSE regions[j - 1]
    BY <1>2, <1>6, <2>1, SplitAt DEF Split
  <2>3. /\ End(Lower(regions[i], at)) = at /\ Lower(regions[i], at).nid \in Nids
        /\ End(Upper(regions[i], at)) <= MaxAddr /\ Upper(regions[i], at).nid \in Nids
    BY <1>3, <1>6 DEF Lower, Upper, NewRegion, End
  <2> SUFFICES ASSUME NEW j \in Live'
               PROVE  End(regions'[j]) <= MaxAddr /\ regions'[j].nid \in Nids
    BY <1>6 DEF SpaceInv
  <2>4. i \in Nat /\ i < n
    BY <1>6, <1>1 DEF Live
  <2>5. j \in 0 .. n /\ (j < i => j \in Live) /\ (j > i => j - 1 \in Live)
    BY <2>1, <2>4, <1>1 DEF Live
  <2>6. CASE j < i
    BY <2>2, <2>5, <2>6, <1>3
  <2>7. CASE j = i
    BY <2>2, <2>3, <2>5, <2>7, <1>6
  <2>8. CASE j = i + 1
    BY <2>2, <2>3, <2>4, <2>5, <2>8
  <2>9. CASE j > i + 1
    <3>1. regions'[j] = regions[j - 1]
      BY <2>2, <2>4, <2>5, <2>9
    <3>2. j - 1 \in Live
      BY <2>4, <2>5, <2>9
    <3> QED BY <3>1, <3>2, <1>3
  <2> QED BY <2>4, <2>5, <2>6, <2>7, <2>8, <2>9
<1>7. CASE Request
  <2>1. ASSUME NEW c, Begin(c), UNCHANGED memory PROVE SpaceInv'
    BY <2>1, <1>4 DEF Begin, memory
  <2>2. ASSUME NEW b \in Addrs, NEW s \in Addrs, NEW nd \in Nids, memblock_add(b, s, nd)
        PROVE  SpaceInv'
    <3>1. Begin(RangeCall("add", b, s, nd, FALSE)) /\ b \in Nat /\ s \in Nat /\ b + s <= MaxAddr
          /\ end' = b + s
      BY <2>2, <1>1 DEF memblock_add, Addrs, Begin, RangeCall
    <3>2. CASE UNCHANGED memory
      BY <3>1, <3>2, <2>1
    <3>3. CASE regions' = [regions EXCEPT ![0] = NewRegion(b, s, "NONE", nd)] /\ n' = 1
      <4>1. regions'[0] = NewRegion(b, s, "NONE", nd)
        BY <3>3, <1>1, MemblockAssumption DEF Slots
      <4>2. End(regions'[0]) <= MaxAddr /\ regions'[0].nid \in Nids
        BY <4>1, <3>1 DEF End, NewRegion
      <4>3. Live' = {0}
        BY <3>3 DEF Live
      <4> QED BY <4>2, <4>3, <3>1 DEF SpaceInv
    <3> QED BY <2>2, <3>2, <3>3 DEF memblock_add
  <2> QED BY <1>7, <2>1, <2>2 DEF Request, memblock_remove, memblock_reserve, memblock_free,
             memblock_setclr_flag, memblock_set_node, memblock_alloc
<1>8. CASE \/ AddSkip \/ AddCovered \/ AddNoTail \/ AllocFind \/ AllocRetry
           \/ IsolateEmpty \/ IsolateNoSpace \/ IsolateStart \/ IsolateSkip \/ IsolateInside
           \/ IsolateDone \/ RemoveDone \/ SetDone \/ MergeKeep \/ MergeFault \/ MergeDone
           \/ Return
  <2>1. UNCHANGED <<regions, n>> /\ (pc' = "add" => pc = "add" /\ end' = end)
    BY <1>8 DEF AddSkip, AddCovered, AddNoTail, AllocFind, AllocRetry, IsolateEmpty,
       IsolateNoSpace, IsolateStart, IsolateSkip, IsolateInside, IsolateDone, Isolated,
       RemoveDone, SetDone, MergeKeep, MergeFault, MergeDone, Return, memory, locals
  <2> QED BY <2>1, <1>4 DEF SpaceInv
<1>9. CASE AddGap
  <2>1. /\ pc = "add" /\ i < n /\ 0 <= i /\ regions[i].base > base /\ HasRoom /\ n' = n + 1
        /\ regions' = Inserted(regions, i, NewRegion(base, regions[i].base - base, "NONE", nid))
        /\ end' = end
    BY <1>9, <1>2 DEF AddGap, InsertAt, IndexInv
  <2>2. i \in Live /\ i \in 0 .. n /\ end <= MaxAddr
    BY <2>1, <1>1 DEF Live, SpaceInv
  <2>3. PICK r : r = NewRegion(base, regions[i].base - base, "NONE", nid)
    OBVIOUS
  <2>4. End(r) <= MaxAddr /\ r.nid \in Nids
    BY <2>2, <2>3, <1>1, <1>3 DEF NewRegion, End
  <2> QED BY <2>1, <2>2, <2>3, <2>4, <1>5
<1>10. CASE AddTail
  <2>1. /\ pc = "add" /\ i <= n /\ 0 <= i /\ HasRoom /\ n' = n + 1 /\ end' = end
        /\ regions' = Inserted(regions, i, NewRegion(base, end - base, "NONE", nid))
    BY <1>10, <1>2 DEF AddTail, InsertAt, IndexInv
  <2>2. i \in 0 .. n /\ end <= MaxAddr
    BY <2>1, <1>1 DEF SpaceInv
  <2>3. PICK r : r = NewRegion(base, end - base, "NONE", nid)
    OBVIOUS
  <2>4. End(r) <= MaxAddr /\ r.nid \in Nids
    BY <2>2, <2>3, <1>1 DEF NewRegion, End
  <2> QED BY <2>1, <2>2, <2>3, <2>4, <1>5
<1>11. CASE IsolateLow \/ IsolateHigh
  <2>1. /\ i \in Live /\ pc' # "add"
        /\ \E at \in {base, end} : Split(at) /\ at < End(regions[i])
    BY <1>11, <1>1, <1>2 DEF IsolateLow, IsolateHigh, IndexInv, Live
  <2>2. PICK at \in {base, end} : Split(at) /\ at < End(regions[i])
    BY <2>1
  <2>3. at \in Nat /\ at <= MaxAddr
    BY <2>1, <2>2, <1>1, <1>3
  <2> QED BY <2>1, <2>2, <2>3, <1>6
<1>12. CASE InsertHalt
  <2>1. PICK at \in {base, end} :
           /\ regions' = IF pc = "add" THEN regions ELSE [regions EXCEPT ![i] = Upper(@, at)]
           /\ n' = n /\ pc' = "halt" /\ (pc = "add" \/ (i < n /\ pc = "isolate"))
    BY <1>12 DEF InsertHalt, InsertDue
  <2>2. CASE pc = "add"
    BY <2>1, <2>2, <1>4
  <2>3. CASE pc = "isolate"
    <3>1. i \in Live /\ i \in Slots /\ Live \subseteq Slots
      BY <2>1, <2>3, <1>1, <1>2 DEF IndexInv, Live, Slots
    <3>2. regions'[i] = Upper(regions[i], at) /\ \A j \in Live : j # i => regions'[j] = regions[j]
      BY <2>1, <2>3, <3>1, <1>1
    <3>3. End(Upper(regions[i], at)) <= MaxAddr /\ Upper(regions[i], at).nid \in Nids
      BY <3>1, <1>1, <1>3 DEF Upper, NewRegion, End
    <3>4. Live' = Live
      BY <2>1 DEF Live
    <3> QED BY <2>1, <3>1, <3>2, <3>3, <3>4, <1>3 DEF SpaceInv
  <2> QED BY <2>1, <2>2, <2>3
<1>13. CASE RemoveStep
  <2>1. /\ i \in Nat /\ i < n /\ regions' = Dropped(regions, i) /\ n' = n - 1 /\ pc' # "add"
    BY <1>13, <1>1, <1>2 DEF RemoveStep, IndexInv, TypeOK
  <2>2. \A j \in 0 .. n - 2 : regions'[j] = IF j < i THEN regions[j] ELSE regions[j + 1]
    BY <2>1, <1>1, DroppedAt
  <2>3. ASSUME NEW j \in Live' PROVE End(regions'[j]) <= MaxAddr /\ regions'[j].nid \in Nids
    <3>1. j \in 0 .. n - 2 /\ j \in Live /\ j + 1 \in Live
      BY <2>1, <1>1 DEF Live
    <3> QED BY <2>2, <3>1, <1>3
  <2> QED BY <2>1, <2>3 DEF SpaceInv
<1>14. CASE SetStep
  <2>1. /\ pc' # "add" /\ n' = n /\ i \in Live /\ i \in Slots /\ Live \subseteq Slots
        /\ regions' = [regions EXCEPT ![i] = Updated(regions[i], call)]
    BY <1>14, <1>1, <1>2 DEF SetStep, IndexInv, Live, Slots, TypeOK
  <2>2. regions'[i] = Updated(regions[i], call) /\ \A j \in Live : j # i => regions'[j] = regions[j]
    BY <2>1, <1>1
  <2>3. PICK f : f = IF call.set THEN "RESERVED" ELSE "NONE"
    OBVIOUS
  <2>4. regions[i] \in Region
    BY <2>1, <1>1
  <2>5. /\ [regions[i] EXCEPT !.nid = call.nid].base = regions[i].base
        /\ [regions[i] EXCEPT !.nid = call.nid].size = regions[i].size
        /\ [regions[i] EXCEPT !.nid = call.nid].nid = call.nid
        /\ [regions[i] EXCEPT !.flags = f].base = regions[i].base
        /\ [regions[i] EXCEPT !.flags = f].size = regions[i].size
        /\ [regions[i] EXCEPT !.flags = f].nid = regions[i].nid
    BY <2>4 DEF Region
  <2>6. Updated(regions[i], call) \in {[regions[i] EXCEPT !.nid = call.nid], [regions[i] EXCEPT !.flags = f]}
    BY Zenon, <2>3 DEF Updated
  <2>7. End(regions'[i]) <= MaxAddr /\ regions'[i].nid \in Nids
    BY <2>1, <2>2, <2>5, <2>6, <1>1, <1>3 DEF End
  <2>8. Live' = Live
    BY <2>1 DEF Live
  <2> QED BY <2>1, <2>2, <2>7, <2>8, <1>3 DEF SpaceInv
<1>15. CASE MergeJoin
  <2>1. /\ i \in Nat /\ i + 1 < n /\ n' = n - 1 /\ pc' # "add"
        /\ End(regions[i]) = regions[i + 1].base
        /\ regions' = Dropped([regions EXCEPT ![i] = Joined(@, regions[i + 1])], i + 1)
    BY <1>15, <1>1, <1>2 DEF MergeJoin, IndexInv, Mergeable
  <2>2. \A j \in 0 .. n - 2 :
          regions'[j] = IF j < i THEN regions[j]
                        ELSE IF j = i THEN Joined(regions[i], regions[i + 1]) ELSE regions[j + 1]
    BY <2>1, <1>2, JoinAt
  <2>3. i \in Live /\ i + 1 \in Live
    BY <2>1, <1>1 DEF Live
  <2>4. /\ End(Joined(regions[i], regions[i + 1])) = End(regions[i + 1])
        /\ Joined(regions[i], regions[i + 1]).nid = regions[i].nid
    BY <2>1, <2>3, <1>3 DEF Joined, NewRegion, End
  <2>5. ASSUME NEW j \in Live' PROVE End(regions'[j]) <= MaxAddr /\ regions'[j].nid \in Nids
    <3>1. j \in 0 .. n - 2 /\ j \in Live /\ j + 1 \in Live
      BY <2>1, <1>1 DEF Live
    <3>2. CASE j = i
      BY <2>2, <2>3, <2>4, <3>1, <3>2, <1>3
    <3>3. CASE j # i
      BY <2>2, <3>1, <3>3, <1>3
    <3> QED BY <3>2, <3>3
  <2> QED BY <2>1, <2>5 DEF SpaceInv
<1> QED BY <1>7, <1>8, <1>9, <1>10, <1>11, <1>12, <1>13, <1>14, <1>15 DEF Next, Step

LEMMA SpaceInvariant == Spec => []SpaceInv
<1>1. Init => SpaceInv
  BY DEF Init, SpaceInv, Live
<1>2. TypeInv /\ OrderInv /\ SpaceInv /\ [Next]_vars => SpaceInv'
  <2> SUFFICES ASSUME TypeInv, OrderInv, SpaceInv, [Next]_vars PROVE SpaceInv'
    OBVIOUS
  <2>1. CASE UNCHANGED vars
    BY <2>1 DEF vars, memory, locals, SpaceInv, Live
  <2> QED BY <2>1, SpaceStep
<1> QED BY <1>1, <1>2, TypeInvariant, OrderInvariant, PTL DEF Spec

-----------------------------------------------------------------------------
(* The steps the caller does not see: the loops move, cut, join and insert *)
(* entries, and no byte is shown otherwise than before.                    *)

\* A step that leaves the array alone and shows its entries as before.
LEMMA SameArray ==
    ASSUME AbsShape, AbsShape', UNCHANGED <<regions, n>>,
           \A j \in Live : Shown(j)' = Shown(j),
           \A a \in Abs!Bytes : (\A j \in Live : ~Has(j, a)) => Blank(a)' = Blank(a)
    PROVE  AbsMem' = AbsMem
<1>1. Live' = Live /\ \A j \in Live : \A a : Has(j, a)' <=> Has(j, a)
  BY DEF Live, Has
<1> QED BY <1>1, SameMem

\* A step outside the loops that update, remove or add.
LEMMA Quiet ==
    ASSUME AbsShape, AbsShape', UNCHANGED <<regions, n>>,
           pc \notin {"set", "remove"}, pc' \notin {"set", "remove"},
           pc \notin {"add", "halt"} \/ call.fn # "add",
           pc' \notin {"add", "halt"} \/ call'.fn # "add"
    PROVE  AbsMem' = AbsMem
<1>1. Live' = Live
  BY DEF Live
<1>2. \A j \in Live : Shown(j) = CellOf(regions[j]) /\ Shown(j)' = CellOf(regions'[j])
  BY <1>1, ShownPlain, ShownPlainNext
<1>3. \A a \in Abs!Bytes : Blank(a) = NoMemory /\ Blank(a)' = NoMemory
  BY ShownPlain, ShownPlainNext
<1> QED BY <1>2, <1>3, SameArray

\* Inserting an entry for bytes that were shown as added already.
LEMMA InsertUnseen ==
    ASSUME AbsShape, AbsShape', TypeInv, NEW r, HasRoom, i \in 0 .. n,
           regions' = Inserted(regions, i, r), n' = n + 1,
           pc \notin {"set", "remove"}, pc' \notin {"set", "remove"},
           \A a \in Abs!Bytes : r.base <= a /\ a < End(r) => Blank(a) = CellOf(r),
           \A a \in Abs!Bytes : (\A j \in Live : ~Has(j, a)) /\ ~(r.base <= a /\ a < End(r))
                                   => Blank(a)' = Blank(a)
    PROVE  AbsMem' = AbsMem
<1>1. n \in Nat /\ n < NR_REGIONS /\ NR_REGIONS \in Nat /\ i \in Nat /\ i <= n
  BY MemblockAssumption DEF TypeInv, TypeOK, HasRoom
<1>2. \A j \in 0 .. n : /\ j < i => regions'[j] = regions[j]
                        /\ j = i => regions'[j] = r
                        /\ j > i => regions'[j] = regions[j - 1]
  BY <1>1, InsertedAt
<1>3. Live = 0 .. n - 1 /\ Live' = 0 .. n
  BY <1>1 DEF Live
<1>4. /\ \A j \in Live : Shown(j) = CellOf(regions[j])
      /\ \A j \in Live' : Shown(j)' = CellOf(regions'[j])
  BY ShownPlain, ShownPlainNext
<1>5. ASSUME NEW a \in Abs!Bytes, NEW j \in Live, Has(j, a)
      PROVE  \E k \in Live' : Has(k, a)' /\ Shown(k)' = Shown(j)
  <2>1. PICK k \in 0 .. n : k = IF j < i THEN j ELSE j + 1
    BY <1>1, <1>3, <1>5
  <2>2. regions'[k] = regions[j]
    BY <1>1, <1>2, <1>3, <1>5, <2>1
  <2>3. Has(k, a)' /\ Shown(k)' = Shown(j)
    BY <2>2, <1>3, <1>4, <1>5 DEF Has
  <2> QED BY <2>3, <1>3
<1>6. ASSUME NEW a \in Abs!Bytes, \A j \in Live : ~Has(j, a)
      PROVE  \/ \E k \in Live' : Has(k, a)' /\ Shown(k)' = Blank(a)
             \/ (\A k \in Live' : ~Has(k, a)') /\ Blank(a)' = Blank(a)
  <2>1. CASE r.base <= a /\ a < End(r)
    <3>1. i \in Live' /\ regions'[i] = r
      BY <1>1, <1>2, <1>3
    <3>2. PICK k \in Live' : k = i
      BY <3>1
    <3>3. Has(k, a)'
      BY <2>1, <3>1, <3>2 DEF Has
    <3>4. Shown(k)' = Blank(a)
      BY <2>1, <3>1, <3>2, <1>4
    <3> QED BY <3>3, <3>4
  <2>2. CASE ~(r.base <= a /\ a < End(r))
    <3>1. ASSUME NEW k \in Live' PROVE ~Has(k, a)'
      <4>1. k \in 0 .. n /\ (k < i => k \in Live) /\ (k > i => k - 1 \in Live)
        BY <1>1, <1>3
      <4>2. CASE k < i
        BY <4>1, <4>2, <1>2, <1>6 DEF Has
      <4>3. CASE k = i
        BY <4>1, <4>3, <1>2, <2>2 DEF Has
      <4>4. CASE k > i
        BY <4>1, <4>4, <1>2, <1>6 DEF Has
      <4> QED BY <4>1, <4>2, <4>3, <4>4, <1>1
    <3> QED BY <3>1, <2>2, <1>6
  <2> QED BY <2>1, <2>2
<1> QED BY <1>5, <1>6, SameMem

\* Cutting an entry in two.
LEMMA SplitUnseen ==
    ASSUME AbsShape, AbsShape', TypeInv, OrderInv, NEW at \in Nat, Split(at), i \in Live,
           regions[i].base < at, at < End(regions[i]), pc = "isolate", pc' = pc, call' = call
    PROVE  AbsMem' = AbsMem
<1>1. /\ n \in Nat /\ n < NR_REGIONS /\ NR_REGIONS \in Nat /\ i \in Nat /\ i < n /\ n' = n + 1
      /\ TypeOK /\ i \in Live
  BY MemblockAssumption DEF TypeInv, TypeOK, Split, HasRoom, Live
<1>2. \A j \in 0 .. n : regions'[j] = IF j < i THEN regions[j]
                    ELSE IF j = i THEN Lower(regions[i], at)
                    ELSE IF j = i + 1 THEN Upper(regions[i], at) ELSE regions[j - 1]
  BY <1>1, SplitAt DEF Split
<1>3. Live = 0 .. n - 1 /\ Live' = 0 .. n
  BY <1>1 DEF Live
<1>4. /\ \A j \in Live : Shown(j) = CellOf(regions[j])
      /\ \A j \in Live' : Shown(j)' = CellOf(regions'[j])
      /\ \A a \in Abs!Bytes : Blank(a) = NoMemory /\ Blank(a)' = NoMemory
  BY ShownPlain, ShownPlainNext
<1>5. regions[i].base \in Nat /\ regions[i].size \in Nat /\ End(regions[i]) = regions[i].base + regions[i].size
  BY <1>1, LiveEntry
<1>6. PICK lower, upper : lower = Lower(regions[i], at) /\ upper = Upper(regions[i], at)
  OBVIOUS
<1>7. /\ CellOf(lower) = CellOf(regions[i]) /\ lower.base = regions[i].base /\ End(lower) = at
      /\ CellOf(upper) = CellOf(regions[i]) /\ upper.base = at /\ End(upper) = End(regions[i])
  BY <1>5, <1>6 DEF Lower, Upper, NewRegion, End, CellOf
<1>8. /\ \A j \in 0 .. n : j < i => regions'[j] = regions[j]
      /\ regions'[i] = lower /\ regions'[i + 1] = upper
      /\ \A j \in 0 .. n : j > i + 1 => regions'[j] = regions[j - 1]
  BY <1>1, <1>2, <1>6
<1>9. ASSUME NEW a \in Abs!Bytes, NEW j \in Live, Has(j, a)
      PROVE  \E k \in Live' : Has(k, a)' /\ Shown(k)' = Shown(j)
  <2>1. a \in Nat
    BY <1>9, MemblockAssumption DEF Abs!Bytes
  <2>2. PICK k \in 0 .. n : k = IF j < i \/ (j = i /\ a < at) THEN j ELSE j + 1
    BY <1>1, <1>3, <1>9
  <2>3. CASE j < i
    <3>1. regions'[k] = regions[j]
      BY <1>8, <2>2, <2>3
    <3> QED BY <3>1, <2>2, <1>3, <1>4, <1>9 DEF Has
  <2>4. CASE j = i /\ a < at
    <3>1. regions'[k] = lower
      BY <1>8, <2>2, <2>4
    <3>2. Has(k, a)'
      BY <3>1, <2>4, <1>7, <1>9 DEF Has
    <3>3. Shown(k)' = Shown(j)
      BY <3>1, <2>2, <2>4, <1>3, <1>4, <1>7
    <3> QED BY <3>2, <3>3, <1>3, <2>2
  <2>5. CASE j = i /\ a >= at
    <3>1. regions'[k] = upper
      BY <1>1, <1>8, <2>1, <2>2, <2>5
    <3>2. Has(k, a)'
      BY <3>1, <2>5, <1>7, <1>9 DEF Has
    <3>3. Shown(k)' = Shown(j)
      BY <3>1, <2>2, <2>5, <1>3, <1>4, <1>7
    <3> QED BY <3>2, <3>3, <1>3, <2>2
  <2>6. CASE j > i
    <3>1. regions'[k] = regions[j]
      BY <1>1, <1>3, <1>8, <1>9, <2>2, <2>6
    <3> QED BY <3>1, <2>2, <1>3, <1>4, <1>9 DEF Has
  <2> QED BY <2>1, <2>3, <2>4, <2>5, <2>6, <1>1, <1>3, <1>9
<1>10. ASSUME NEW a \in Abs!Bytes, \A j \in Live : ~Has(j, a), NEW k \in Live'
       PROVE  ~Has(k, a)'
  <2>1. a \in Nat
    BY <1>10, MemblockAssumption DEF Abs!Bytes
  <2>2. k \in 0 .. n /\ (k < i => k \in Live) /\ (k > i => k - 1 \in Live)
    BY <1>1, <1>3, <1>10
  <2>3. ~(regions[i].base <= a /\ a < End(regions[i]))
    BY <1>1, <1>10 DEF Has
  <2>4. CASE k < i
    BY <2>2, <2>4, <1>8, <1>10 DEF Has
  <2>5. CASE k = i
    <3>1. ~(lower.base <= a /\ a < End(lower))
      BY <2>1, <2>3, <1>5, <1>7
    <3> QED BY <3>1, <2>5, <1>8 DEF Has
  <2>6. CASE k = i + 1
    <3>1. ~(upper.base <= a /\ a < End(upper))
      BY <2>1, <2>3, <1>5, <1>7
    <3> QED BY <3>1, <2>6, <1>8 DEF Has
  <2>7. CASE k > i + 1
    <3>1. regions'[k] = regions[k - 1] /\ k - 1 \in Live
      BY <2>2, <2>7, <1>1, <1>8
    <3> QED BY <3>1, <1>10 DEF Has
  <2> QED BY <2>2, <2>4, <2>5, <2>6, <2>7, <1>1
<1> QED BY <1>4, <1>9, <1>10, SameMem

\* Joining an entry with the next one.
LEMMA JoinUnseen ==
    ASSUME AbsShape, AbsShape', TypeInv, OrderInv, MergeJoin
    PROVE  AbsMem' = AbsMem
<1>1. /\ n \in Nat /\ i \in Nat /\ i + 1 < n /\ n' = n - 1 /\ TypeOK
      /\ End(regions[i]) = regions[i + 1].base /\ pc = "merge" /\ pc' = "merge"
      /\ regions[i].flags = regions[i + 1].flags /\ regions[i].nid = regions[i + 1].nid
  BY MemblockAssumption DEF MergeJoin, Mergeable, TypeInv, TypeOK, IndexInv
<1>2. \A j \in 0 .. n - 2 :
        regions'[j] = IF j < i THEN regions[j]
                      ELSE IF j = i THEN Joined(regions[i], regions[i + 1]) ELSE regions[j + 1]
  BY <1>1, JoinAt DEF MergeJoin
<1>3. Live = 0 .. n - 1 /\ Live' = 0 .. n - 2 /\ i \in Live /\ i + 1 \in Live
  BY <1>1 DEF Live
<1>4. /\ \A j \in Live : Shown(j) = CellOf(regions[j])
      /\ \A j \in Live' : Shown(j)' = CellOf(regions'[j])
      /\ \A a \in Abs!Bytes : Blank(a) = NoMemory /\ Blank(a)' = NoMemory
  BY <1>1, ShownPlain, ShownPlainNext
<1>5. /\ regions[i].base \in Nat /\ regions[i].size \in Nat
      /\ End(regions[i]) = regions[i].base + regions[i].size
      /\ regions[i + 1].base \in Nat /\ regions[i + 1].size \in Nat
      /\ End(regions[i + 1]) = regions[i + 1].base + regions[i + 1].size
  BY <1>3, LiveEntry
<1>6. PICK r : r = Joined(regions[i], regions[i + 1])
  OBVIOUS
<1>7. /\ CellOf(r) = CellOf(regions[i]) /\ CellOf(r) = CellOf(regions[i + 1])
      /\ r.base = regions[i].base /\ End(r) = End(regions[i + 1])
  BY <1>1, <1>5, <1>6 DEF Joined, NewRegion, End, CellOf
<1>8. /\ \A j \in 0 .. n - 2 : j < i => regions'[j] = regions[j]
      /\ regions'[i] = r
      /\ \A j \in 0 .. n - 2 : j > i => regions'[j] = regions[j + 1]
  BY <1>1, <1>2, <1>6
<1>9. ASSUME NEW a \in Abs!Bytes, NEW j \in Live, Has(j, a)
      PROVE  \E k \in Live' : Has(k, a)' /\ Shown(k)' = Shown(j)
  <2>1. a \in Nat
    BY <1>9, MemblockAssumption DEF Abs!Bytes
  <2>2. PICK k \in 0 .. n - 2 : k = IF j <= i THEN j ELSE j - 1
    BY <1>1, <1>3, <1>9
  <2>3. CASE j < i
    <3>1. regions'[k] = regions[j]
      BY <1>1, <1>3, <1>8, <1>9, <2>2, <2>3
    <3> QED BY <3>1, <2>2, <1>3, <1>4, <1>9 DEF Has
  <2>4. CASE j = i \/ j = i + 1
    <3>1. regions'[k] = r
      BY <1>1, <1>8, <2>2, <2>4
    <3>2. r.base <= a /\ a < End(r)
      <4>1. regions[j].base <= a /\ a < End(regions[j])
        BY <1>9 DEF Has
      <4>2. CASE j = i
        <5>1. regions[i].base <= a /\ a < End(regions[i])
          BY <4>1, <4>2
        <5>2. End(regions[i]) = regions[i + 1].base
          BY <1>1
        <5>3. /\ regions[i + 1].base \in Nat /\ End(regions[i + 1]) \in Nat
              /\ regions[i + 1].base < End(regions[i + 1])
          BY <1>3, LiveEntry
        <5>4. a < End(regions[i + 1])
          BY <5>1, <5>2, <5>3, <2>1
        <5> QED BY <5>1, <5>4, <1>7
      <4>3. CASE j = i + 1
        BY <4>1, <4>3, <2>1, <1>1, <1>5, <1>7
      <4> QED BY <2>4, <4>2, <4>3
    <3>3. Has(k, a)'
      BY <3>1, <3>2 DEF Has
    <3>4. Shown(k)' = Shown(j)
      BY <3>1, <2>2, <2>4, <1>3, <1>4, <1>7
    <3> QED BY <3>3, <3>4, <1>3, <2>2
  <2>5. CASE j > i + 1
    <3>1. regions'[k] = regions[j]
      BY <1>1, <1>3, <1>8, <1>9, <2>2, <2>5
    <3> QED BY <3>1, <2>2, <1>3, <1>4, <1>9 DEF Has
  <2> QED BY <2>3, <2>4, <2>5, <1>1, <1>3, <1>9
<1>10. ASSUME NEW a \in Abs!Bytes, \A j \in Live : ~Has(j, a), NEW k \in Live'
       PROVE  ~Has(k, a)'
  <2>1. a \in Nat
    BY <1>10, MemblockAssumption DEF Abs!Bytes
  <2>2. k \in 0 .. n - 2 /\ k \in Live /\ k + 1 \in Live
    BY <1>1, <1>3, <1>10
  <2>3. /\ ~(regions[i].base <= a /\ a < End(regions[i]))
        /\ ~(regions[i + 1].base <= a /\ a < End(regions[i + 1]))
    BY <1>3, <1>10 DEF Has
  <2>4. CASE k < i
    BY <2>2, <2>4, <1>8, <1>10 DEF Has
  <2>5. CASE k = i
    <3>1. ~(r.base <= a /\ a < End(r))
      BY <2>1, <2>3, <1>1, <1>5, <1>7
    <3> QED BY <3>1, <2>5, <1>8 DEF Has
  <2>6. CASE k > i
    BY <2>2, <2>6, <1>8, <1>10 DEF Has
  <2> QED BY <2>2, <2>4, <2>5, <2>6, <1>1
<1> QED BY <1>4, <1>9, <1>10, SameMem

\* The entries of a range that is being updated or removed are shown as they
\* will be.
LEMMA ShownChanging ==
    /\ pc = "set" => \A j \in Live : Shown(j) = IF j \in i .. stop - 1
                                               THEN CellOf(Updated(regions[j], call))
                                               ELSE CellOf(regions[j])
    /\ pc = "remove" => \A j \in Live : Shown(j) = IF j \in start .. i THEN NoMemory
                                                  ELSE CellOf(regions[j])
BY Zenon DEF Shown, Gone, EntryCell

LEMMA ShownChangingNext ==
    /\ pc' = "set" => \A j \in Live' : Shown(j)' = IF j \in i' .. stop' - 1
                                                  THEN CellOf(Updated(regions'[j], call'))
                                                  ELSE CellOf(regions'[j])
    /\ pc' = "remove" => \A j \in Live' : Shown(j)' = IF j \in start' .. i' THEN NoMemory
                                                     ELSE CellOf(regions'[j])
BY Zenon DEF Shown, Gone, EntryCell, CellOf, Updated

\* Dropping an entry of a range that is shown as removed already.
LEMMA RemoveUnseen ==
    ASSUME AbsShape, AbsShape', TypeInv, OrderInv, RemoveStep
    PROVE  AbsMem' = AbsMem
<1>1. /\ n \in Nat /\ i \in Nat /\ i < n /\ n' = n - 1 /\ start' = start /\ i' = i - 1
      /\ pc = "remove" /\ pc' = "remove" /\ regions' = Dropped(regions, i) /\ start \in Int
      /\ n \in 0 .. NR_REGIONS /\ i >= start
  BY MemblockAssumption DEF RemoveStep, TypeInv, TypeOK, IndexInv
<1>2. \A j \in 0 .. n - 2 : regions'[j] = IF j < i THEN regions[j] ELSE regions[j + 1]
  BY <1>1, DroppedAt
<1>3. Live = 0 .. n - 1 /\ Live' = 0 .. n - 2
  BY <1>1 DEF Live
<1>4. \A j \in Live : Shown(j) = IF j \in start .. i THEN NoMemory ELSE CellOf(regions[j])
  BY <1>1, ShownChanging
<1>5. \A j \in Live' : Shown(j)' = IF j \in start' .. i' THEN NoMemory ELSE CellOf(regions'[j])
  BY <1>1, ShownChangingNext
<1>6. \A a \in Abs!Bytes : Blank(a) = NoMemory /\ Blank(a)' = NoMemory
  BY <1>1, ShownPlain, ShownPlainNext
<1>7. ASSUME NEW a \in Abs!Bytes, NEW j \in Live, Has(j, a)
      PROVE  \/ \E k \in Live' : Has(k, a)' /\ Shown(k)' = Shown(j)
             \/ (\A k \in Live' : ~Has(k, a)') /\ Blank(a)' = Shown(j)
  <2>1. CASE j < i
    <3>1. j \in Live' /\ regions'[j] = regions[j]
      BY <1>1, <1>2, <1>3, <1>7, <2>1
    <3>2. Shown(j)' = Shown(j)
      BY <1>1, <1>3, <1>4, <1>5, <3>1, <2>1, <1>7
    <3> QED BY <3>1, <3>2, <1>7 DEF Has
  <2>2. CASE j = i
    <3>1. Shown(j) = NoMemory
      BY <2>2, <1>1, <1>4, <1>7
    <3>2. ASSUME NEW k \in Live', Has(k, a)' PROVE FALSE
      <4>1. PICK l \in Live : regions'[k] = regions[l] /\ l # j
        <5>1. k \in 0 .. n - 2 /\ k \in Live /\ k + 1 \in Live
          BY <3>2, <1>1, <1>3
        <5>2. PICK l \in Live : l = IF k < i THEN k ELSE k + 1
          BY <5>1
        <5>3. regions'[k] = regions[l] /\ l # j
          BY <5>1, <5>2, <2>2, <1>1, <1>2
        <5> QED BY <5>3
      <4>2. Has(l, a)
        BY <3>2, <4>1 DEF Has
      <4>3. a \in Nat
        BY <1>7, MemblockAssumption DEF Abs!Bytes
      <4>4. j \in Nat /\ l \in Nat
        BY <4>1, <1>3, <1>7
      <4>5. /\ regions[j].base \in Nat /\ End(regions[j]) \in Nat
            /\ regions[l].base \in Nat /\ End(regions[l]) \in Nat
            /\ j < l => End(regions[j]) <= regions[l].base
            /\ l < j => End(regions[l]) <= regions[j].base
        BY <4>1, <1>7, LiveEntry
      <4> QED BY <4>1, <4>2, <4>3, <4>4, <4>5, <1>7 DEF Has
    <3> QED BY <3>1, <3>2, <1>6
  <2>3. CASE j > i
    <3>1. PICK k \in Live' : k = j - 1
      BY <1>1, <1>3, <1>7, <2>3
    <3>2. regions'[k] = regions[j]
      BY <1>1, <1>2, <1>3, <1>7, <2>3, <3>1
    <3>3. ~(k \in start' .. i') /\ ~(j \in start .. i)
      BY <1>1, <1>3, <1>7, <2>3, <3>1
    <3>4. Shown(k)' = Shown(j)
      BY <1>4, <1>5, <1>7, <3>1, <3>2, <3>3
    <3> QED BY <3>1, <3>2, <3>4, <1>7 DEF Has
  <2> QED BY <2>1, <2>2, <2>3, <1>1, <1>3, <1>7
<1>8. ASSUME NEW a \in Abs!Bytes, \A j \in Live : ~Has(j, a), NEW k \in Live'
      PROVE  ~Has(k, a)'
  <2>1. k \in 0 .. n - 2 /\ k \in Live /\ k + 1 \in Live
    BY <1>8, <1>1, <1>3
  <2> QED BY <2>1, <1>2, <1>8 DEF Has
<1> QED BY <1>6, <1>7, <1>8, SameMem

\* memblock_setclr_flag and memblock_set_node keep the bounds of an entry.
LEMMA UpdatedKeeps ==
    ASSUME NEW r \in Region, NEW c
    PROVE  Updated(r, c).base = r.base /\ End(Updated(r, c)) = End(r)
<1>1. PICK f : f = IF c.set THEN "RESERVED" ELSE "NONE"
  OBVIOUS
<1>2. Updated(r, c) = [r EXCEPT !.nid = c.nid] \/ Updated(r, c) = [r EXCEPT !.flags = f]
  BY Zenon, <1>1 DEF Updated
<1>3. /\ [r EXCEPT !.nid = c.nid].base = r.base /\ [r EXCEPT !.nid = c.nid].size = r.size
      /\ [r EXCEPT !.flags = f].base = r.base /\ [r EXCEPT !.flags = f].size = r.size
  BY DEF Region
<1> QED BY <1>2, <1>3 DEF End

\* Updating an entry that is shown as updated already.
LEMMA SetUnseen ==
    ASSUME AbsShape, AbsShape', TypeInv, OrderInv, SetStep
    PROVE  AbsMem' = AbsMem
<1>1. /\ n \in Nat /\ i \in Nat /\ i < stop /\ stop <= n /\ stop \in Nat /\ n <= NR_REGIONS
      /\ n' = n /\ i' = i + 1 /\ stop' = stop /\ call' = call /\ pc = "set" /\ pc' = "set"
  BY MemblockAssumption DEF SetStep, TypeInv, TypeOK, IndexInv
<1>2. Live' = Live /\ i \in Live /\ Live \subseteq Slots
  BY <1>1, MemblockAssumption DEF Live, Slots
<1>3. regions \in [Slots -> Region] /\ \A j \in Live : regions[j] \in Region
  BY <1>2 DEF TypeInv, TypeOK
<1>4. regions'[i] = Updated(regions[i], call) /\ \A j \in Live : j # i => regions'[j] = regions[j]
  BY <1>2, <1>3 DEF SetStep
<1>5. \A j \in Live : regions'[j].base = regions[j].base /\ End(regions'[j]) = End(regions[j])
  BY <1>2, <1>3, <1>4, UpdatedKeeps
<1>6. \A j \in Live : \A a : Has(j, a)' <=> Has(j, a)
  BY <1>5 DEF Has
<1>7. ASSUME NEW j \in Live PROVE Shown(j)' = Shown(j)
  <2>1. Shown(j) = IF j \in i .. stop - 1 THEN CellOf(Updated(regions[j], call))
                   ELSE CellOf(regions[j])
    BY <1>1, ShownChanging
  <2>2. Shown(j)' = IF j \in i' .. stop' - 1 THEN CellOf(Updated(regions'[j], call'))
                    ELSE CellOf(regions'[j])
    BY <1>1, <1>2, ShownChangingNext
  <2>3. CASE j = i
    <3>1. j \in i .. stop - 1 /\ j \notin i' .. stop' - 1
      BY <2>3, <1>1
    <3> QED BY <2>1, <2>2, <2>3, <3>1, <1>4
  <2>4. CASE j # i
    <3>1. j \in i .. stop - 1 <=> j \in i' .. stop' - 1
      BY <2>4, <1>1 DEF Live
    <3> QED BY <2>1, <2>2, <2>4, <3>1, <1>1, <1>4
  <2> QED BY <2>3, <2>4
<1>8. \A a \in Abs!Bytes : Blank(a) = NoMemory /\ Blank(a)' = NoMemory
  BY <1>1, ShownPlain, ShownPlainNext
<1> QED BY <1>2, <1>6, <1>7, <1>8, SameMem

\* The code around the loops: no more is to be updated or removed.
LEMMA DoneUnseen ==
    ASSUME AbsShape, AbsShape', TypeInv, SetDone \/ RemoveDone
    PROVE  AbsMem' = AbsMem
<1>1. /\ UNCHANGED <<regions, n>> /\ pc' \in {"merge", "return"}
      /\ \/ pc = "set" /\ i >= stop
         \/ pc = "remove" /\ i < start
      /\ i \in Int /\ stop \in Int /\ start \in Int
  BY DEF SetDone, RemoveDone, memory, TypeInv, TypeOK
<1>2. Live' = Live
  BY <1>1 DEF Live
<1>3. \A j \in Live : Shown(j) = CellOf(regions[j])
  <2>1. i >= stop => i .. stop - 1 = {}
    BY <1>1
  <2>2. i < start => start .. i = {}
    BY <1>1
  <2> QED BY <1>1, <2>1, <2>2, ShownChanging
<1>4. \A j \in Live : Shown(j)' = CellOf(regions'[j])
  BY <1>1, <1>2, ShownPlainNext
<1>5. \A a \in Abs!Bytes : Blank(a) = NoMemory /\ Blank(a)' = NoMemory
  BY <1>1, ShownPlain, ShownPlainNext
<1> QED BY <1>1, <1>3, <1>4, <1>5, SameArray

\* add_range, whose whole range is shown as added from the start.
LEMMA AddUnseen ==
    ASSUME AbsShape, AbsShape', TypeInv, OrderInv,
           \/ AddSkip \/ AddCovered \/ AddGap \/ AddTail \/ AddNoTail
           \/ InsertHalt /\ pc = "add"
    PROVE  AbsMem' = AbsMem
<1>1. /\ pc = "add" /\ n \in Nat /\ i \in Int /\ 0 <= i /\ i <= n /\ base \in Nat /\ end \in Nat
      /\ call.fn = "add" /\ call' = call /\ nid' = nid /\ end' = end
  BY DEF AddSkip, AddCovered, AddGap, AddTail, AddNoTail, InsertHalt, TypeInv, TypeOK, IndexInv,
     locals
<1>2. \A a \in Abs!Bytes : a \in Nat
  BY MemblockAssumption DEF Abs!Bytes
<1>3. \A a \in Abs!Bytes : Blank(a) = IF base <= a /\ a < end THEN [flags |-> "NONE", nid |-> nid]
                                      ELSE NoMemory
  BY <1>1, <1>2 DEF Blank
<1>4. pc' \in {"add", "halt"} /\ base' \in Nat =>
         \A a \in Abs!Bytes : Blank(a)' = IF base' <= a /\ a < end
                                          THEN [flags |-> "NONE", nid |-> nid] ELSE NoMemory
  BY <1>1, <1>2 DEF Blank
<1>5. pc' \notin {"add", "halt"} => \A a \in Abs!Bytes : Blank(a)' = NoMemory
  BY ShownPlainNext
<1>6. ASSUME UNCHANGED <<regions, n>>, pc' \notin {"set", "remove"},
             \A a \in Abs!Bytes : (\A j \in Live : ~Has(j, a)) => Blank(a)' = Blank(a)
      PROVE  AbsMem' = AbsMem
  <2>1. Live' = Live
    BY <1>6 DEF Live
  <2>2. \A j \in Live : Shown(j) = CellOf(regions[j]) /\ Shown(j)' = CellOf(regions'[j])
    BY <1>1, <1>6, <2>1, ShownPlain, ShownPlainNext
  <2> QED BY <1>6, <2>2, SameArray
<1>7. CASE AddSkip \/ InsertHalt
  <2>1. UNCHANGED <<regions, n>> /\ pc' \in {"add", "halt"} /\ base' = base
    BY <1>1, <1>7 DEF AddSkip, InsertHalt, memory, locals
  <2> QED BY <2>1, <1>1, <1>3, <1>4, <1>6
<1>8. \A j \in Live : /\ regions[j].base \in Nat /\ End(regions[j]) \in Nat
                      /\ regions[j].base < End(regions[j])
  BY LiveEntry
<1>9. i < n => i \in Live
  BY <1>1 DEF Live
<1>10. CASE AddCovered
  <2>1. /\ UNCHANGED <<regions, n>> /\ pc' = "add" /\ base' = MinOf(End(regions[i]), end) /\ i \in Live
        /\ regions[i].base <= base /\ base < End(regions[i])
    BY <1>1, <1>8, <1>9, <1>10 DEF AddCovered, memory
  <2>2. base' \in Nat /\ (base' = End(regions[i]) \/ (base' = end /\ end <= End(regions[i])))
    BY <2>1, <1>1, <1>8 DEF MinOf
  <2>3. ASSUME NEW a \in Abs!Bytes, ~Has(i, a) PROVE base <= a /\ a < end <=> base' <= a /\ a < end
    <3>1. a \in Nat /\ ~(regions[i].base <= a /\ a < End(regions[i]))
      BY <2>3, <1>2 DEF Has
    <3>2. regions[i].base \in Nat /\ End(regions[i]) \in Nat
      BY <2>1, <1>8
    <3> QED BY <2>1, <2>2, <3>1, <3>2, <1>1
  <2>4. \A a \in Abs!Bytes : ~Has(i, a) => Blank(a)' = Blank(a)
    BY <2>1, <2>2, <2>3, <1>3, <1>4
  <2> QED BY <2>1, <2>4, <1>6
<1>11. CASE AddNoTail
  <2>1. UNCHANGED <<regions, n>> /\ pc' \in {"return", "merge"} /\ base >= end
    BY <1>11 DEF AddNoTail, memory
  <2>2. \A a \in Abs!Bytes : Blank(a) = NoMemory
    BY <2>1, <1>1, <1>2, <1>3
  <2> QED BY <2>1, <2>2, <1>5, <1>6
<1>12. CASE AddGap
  <2>1. PICK r : r = NewRegion(base, regions[i].base - base, "NONE", nid)
    OBVIOUS
  <2>2. /\ HasRoom /\ regions' = Inserted(regions, i, r) /\ n' = n + 1 /\ pc' = "add"
    BY <2>1, <1>12 DEF AddGap, InsertAt
  <2>3. /\ i \in Live /\ i \in 0 .. n /\ regions[i].base > base /\ regions[i].base < end
        /\ base' = MinOf(End(regions[i]), end)
    BY <1>1, <1>9, <1>12 DEF AddGap
  <2>4. base' \in Nat /\ (base' = End(regions[i]) \/ (base' = end /\ end <= End(regions[i])))
    BY <2>3, <1>1, <1>8 DEF MinOf
  <2>5. regions[i].base \in Nat /\ End(regions[i]) \in Nat /\ regions[i].base < End(regions[i])
    BY <2>3, <1>8
  <2>6. r.base = base /\ End(r) = regions[i].base /\ CellOf(r) = [flags |-> "NONE", nid |-> nid]
    BY <2>1, <2>5, <1>1 DEF NewRegion, End, CellOf
  <2>7. ASSUME NEW a \in Abs!Bytes, r.base <= a, a < End(r) PROVE Blank(a) = CellOf(r)
    <3>1. base <= a /\ a < end
      BY <2>3, <2>5, <2>6, <2>7, <1>1, <1>2
    <3> QED BY <3>1, <2>6, <1>3
  <2>8. ASSUME NEW a \in Abs!Bytes, ~Has(i, a), ~(r.base <= a /\ a < End(r))
        PROVE  Blank(a)' = Blank(a)
    <3>1. a \in Nat /\ ~(regions[i].base <= a /\ a < End(regions[i]))
      BY <2>8, <1>2 DEF Has
    <3>2. base <= a /\ a < end <=> base' <= a /\ a < end
      BY <2>3, <2>4, <2>5, <2>6, <2>8, <3>1, <1>1
    <3> QED BY <3>2, <2>2, <2>4, <1>3, <1>4
  <2> QED BY <2>2, <2>3, <2>7, <2>8, <1>1, InsertUnseen
<1>13. CASE AddTail
  <2>1. PICK r : r = NewRegion(base, end - base, "NONE", nid)
    OBVIOUS
  <2>2. /\ HasRoom /\ regions' = Inserted(regions, i, r) /\ n' = n + 1 /\ pc' = "merge"
    BY <2>1, <1>13 DEF AddTail, InsertAt
  <2>3. i \in 0 .. n
    BY <1>1
  <2>4. r.base = base /\ End(r) = end /\ CellOf(r) = [flags |-> "NONE", nid |-> nid]
    BY <2>1, <1>1 DEF NewRegion, End, CellOf
  <2>5. \A a \in Abs!Bytes : r.base <= a /\ a < End(r) => Blank(a) = CellOf(r)
    BY <2>4, <1>3
  <2>6. \A a \in Abs!Bytes : ~(r.base <= a /\ a < End(r)) => Blank(a)' = Blank(a)
    BY <2>2, <2>4, <1>3, <1>5
  <2> QED BY <2>2, <2>3, <2>5, <2>6, <1>1, InsertUnseen
<1> QED BY <1>7, <1>10, <1>11, <1>12, <1>13

-----------------------------------------------------------------------------
(* The block memblock_alloc found.                                         *)

\* It may be handed out for node nd.
Grantable(p, nd) ==
    /\ Abs!Block(p, call, nd)
    /\ call.nid \notin {NO_NODE, nd} /\ call.size > 0 =>
          /\ call.exact = FALSE
          /\ \A q \in Abs!Bytes : ~Abs!Block(q, call, call.nid)

\* It stays so until memblock_setclr_flag has cut it out, unless the array
\* turns out to have no room for the cuts.
FoundInv ==
    pc \in {"entry", "isolate"} /\ call.fn = "alloc" =>
        /\ ret # 0 /\ ret \in Abs!Bytes /\ base = ret
        /\ \/ pc = "entry" /\ call.size > 0 /\ n + 2 > NR_REGIONS
           \/ \E nd \in Nids : Grantable(ret, nd)

\* Rounding up yields an aligned address.
LEMMA AlignUpAligned ==
    ASSUME NEW x \in Nat, NEW a \in Nat \ {0}
    PROVE  AlignUp(x, a) % a = 0
<1>1. PICK d \in Nat : d = (x + a - 1) \div a
  OBVIOUS
<1>2. (d * a) % a = 0
  OBVIOUS
<1> QED BY <1>1, <1>2 DEF AlignUp

\* What find_in_range_node finds is a free block, on the node asked for.
LEMMA FindSound ==
    ASSUME TypeInv, OrderInv, SpaceInv, AbsShape, pc = "find", NEW p,
           p = find_in_range_node(call.size, call.align, call.lo, call.hi, nid), p # 0
    PROVE  /\ p \in Abs!Bytes
           /\ \E nd \in Nids : Abs!Block(p, call, nd) /\ (nid # NO_NODE => nd = nid)
<1> DEFINE from == MaxOf(call.lo, PAGE_SIZE)
           to == MaxOf(from, call.hi)
           hits == {j \in 0 .. n - 1 : Fits(regions[j], call.size, call.align, from, to, nid)}
           first == CHOOSE j \in hits : \A k \in hits : j <= k
<1>1. /\ call.size \in Nat /\ call.align \in Nat \ {0} /\ call.lo \in Nat /\ call.hi \in Nat
      /\ n \in Nat /\ PAGE_SIZE \in Nat /\ MaxAddr \in Nat
  BY MemblockAssumption DEF TypeInv, TypeOK, Call
<1>2. /\ from \in Nat /\ to \in Nat /\ from <= to /\ (to = from \/ to = call.hi)
      /\ from >= PAGE_SIZE /\ from >= call.lo
  BY <1>1 DEF MaxOf
<1>3. hits # {} /\ p = FitBase(regions[first], call.align, from, to)
  BY DEF find_in_range_node
<1> HIDE DEF from, to
<1>4. \E j \in hits : \A k \in hits : j <= k
  <2>1. hits \in SUBSET Nat
    BY <1>1
  <2> QED BY <2>1, <1>3, LeastNatural
<1>5. first \in hits
  BY <1>4
<1> HIDE DEF first
<1>6. PICK j \in Live : /\ Fits(regions[j], call.size, call.align, from, to, nid)
                        /\ p = FitBase(regions[j], call.align, from, to)
  BY <1>3, <1>5 DEF Live
<1> HIDE DEF hits
<1>7. /\ regions[j].base \in Nat /\ End(regions[j]) \in Nat /\ End(regions[j]) <= MaxAddr
      /\ regions[j].nid \in Nids
  BY LiveEntry DEF SpaceInv
<1>8. PICK x \in Nat : x = Clamp(regions[j].base, from, to)
  BY <1>2, <1>7 DEF Clamp, MinOf, MaxOf
<1>9. PICK y \in Nat : y = Clamp(End(regions[j]), from, to)
  BY <1>2, <1>7 DEF Clamp, MinOf, MaxOf
<1>10. p = AlignUp(x, call.align) /\ p < y /\ y - p >= call.size
  BY <1>6, <1>8, <1>9 DEF Fits, FitBase
<1>11. p \in Nat /\ p >= x /\ p % call.align = 0
  BY <1>1, <1>10, AlignUpNat, AlignUpAligned
<1>12. x >= from /\ (regions[j].base <= x \/ x = to)
  BY <1>2, <1>7, <1>8 DEF Clamp, MinOf, MaxOf
<1>13. y <= to /\ (y <= End(regions[j]) \/ y = from)
  BY <1>2, <1>7, <1>9 DEF Clamp, MinOf, MaxOf
<1>14. /\ p >= PAGE_SIZE /\ p >= call.lo /\ p + call.size <= call.hi
       /\ regions[j].base <= p /\ p + call.size <= End(regions[j]) /\ p < End(regions[j])
  BY <1>1, <1>2, <1>7, <1>10, <1>11, <1>12, <1>13
<1>15. p \in Abs!Bytes
  BY <1>1, <1>7, <1>11, <1>14 DEF Abs!Bytes
<1>16. regions[j].flags = "NONE" /\ (nid # NO_NODE => regions[j].nid = nid)
  BY <1>6 DEF Fits
<1>17. ASSUME NEW a \in p .. p + call.size - 1
       PROVE  a \in Abs!Bytes /\ AbsMem[a] = Abs!Cell("NONE", regions[j].nid)
  <2>1. a \in Nat /\ regions[j].base <= a /\ a < End(regions[j]) /\ a <= MaxAddr - 1
    BY <1>1, <1>7, <1>11, <1>14
  <2>2. a \in Abs!Bytes
    BY <2>1, <1>1 DEF Abs!Bytes
  <2>3. Has(j, a)
    BY <2>1 DEF Has
  <2>4. AbsMem[a] = Shown(j)
    BY <2>2, <2>3 DEF AbsShape
  <2>5. Shown(j) = CellOf(regions[j])
    BY ShownPlain
  <2> QED BY <2>2, <2>4, <2>5, <1>16 DEF CellOf, Abs!Cell
<1>18. Abs!Block(p, call, regions[j].nid)
  BY <1>11, <1>14, <1>17 DEF Abs!Block, Abs!Range
<1> QED BY <1>7, <1>15, <1>16, <1>18

\* A block the interface could hand out is one to memblock.c, too.
LEMMA BlockSeen ==
    ASSUME TypeInv, OrderInv, AbsShape, pc = "find", call.fn = "alloc",
           NEW q \in Abs!Bytes, call.nid # NO_NODE, Abs!Block(q, call, call.nid)
    PROVE  BlockFree(q, call.size, call.align, call.lo, call.hi, call.nid)
<1>1. /\ q % call.align = 0 /\ q >= PAGE_SIZE /\ q >= call.lo /\ q + call.size <= call.hi
      /\ \A a \in q .. q + call.size - 1 :
            a \in Abs!Bytes /\ AbsMem[a] = Abs!Cell("NONE", call.nid)
  BY DEF Abs!Block, Abs!Range
<1>2. ASSUME NEW b \in q .. q + call.size - 1
      PROVE  /\ b \in Covered /\ regions[Holder(b)].flags = "NONE"
             /\ regions[Holder(b)].nid = call.nid
  <2>1. b \in Abs!Bytes /\ AbsMem[b] = Abs!Cell("NONE", call.nid) /\ b \in Nat
    BY <1>1, MemblockAssumption DEF Abs!Bytes
  <2>2. AbsMem[b] # NoMemory
    BY <2>1 DEF NoMemory, Abs!Cell
  <2>3. Blank(b) = NoMemory
    BY <2>1, ShownPlain
  <2>4. PICK j \in Live : Has(j, b)
    BY <2>1, <2>2, <2>3 DEF AbsShape
  <2>5. b \in Bytes(regions[j])
    <3>1. regions[j].base \in Nat /\ End(regions[j]) \in Nat
      BY LiveEntry
    <3> QED BY <2>1, <2>4, <3>1, BytesOf DEF Has
  <2>6. b \in Covered
    BY <2>5 DEF Covered
  <2>7. PICK h \in Live : h = Holder(b)
    BY <2>6, HolderOf
  <2>8. Has(h, b)
    BY <2>6, <2>7, HolderOf DEF Has
  <2>9. CellOf(regions[h]) = Abs!Cell("NONE", call.nid)
    BY <2>1, <2>8, ShownPlain DEF AbsShape
  <2> QED BY <2>6, <2>7, <2>9 DEF CellOf, Abs!Cell
<1>3. q .. q + call.size - 1 \subseteq Covered
  BY <1>2
<1> QED BY <1>1, <1>2, <1>3 DEF BlockFree

\* Whether a block may be handed out depends on what is shown of memory.
LEMMA GrantableSame ==
    ASSUME AbsMem' = AbsMem, call' = call, NEW p, NEW nd, Grantable(p, nd)
    PROVE  Grantable(p, nd)'
<1>1. \A q, m : Abs!Block(q, call, m)' <=> Abs!Block(q, call, m)
  BY DEF Abs!Block, Abs!Range, Abs!Bytes, Abs!Cell
<1> QED BY Zenon, <1>1 DEF Grantable, NO_NODE, Abs!Bytes

\* No step makes the block found one that may not be handed out.
LEMMA FoundStep ==
    ASSUME TypeInv, OrderInv, CallInv, SpaceInv, AllocInv, FoundInv,
           AbsShape, AbsShape', Next
    PROVE  FoundInv'
<1>1. ASSUME pc' \notin {"entry", "isolate"} \/ call'.fn # "alloc" PROVE FoundInv'
  BY <1>1 DEF FoundInv
<1>2. ASSUME AbsMem' = AbsMem, UNCHANGED <<call, ret, base>>, pc' = "isolate",
             pc = "isolate" \/ (pc = "entry" /\ n + 2 <= NR_REGIONS)
      PROVE  FoundInv'
  <2> SUFFICES ASSUME call.fn = "alloc"
               PROVE  /\ ret' # 0 /\ ret' \in Abs!Bytes /\ base' = ret'
                      /\ \E nd \in Nids : Grantable(ret, nd)'
    BY <1>2 DEF FoundInv, Nids, NO_NODE, Abs!Bytes
  <2>1. n \in Int /\ NR_REGIONS \in Int
    BY MemblockAssumption DEF TypeInv, TypeOK
  <2>2. ret # 0 /\ ret \in Abs!Bytes /\ base = ret /\ \E nd \in Nids : Grantable(ret, nd)
    BY <1>2, <2>1 DEF FoundInv
  <2>3. PICK p : p = ret
    OBVIOUS
  <2>4. PICK nd \in Nids : Grantable(p, nd)
    BY <2>2, <2>3
  <2>5. Grantable(p, nd)'
    BY <1>2, <2>4, GrantableSame
  <2>6. Grantable(ret, nd)'
    BY <1>2, <2>3, <2>5 DEF Grantable, Abs!Block
  <2> QED BY <1>2, <2>2, <2>6
<1>3. CASE Request
  BY <1>3, <1>1 DEF Request, memblock_add, memblock_remove, memblock_reserve, memblock_free,
     memblock_setclr_flag, memblock_set_node, memblock_alloc, Begin, RangeCall
<1>4. CASE \/ AddSkip \/ AddCovered \/ AddGap \/ AddTail \/ AddNoTail \/ AllocRetry
           \/ IsolateEmpty \/ IsolateNoSpace \/ IsolateDone \/ InsertHalt \/ RemoveStep
           \/ RemoveDone \/ SetStep \/ SetDone \/ MergeKeep \/ MergeJoin \/ MergeFault
           \/ MergeDone \/ Return
  <2>1. pc' \notin {"entry", "isolate"}
    BY <1>4 DEF AddSkip, AddCovered, AddGap, AddTail, AddNoTail, AllocRetry, IsolateEmpty,
       IsolateNoSpace, IsolateDone, Isolated, InsertHalt, RemoveStep, RemoveDone, SetStep,
       SetDone, MergeKeep, MergeJoin, MergeFault, MergeDone, Return
  <2> QED BY <2>1, <1>1
<1>5. CASE IsolateStart \/ IsolateSkip \/ IsolateInside
  <2>1. /\ UNCHANGED <<regions, n, call, ret, base>> /\ pc' = "isolate"
        /\ pc = "isolate" \/ (pc = "entry" /\ n + 2 <= NR_REGIONS)
    BY <1>5 DEF IsolateStart, IsolateSkip, IsolateInside, memory
  <2>2. AbsMem' = AbsMem
    BY <2>1, Quiet
  <2> QED BY <2>1, <2>2, <1>2
<1>6. CASE IsolateLow \/ IsolateHigh
  <2>1. /\ UNCHANGED <<call, ret, base>> /\ pc' = "isolate" /\ pc = "isolate"
    BY <1>6 DEF IsolateLow, IsolateHigh, locals
  <2>2. i \in Live /\ base \in Nat /\ end \in Nat
    BY <1>6 DEF IsolateLow, IsolateHigh, TypeInv, TypeOK, IndexInv, Live
  <2>3. regions[i].base \in Nat /\ End(regions[i]) \in Nat
    BY <2>2, LiveEntry
  <2>4. PICK at \in Nat : Split(at) /\ regions[i].base < at /\ at < End(regions[i])
    <3>1. CASE IsolateLow
      BY <3>1, <2>2, <2>3 DEF IsolateLow
    <3>2. CASE IsolateHigh
      BY <3>2, <2>2, <2>3 DEF IsolateHigh
    <3> QED BY <1>6, <3>1, <3>2
  <2>5. AbsMem' = AbsMem
    BY <2>1, <2>2, <2>4, SplitUnseen
  <2> QED BY <2>1, <2>5, <1>2
<1>7. CASE AllocFind
  <2>1. /\ UNCHANGED <<regions, n, call, nid>> /\ pc = "find" /\ base' = ret'
        /\ pc' = IF ret' = 0 THEN "retry" ELSE "entry"
        /\ ret' = find_in_range_node(call.size, call.align, call.lo, call.hi, nid)
    BY <1>7 DEF AllocFind, memory
  <2> SUFFICES ASSUME ret' # 0 PROVE FoundInv'
    BY <2>1, <1>1
  <2>2. pc' = "entry" /\ call.fn = "alloc"
    BY <2>1 DEF CallInv
  <2>3. AbsMem' = AbsMem
    BY <2>1, <2>2, Quiet
  <2>4. PICK p : p = ret'
    OBVIOUS
  <2>5. p \in Abs!Bytes /\ \E nd \in Nids : Abs!Block(p, call, nd) /\ (nid # NO_NODE => nd = nid)
    BY <2>1, <2>4, FindSound
  <2>6. PICK nd \in Nids : Abs!Block(p, call, nd) /\ (nid # NO_NODE => nd = nid)
    BY <2>5
  <2>7. Grantable(p, nd) \/ (call.size > 0 /\ n + 2 > NR_REGIONS)
    <3> SUFFICES ASSUME call.nid \notin {NO_NODE, nd}, call.size > 0, ~(n + 2 > NR_REGIONS)
                 PROVE  /\ call.exact = FALSE
                        /\ \A q \in Abs!Bytes : ~Abs!Block(q, call, call.nid)
      BY Zenon, <2>6 DEF Grantable
    <3>1. nid = NO_NODE /\ call.exact = FALSE /\ nid # call.nid
      BY <2>1, <2>6 DEF CallInv
    <3>2. Failed(call.nid)
      BY <2>1, <2>2, <3>1 DEF AllocInv
    <3>3. \A q \in 0 .. MaxAddr - 1 :
             ~BlockFree(q, call.size, call.align, call.lo, call.hi, call.nid)
      BY <3>2 DEF Failed
    <3>4. ASSUME NEW q \in Abs!Bytes, Abs!Block(q, call, call.nid) PROVE FALSE
      <4>1. q \in 0 .. MaxAddr - 1
        BY <3>4 DEF Abs!Bytes
      <4> QED BY <4>1, <3>3, <3>4, <2>1, <2>2, BlockSeen
    <3> QED BY <3>1, <3>4
  <2>8. Grantable(p, nd)' \/ (call'.size > 0 /\ n' + 2 > NR_REGIONS)
    BY <2>1, <2>3, <2>7, GrantableSame
  <2>9. (\E m \in Nids : Grantable(ret, m)') \/ (call'.size > 0 /\ n' + 2 > NR_REGIONS)
    BY <2>4, <2>6, <2>8 DEF Grantable, Abs!Block
  <2> QED BY <2>1, <2>2, <2>4, <2>5, <2>9 DEF FoundInv, Nids, NO_NODE, Abs!Bytes
<1> QED BY <1>3, <1>4, <1>5, <1>6, <1>7 DEF Next, Step

\* The block memblock_alloc has found may be handed out until it is.
LEMMA FoundInvariant == Spec => []FoundInv
<1>1. Init => FoundInv
  BY DEF Init, FoundInv
<1>2. /\ TypeInv /\ OrderInv /\ CallInv /\ SpaceInv /\ AllocInv /\ FoundInv
      /\ AbsShape /\ AbsShape' /\ [Next]_vars
      => FoundInv'
  <2> SUFFICES ASSUME TypeInv, OrderInv, CallInv, SpaceInv, AllocInv, FoundInv,
                      AbsShape, AbsShape', [Next]_vars
               PROVE  FoundInv'
    OBVIOUS
  <2>1. CASE UNCHANGED vars
    <3>1. UNCHANGED <<regions, n, pc, call, base, end, i, start, stop, nid, ret>>
      BY <2>1 DEF vars, memory, locals
    <3>2. Live' = Live /\ (\A j : Shown(j)' = Shown(j)) /\ \A a : Blank(a)' = Blank(a)
      BY <3>1 DEF Live, Shown, Blank, Gone, EntryCell
    <3>3. AbsMem' = AbsMem
      BY <3>1, <3>2, SameArray
    <3>4. PICK p : p = ret
      OBVIOUS
    <3>5. \A nd : Grantable(p, nd) => Grantable(p, nd)'
      BY <3>1, <3>3, GrantableSame
    <3>6. \A nd : Grantable(ret, nd) => Grantable(ret, nd)'
      BY <3>1, <3>4, <3>5 DEF Grantable, Abs!Block
    <3> QED BY <3>1, <3>6 DEF FoundInv, Nids, NO_NODE, Abs!Bytes
  <2> QED BY <2>1, FoundStep
<1> QED BY <1>1, <1>2, TypeInvariant, OrderInvariant, CallInvariant, SpaceInvariant,
        AllocInvariant, Shape, PTL DEF Spec

-----------------------------------------------------------------------------
(* The steps the caller sees.                                              *)

\* What memblock_setclr_flag and memblock_set_node do to the cell of an entry.
LEMMA UpdatedCell ==
    ASSUME NEW r \in Region, NEW c, NEW f, f = IF c.set THEN "RESERVED" ELSE "NONE"
    PROVE  /\ c.fn = "set_node" => CellOf(Updated(r, c)) = [CellOf(r) EXCEPT !.nid = c.nid]
           /\ c.fn # "set_node" => CellOf(Updated(r, c)) = [CellOf(r) EXCEPT !.flags = f]
<1>1. /\ c.fn = "set_node" => Updated(r, c) = [r EXCEPT !.nid = c.nid]
      /\ c.fn # "set_node" => Updated(r, c) = [r EXCEPT !.flags = f]
  BY Zenon DEF Updated
<1>2. CellOf([r EXCEPT !.nid = c.nid]) = [CellOf(r) EXCEPT !.nid = c.nid]
  BY DEF CellOf, Region
<1>3. CellOf([r EXCEPT !.flags = f]) = [CellOf(r) EXCEPT !.flags = f]
  BY DEF CellOf, Region
<1> QED BY <1>1, <1>2, <1>3

\* At the end of isolate_range the caller's range takes its effect at once.
LEMMA EffectSeen ==
    ASSUME AbsShape, AbsShape', TypeInv, OrderInv, IsolateInv, CallInv,
           IsolateEmpty \/ IsolateDone
    PROVE  AbsMem' = Abs!Changed(AbsMem, call, base)
<1>1. /\ n \in Nat /\ i \in Int /\ start \in Int /\ stop \in Nat /\ base \in Nat /\ end \in Nat
      /\ call.size \in Nat /\ regions \in [Slots -> Region] /\ n <= NR_REGIONS
  BY LiveEntry DEF TypeInv, TypeOK
<1>2. /\ UNCHANGED <<regions, n, call>> /\ pc \in {"entry", "isolate"}
      /\ end = base + call.size /\ call.fn # "add"
      /\ call.fn = "remove" => pc' = "remove" /\ i' = stop' - 1
      /\ call.fn # "remove" => pc' = "set" /\ i' = start'
  BY DEF IsolateEmpty, IsolateDone, Isolated, memory, IsolateInv, CallInv
<1>3. Live' = Live /\ \A j \in Live : \A a : Has(j, a)' <=> Has(j, a)
  BY <1>2 DEF Live, Has
<1>4. \A j \in Live : /\ regions[j] \in Region /\ regions[j].base \in Nat
                      /\ End(regions[j]) \in Nat /\ regions[j].base < End(regions[j])
  BY <1>1, LiveEntry, MemblockAssumption DEF Live, Slots
<1>5. \A j \in Live :
         /\ j \in start' .. stop' - 1 => Inside(j)
         /\ j \notin start' .. stop' - 1 => Before(j) \/ Behind(j) \/ base = end
  <2>1. CASE IsolateEmpty
    <3>1. start' = 0 /\ stop' = 0 /\ base = end
      BY <1>1, <1>2, <2>1 DEF IsolateEmpty
    <3> QED BY <3>1, <1>1, <1>4 DEF Before, Behind
  <2>2. CASE IsolateDone
    <3>1. /\ base < end /\ start' = start /\ stop' = stop /\ 0 <= i /\ i <= n /\ 0 <= start
          /\ stop = 0 => start = 0
          /\ stop > 0 => start < stop /\ stop = i
          /\ \A j \in Live : j < i => IF stop > 0 /\ j >= start THEN Inside(j) ELSE Before(j)
      BY <2>2 DEF IsolateDone, IsolateInv, PassedInv, TypeInv, IndexInv
    <3>2. ASSUME NEW j \in Live, j >= i PROVE Behind(j)
      <4>1. i \in Live /\ regions[i].base >= end
        BY <2>2, <3>1, <3>2, <1>1 DEF IsolateDone, LoopOver, Live
      <4>2. j = i \/ End(regions[i]) <= regions[j].base
        BY <4>1, <3>2, <1>1, LiveEntry DEF Live
      <4>3. /\ regions[i].base \in Nat /\ End(regions[i]) \in Nat
            /\ regions[i].base < End(regions[i]) /\ regions[j].base \in Nat
        BY <4>1, <1>4
      <4> QED BY <4>1, <4>2, <4>3, <1>1 DEF Behind
    <3>3. ASSUME NEW j \in Live
          PROVE  /\ j \in start' .. stop' - 1 => Inside(j)
                 /\ j \notin start' .. stop' - 1 => Before(j) \/ Behind(j)
      <4>1. j \in Nat
        BY <1>1 DEF Live
      <4>2. CASE j < i
        <5>1. j \in start' .. stop' - 1 <=> stop > 0 /\ j >= start
          BY <3>1, <4>1, <4>2, <1>1
        <5> QED BY <5>1, <4>2, <3>1
      <4>3. CASE j >= i
        <5>1. j \notin start' .. stop' - 1
          BY <3>1, <4>1, <4>3, <1>1
        <5> QED BY <5>1, <4>3, <3>2
      <4> QED BY <4>1, <4>2, <4>3, <1>1
    <3> QED BY <3>3
  <2> QED BY <2>1, <2>2
<1>6. \A j \in Live : Shown(j) = CellOf(regions[j])
  BY <1>2, ShownPlain
<1>7. \A a \in Abs!Bytes : Blank(a) = NoMemory /\ Blank(a)' = NoMemory
  BY <1>2, ShownPlain, ShownPlainNext
<1>8. PICK f : f = IF call.set THEN "RESERVED" ELSE "NONE"
  OBVIOUS
<1>9. ASSUME NEW j \in Live
      PROVE  /\ j \notin start' .. stop' - 1 => Shown(j)' = CellOf(regions[j])
             /\ j \in start' .. stop' - 1 =>
                   /\ call.fn = "remove" => Shown(j)' = NoMemory
                   /\ call.fn # "remove" => Shown(j)' = CellOf(Updated(regions[j], call))
  <2>1. CASE call.fn = "remove"
    <3>1. Shown(j)' = IF j \in start' .. i' THEN NoMemory ELSE CellOf(regions'[j])
      BY <2>1, <1>2, <1>3, ShownChangingNext
    <3> QED BY <3>1, <2>1, <1>2
  <2>2. CASE call.fn # "remove"
    <3>1. Shown(j)' = IF j \in i' .. stop' - 1 THEN CellOf(Updated(regions'[j], call'))
                      ELSE CellOf(regions'[j])
      BY <2>2, <1>2, <1>3, ShownChangingNext
    <3> QED BY <3>1, <2>2, <1>2
  <2> QED BY <2>1, <2>2
<1>10. ASSUME NEW a \in Abs!Bytes PROVE AbsMem'[a] = Abs!Changed(AbsMem, call, base)[a]
  <2>1. a \in Nat
    BY <1>10, MemblockAssumption DEF Abs!Bytes
  <2>2. /\ \A j \in Live : Has(j, a) => AbsMem[a] = CellOf(regions[j]) /\ AbsMem'[a] = Shown(j)'
        /\ (\A j \in Live : ~Has(j, a)) => AbsMem[a] = NoMemory /\ AbsMem'[a] = NoMemory
    BY <1>3, <1>6, <1>7, <1>10 DEF AbsShape, Abs!Bytes
  <2> DEFINE now == Abs!Changed(AbsMem, call, base)[a]
             mine == a \in base .. base + call.size - 1
  <2>3. /\ ~mine \/ AbsMem[a] = NoMemory => now = AbsMem[a]
        /\ mine /\ AbsMem[a] # NoMemory =>
              /\ call.fn = "remove" => now = NoMemory
              /\ call.fn = "set_node" => now = [AbsMem[a] EXCEPT !.nid = call.nid]
              /\ call.fn \notin {"remove", "set_node"} => now = [AbsMem[a] EXCEPT !.flags = f]
    <3>1. Abs!Absent = NoMemory
      BY DEF Abs!Absent, NoMemory, Abs!NO_NODE, NO_NODE
    <3>2. now = IF ~mine \/ AbsMem[a] = NoMemory THEN AbsMem[a]
                ELSE CASE call.fn = "remove"   -> NoMemory
                       [] call.fn = "set_node" -> [AbsMem[a] EXCEPT !.nid = call.nid]
                       [] OTHER                -> [AbsMem[a] EXCEPT !.flags = f]
      BY Zenon, <3>1, <1>8, <1>10 DEF Abs!Changed, Abs!Range
    <3> QED BY Zenon, <3>2
  <2> HIDE DEF now
  <2>4. CASE \A j \in Live : ~Has(j, a)
    BY <2>2, <2>4, <2>3 DEF now
  <2>5. ASSUME NEW j \in Live, Has(j, a)
        PROVE  AbsMem'[a] = now
    <3>1. AbsMem[a] = CellOf(regions[j]) /\ AbsMem'[a] = Shown(j)'
      BY <2>2, <2>5
    <3>2. AbsMem[a] # NoMemory
      BY <3>1, <1>4, <2>5 DEF CellOf, NoMemory, Region, Flags
    <3>3. regions[j].base <= a /\ a < End(regions[j])
      BY <2>5 DEF Has
    <3>4. CASE j \in start' .. stop' - 1
      <4>1. a \in base .. base + call.size - 1
        BY <3>3, <3>4, <2>1, <2>5, <1>1, <1>2, <1>4, <1>5 DEF Inside
      <4>2. CASE call.fn = "remove"
        BY <4>1, <4>2, <3>1, <3>2, <3>4, <1>9, <2>5, <2>3
      <4>3. CASE call.fn = "set_node"
        <5>1. Shown(j)' = [AbsMem[a] EXCEPT !.nid = call.nid]
          BY <4>3, <3>1, <3>4, <2>5, <1>4, <1>8, <1>9, UpdatedCell
        <5>2. now = [AbsMem[a] EXCEPT !.nid = call.nid]
          BY <4>1, <4>3, <3>2, <2>3
        <5> QED BY <5>1, <5>2, <3>1
      <4>4. CASE call.fn \notin {"remove", "set_node"}
        <5>1. Shown(j)' = [AbsMem[a] EXCEPT !.flags = f]
          BY <4>4, <3>1, <3>4, <2>5, <1>4, <1>8, <1>9, UpdatedCell
        <5>2. now = [AbsMem[a] EXCEPT !.flags = f]
          BY <4>1, <4>4, <3>2, <2>3
        <5> QED BY <5>1, <5>2, <3>1
      <4> QED BY <4>2, <4>3, <4>4
    <3>5. CASE j \notin start' .. stop' - 1
      <4>1. a \notin base .. base + call.size - 1
        BY <3>3, <3>5, <2>1, <2>5, <1>1, <1>2, <1>4, <1>5 DEF Before, Behind
      <4> QED BY <4>1, <3>1, <3>5, <1>9, <2>5, <2>3
    <3> QED BY <3>4, <3>5
  <2> QED BY <2>4, <2>5 DEF now
<1>11. /\ AbsMem' = [a \in Abs!Bytes |-> AbsMem'[a]]
       /\ Abs!Changed(AbsMem, call, base) =
             [a \in Abs!Bytes |-> Abs!Changed(AbsMem, call, base)[a]]
  BY DEF AbsShape, Abs!Changed, Abs!Bytes
<1> QED BY <1>10, <1>11

\* memblock_add shows its whole range as added as soon as it is called.
LEMMA AddSeen ==
    ASSUME AbsShape, AbsShape', TypeInv, OrderInv, NEW b \in Addrs, NEW s \in Addrs, NEW nd \in Nids,
           memblock_add(b, s, nd), NEW c, c = RangeCall("add", b, s, nd, FALSE)
    PROVE  AbsMem' = Abs!Added(AbsMem, c)
<1>1. /\ b \in Nat /\ s \in Nat /\ n \in Nat /\ NR_REGIONS \in Nat \ {0} /\ pc = "idle" /\ base' = b
      /\ end' = b + s /\ nid' = nd /\ call'.fn = "add" /\ c.base = b /\ c.size = s /\ c.nid = nd
      /\ regions \in [Slots -> Region]
  BY MemblockAssumption DEF Addrs, TypeInv, TypeOK, memblock_add, Begin, RangeCall
<1>2. /\ \A j \in Live : Shown(j) = CellOf(regions[j])
      /\ \A a \in Abs!Bytes : Blank(a) = NoMemory
  BY <1>1, ShownPlain
<1>3. ASSUME NEW a \in Abs!Bytes
      PROVE  /\ a \in Nat
             /\ b <= a /\ a < b + s /\ AbsMem[a] = NoMemory
                => Abs!Added(AbsMem, c)[a] = [flags |-> "NONE", nid |-> nd]
             /\ ~(b <= a /\ a < b + s) \/ AbsMem[a] # NoMemory
                => Abs!Added(AbsMem, c)[a] = AbsMem[a]
  <2>1. Abs!Absent = NoMemory
    BY DEF Abs!Absent, NoMemory, Abs!NO_NODE, NO_NODE
  <2>2. a \in Nat
    BY <1>3, MemblockAssumption DEF Abs!Bytes
  <2>3. a \in c.base .. c.base + c.size - 1 <=> b <= a /\ a < b + s
    <3>1. b \in Nat /\ s \in Nat
      BY <1>1
    <3>2. a \in b .. b + s - 1 <=> b <= a /\ a < b + s
      BY <2>2, <3>1
    <3>3. c.base = b /\ c.size = s
      BY <1>1
    <3> QED BY Zenon, <3>2, <3>3
  <2>4. Abs!Added(AbsMem, c)[a] =
           IF a \in c.base .. c.base + c.size - 1 /\ AbsMem[a] = NoMemory
           THEN [flags |-> "NONE", nid |-> nd] ELSE AbsMem[a]
    BY Zenon, <1>1, <1>3, <2>1 DEF Abs!Added, Abs!Range, Abs!Cell
  <2> QED BY <2>2, <2>3, <2>4
<1>4. ASSUME NEW a \in Abs!Bytes
      PROVE  /\ \A j \in Live : Has(j, a) => AbsMem[a] = CellOf(regions[j])
             /\ (\A j \in Live : ~Has(j, a)) => AbsMem[a] = NoMemory
             /\ \A j \in Live' : Has(j, a)' => AbsMem'[a] = Shown(j)'
             /\ (\A j \in Live' : ~Has(j, a)') => AbsMem'[a] = Blank(a)'
  BY <1>2, <1>4 DEF AbsShape, Abs!Bytes
<1>5. ASSUME NEW a \in Abs!Bytes PROVE AbsMem'[a] = Abs!Added(AbsMem, c)[a]
  <2>1. CASE s = 0 /\ UNCHANGED memory /\ pc' = "return"
    <3>1. AbsMem' = AbsMem
      BY <2>1, <1>1, Quiet DEF memory
    <3>2. ~(b <= a /\ a < b + s)
      <4>1. a \in Nat /\ b \in Nat
        BY <1>1, <1>3, <1>5
      <4> QED BY <4>1, <2>1
    <3> QED BY <3>1, <3>2, <1>3, <1>5
  <2>2. CASE /\ n = 0 /\ n' = 1 /\ pc' = "return"
             /\ regions' = [regions EXCEPT ![0] = NewRegion(b, s, "NONE", nd)]
    <3>1. Live = {} /\ Live' = {0}
      BY <2>2 DEF Live
    <3>2. regions'[0] = NewRegion(b, s, "NONE", nd)
      BY <2>2, <1>1 DEF Slots
    <3>3. Has(0, a)' <=> b <= a /\ a < b + s
      BY <3>2 DEF Has, NewRegion, End
    <3>4. Shown(0)' = [flags |-> "NONE", nid |-> nd] /\ Blank(a)' = NoMemory
      <4>1. Shown(0)' = CellOf(regions'[0]) /\ Blank(a)' = NoMemory
        BY <2>2, <3>1, <1>5, ShownPlainNext
      <4> QED BY <4>1, <3>2 DEF CellOf, NewRegion
    <3>5. AbsMem[a] = NoMemory
      BY <3>1, <1>4, <1>5
    <3>6. CASE Has(0, a)'
      BY <3>1, <3>3, <3>4, <3>5, <3>6, <1>3, <1>4, <1>5
    <3>7. CASE ~Has(0, a)'
      BY <3>1, <3>3, <3>4, <3>5, <3>7, <1>3, <1>4, <1>5
    <3> QED BY <3>6, <3>7
  <2>3. CASE UNCHANGED memory /\ pc' = "add"
    <3>1. regions' = regions /\ n' = n
      BY <2>3 DEF memory
    <3>2. Live' = Live /\ \A j \in Live : Has(j, a)' <=> Has(j, a)
      BY <3>1 DEF Live, Has
    <3>3. \A j \in Live : Shown(j)' = CellOf(regions[j])
      BY <2>3, <3>1, <3>2, ShownPlainNext
    <3>4. Blank(a)' = IF b <= a /\ a < b + s THEN [flags |-> "NONE", nid |-> nd] ELSE NoMemory
      <4>1. a \in Nat /\ b \in Nat /\ s \in Nat
        BY <1>1, <1>3, <1>5
      <4>2. a \in b .. b + s - 1 <=> b <= a /\ a < b + s
        BY <4>1
      <4>3. call'.fn = "add" /\ pc' = "add" /\ base' = b /\ end' = b + s /\ nid' = nd
        BY <1>1, <2>3
      <4>4. Blank(a)' = IF a \in base' .. end' - 1 THEN [flags |-> "NONE", nid |-> nid'] ELSE NoMemory
        BY <4>3 DEF Blank
      <4> QED BY <4>2, <4>3, <4>4
    <3>5. CASE \A j \in Live : ~Has(j, a)
      BY <3>2, <3>4, <3>5, <1>3, <1>4, <1>5
    <3>6. ASSUME NEW j \in Live, Has(j, a) PROVE AbsMem'[a] = Abs!Added(AbsMem, c)[a]
      <4>1. AbsMem[a] = CellOf(regions[j]) /\ AbsMem'[a] = CellOf(regions[j])
        BY <3>2, <3>3, <3>6, <1>4, <1>5
      <4>2. regions[j] \in Region
        BY <3>6, LiveEntry, MemblockAssumption DEF TypeInv, TypeOK, Live, Slots
      <4>3. AbsMem[a] # NoMemory
        BY <4>1, <4>2 DEF CellOf, NoMemory, Region, Flags
      <4> QED BY <4>1, <4>3, <1>3, <1>5
    <3> QED BY <3>5, <3>6
  <2> QED BY <2>1, <2>2, <2>3 DEF memblock_add
<1>6. /\ AbsMem' = [a \in Abs!Bytes |-> AbsMem'[a]]
      /\ Abs!Added(AbsMem, c) = [a \in Abs!Bytes |-> Abs!Added(AbsMem, c)[a]]
  BY DEF AbsShape, Abs!Added, Abs!Bytes
<1> QED BY <1>5, <1>6

\* Making a call is a request to the abstract allocator.
LEMMA RequestSeen ==
    ASSUME AbsShape, AbsShape', TypeInv, OrderInv, Request
    PROVE  Abs!Request
<1>1. pc = "idle" /\ ret' = 0
  <2>1. \A c : Begin(c) => pc = "idle"
    BY DEF Begin
  <2>2. ASSUME NEW b, NEW s, NEW nd, memblock_add(b, s, nd) PROVE pc = "idle" /\ ret' = 0
    BY <2>1, <2>2 DEF memblock_add
  <2>3. ASSUME NEW b, NEW s, memblock_remove(b, s) PROVE pc = "idle" /\ ret' = 0
    BY <2>1, <2>3 DEF memblock_remove
  <2>4. ASSUME NEW b, NEW s, NEW x, memblock_setclr_flag(b, s, x) PROVE pc = "idle" /\ ret' = 0
    BY <2>1, <2>4 DEF memblock_setclr_flag
  <2>5. ASSUME NEW b, NEW s, NEW nd, memblock_set_node(b, s, nd) PROVE pc = "idle" /\ ret' = 0
    BY <2>1, <2>5 DEF memblock_set_node
  <2>6. ASSUME NEW s, NEW a, NEW w, NEW nd, NEW exact,
               memblock_alloc(s, a, w[1], w[2], nd, exact)
        PROVE  pc = "idle" /\ ret' = 0
    BY <2>1, <2>6 DEF memblock_alloc
  <2> QED BY <2>2, <2>3, <2>4, <2>5, <2>6 DEF Request, memblock_reserve, memblock_free
<1>2. AbsSt = "idle" /\ AbsRes' = 0
  BY <1>1, Phase DEF AbsRes
<1>3. Abs!Nids = Nids /\ NO_NODE \in Nids /\ Addrs \subseteq Nat /\ Nodes \subseteq Nids
      /\ Aligns \subseteq Nat
  BY MemblockAssumption DEF Abs!Nids, Abs!NO_NODE, Nids, NO_NODE, Addrs
<1>4. ASSUME NEW c \in Abs!Requests, Begin(c), c.fn # "add", pc' \in {"entry", "find"},
             UNCHANGED memory
      PROVE  Abs!Request
  <2>1. call' = c /\ c.base + c.size <= MaxAddr
    BY <1>4 DEF Begin
  <2>2. AbsSt' = "busy"
    BY <1>4, PhaseNext
  <2>3. AbsMem' = AbsMem
    BY <1>1, <1>4, Quiet DEF memory
  <2> QED BY <1>1, <1>2, <1>4, <2>1, <2>2, <2>3 DEF Abs!Request
<1>5. ASSUME NEW b \in Addrs, NEW s \in Addrs, NEW nd \in Nids, memblock_add(b, s, nd)
      PROVE  Abs!Request
  <2>1. PICK c : c = RangeCall("add", b, s, nd, FALSE)
    OBVIOUS
  <2>2. c \in Abs!Requests /\ c.fn = "add"
    BY <1>3, <2>1 DEF RangeCall, Abs!Requests
  <2>3. call' = c /\ c.base + c.size <= MaxAddr /\ pc' \in {"return", "add"}
    BY <1>5, <2>1 DEF memblock_add, Begin
  <2>4. AbsSt' = "done"
    BY <2>3, PhaseNext
  <2>5. AbsMem' = Abs!Added(AbsMem, c)
    BY <1>5, <2>1, AddSeen
  <2> QED BY <1>1, <1>2, <2>2, <2>3, <2>4, <2>5 DEF Abs!Request
<1>6. ASSUME NEW b \in Addrs, NEW s \in Addrs, memblock_remove(b, s) PROVE Abs!Request
  <2>1. PICK c : c = RangeCall("remove", b, s, NO_NODE, FALSE)
    OBVIOUS
  <2>2. c \in Abs!Requests /\ c.fn # "add"
    BY <1>3, <2>1 DEF RangeCall, Abs!Requests
  <2> QED BY <1>4, <1>6, <2>1, <2>2 DEF memblock_remove
<1>7. ASSUME NEW b \in Addrs, NEW s \in Addrs, NEW x \in BOOLEAN, memblock_setclr_flag(b, s, x)
      PROVE  Abs!Request
  <2>1. PICK c : c = RangeCall("setclr", b, s, NO_NODE, x)
    OBVIOUS
  <2>2. c \in Abs!Requests /\ c.fn # "add"
    BY <1>3, <2>1 DEF RangeCall, Abs!Requests
  <2> QED BY <1>4, <1>7, <2>1, <2>2 DEF memblock_setclr_flag
<1>8. ASSUME NEW b \in Addrs, NEW s \in Addrs, NEW nd \in Nodes, memblock_set_node(b, s, nd)
      PROVE  Abs!Request
  <2>1. PICK c : c = RangeCall("set_node", b, s, nd, FALSE)
    OBVIOUS
  <2>2. c \in Abs!Requests /\ c.fn # "add"
    BY <1>3, <2>1 DEF RangeCall, Abs!Requests
  <2> QED BY <1>4, <1>8, <2>1, <2>2 DEF memblock_set_node
<1>9. ASSUME NEW s \in Addrs, NEW a \in Aligns, NEW w \in Windows, NEW nd \in Nids,
             NEW exact \in BOOLEAN, memblock_alloc(s, a, w[1], w[2], nd, exact)
      PROVE  Abs!Request
  <2>1. PICK c : c = AllocCall(s, a, w[1], w[2], nd, exact)
    OBVIOUS
  <2>2. w[1] \in Nat /\ w[2] \in Nat
    BY MemblockAssumption
  <2>3. c \in Abs!Requests /\ c.fn # "add"
    BY <1>3, <2>1, <2>2 DEF AllocCall, Abs!Requests
  <2> QED BY <1>4, <1>9, <2>1, <2>3 DEF memblock_alloc
<1> QED BY <1>5, <1>6, <1>7, <1>8, <1>9 DEF Request, memblock_reserve, memblock_free

\* The end of isolate_range answers the call.
LEMMA IsolatedSeen ==
    ASSUME TypeInv, OrderInv, IsolateInv, CallInv, FoundInv, AbsShape, AbsShape',
           IsolateEmpty \/ IsolateDone
    PROVE  Abs!Effect \/ \E p \in Abs!Bytes, nd \in Abs!Nids : Abs!Grant(p, nd)
<1>1. AbsMem' = Abs!Changed(AbsMem, call, base)
  BY EffectSeen
<1>2. /\ pc \in {"entry", "isolate"} /\ pc' \in {"set", "remove"} /\ call' = call /\ ret' = ret
      /\ pc = "entry" => call.size = 0
  BY DEF IsolateEmpty, IsolateDone, Isolated
<1>3. AbsSt = "busy" /\ AbsSt' = "done"
  BY <1>2, Phase, PhaseNext
<1>4. AbsRes = 0 /\ AbsRes' = ret
  BY <1>2, <1>3 DEF AbsRes
<1>5. CASE call.fn # "alloc"
  <2>1. base = call.base /\ ret = 0
    BY <1>2, <1>5 DEF CallInv
  <2> QED BY <1>1, <1>2, <1>3, <1>4, <1>5, <2>1 DEF Abs!Effect
<1>6. CASE call.fn = "alloc"
  <2>1. ret # 0 /\ ret \in Abs!Bytes /\ base = ret /\ \E nd \in Nids : Grantable(ret, nd)
    BY <1>2, <1>6 DEF FoundInv
  <2>2. PICK nd \in Nids : Grantable(ret, nd)
    BY <2>1
  <2>3. NO_NODE = Abs!NO_NODE /\ Nids = Abs!Nids
    BY DEF NO_NODE, Nids, Abs!NO_NODE, Abs!Nids
  <2>4. /\ Abs!Block(ret, call, nd)
        /\ call.nid \notin {Abs!NO_NODE, nd} /\ call.size > 0 =>
              ~call.exact /\ \A q \in Abs!Bytes : ~Abs!Block(q, call, call.nid)
    BY Zenon, <2>2, <2>3 DEF Grantable
  <2>5. Abs!Grant(ret, nd)
    BY <1>1, <1>2, <1>3, <1>4, <1>6, <2>1, <2>4 DEF Abs!Grant
  <2> QED BY <2>1, <2>2, <2>3, <2>5
<1> QED BY <1>5, <1>6

\* Every step of every loop is one step of the abstract allocator or none.
LEMMA StepSeen ==
    ASSUME TypeInv, OrderInv, IsolateInv, CallInv, FoundInv, IsolateHasRoom',
           AbsShape, AbsShape', Step
    PROVE  Abs!Answer \/ UNCHANGED Abs!vars
<1>1. ASSUME AbsMem' = AbsMem, call' = call,
             \/ /\ pc \in {"find", "retry", "entry", "isolate"}
                /\ pc' \in {"find", "retry", "entry", "isolate"}
             \/ /\ pc \in {"add", "set", "remove", "merge", "return"}
                /\ pc' \in {"add", "set", "remove", "merge", "return", "fault"}
                /\ ret' = ret
      PROVE  UNCHANGED Abs!vars
  <2>1. AbsSt' = AbsSt
    BY <1>1, Phase, PhaseNext
  <2>2. AbsRes' = AbsRes
    BY <1>1, Phase, PhaseNext DEF AbsRes
  <2> QED BY <1>1, <2>1, <2>2 DEF Abs!vars
<1>2. CASE AddSkip \/ AddCovered \/ AddGap \/ AddTail \/ AddNoTail
  <2>1. pc = "add" /\ pc' \in {"add", "merge", "return"} /\ call' = call /\ ret' = ret
    BY <1>2 DEF AddSkip, AddCovered, AddGap, AddTail, AddNoTail
  <2> QED BY <1>1, <1>2, <2>1, AddUnseen
<1>3. CASE AllocFind \/ IsolateStart \/ IsolateSkip \/ IsolateInside
  <2>1. /\ pc \in {"find", "entry", "isolate"} /\ pc' \in {"retry", "entry", "isolate"}
        /\ call' = call /\ UNCHANGED <<regions, n>>
    BY <1>3 DEF AllocFind, IsolateStart, IsolateSkip, IsolateInside, memory
  <2>2. AbsMem' = AbsMem
    BY <2>1, Quiet
  <2> QED BY <1>1, <2>1, <2>2
<1>4. CASE AllocRetry
  <2>1. /\ pc = "retry" /\ pc' \in {"find", "return"} /\ call' = call /\ ret' = 0
        /\ UNCHANGED <<regions, n>> /\ call.fn = "alloc"
    BY <1>4 DEF AllocRetry, memory, CallInv
  <2>2. AbsMem' = AbsMem
    BY <2>1, Quiet
  <2>3. CASE pc' = "find"
    BY <1>1, <2>1, <2>2, <2>3
  <2>4. CASE pc' = "return"
    <3>1. AbsSt = "busy" /\ AbsSt' = "done"
      BY <2>1, <2>4, Phase, PhaseNext
    <3>2. AbsRes' = 0
      BY <2>1 DEF AbsRes
    <3>3. Abs!Refuse
      BY <2>1, <2>2, <3>1, <3>2 DEF Abs!Refuse
    <3> QED BY <3>3 DEF Abs!Answer
  <2> QED BY <2>1, <2>3, <2>4
<1>5. CASE IsolateNoSpace
  <2>1. /\ pc = "entry" /\ pc' = (IF call.fn = "alloc" THEN "retry" ELSE "return")
        /\ call' = call /\ ret' = ENOSPC /\ UNCHANGED <<regions, n>>
    BY <1>5 DEF IsolateNoSpace, memory
  <2>2. AbsMem' = AbsMem
    BY <2>1, Quiet
  <2>3. CASE call.fn = "alloc"
    BY <1>1, <2>1, <2>2, <2>3
  <2>4. CASE call.fn # "alloc"
    <3>1. AbsSt = "busy" /\ AbsSt' = "done"
      BY <2>1, <2>4, Phase, PhaseNext
    <3>2. AbsRes' = Abs!ENOSPC
      BY <2>1, <3>1 DEF AbsRes, ENOSPC, Abs!ENOSPC
    <3>3. Abs!Refuse
      BY <2>1, <2>2, <2>4, <3>1, <3>2 DEF Abs!Refuse
    <3> QED BY <3>3 DEF Abs!Answer
  <2> QED BY <2>3, <2>4
<1>6. CASE IsolateLow \/ IsolateHigh
  <2>1. pc' = "isolate" /\ pc = "isolate" /\ call' = call
    BY <1>6 DEF IsolateLow, IsolateHigh
  <2>2. i \in Live /\ base \in Nat /\ end \in Nat
    BY <1>6 DEF IsolateLow, IsolateHigh, TypeInv, TypeOK, IndexInv, Live
  <2>3. regions[i].base \in Nat /\ End(regions[i]) \in Nat
    BY <2>2, LiveEntry
  <2>4. PICK at \in Nat : Split(at) /\ regions[i].base < at /\ at < End(regions[i])
    <3>1. CASE IsolateLow
      BY <3>1, <2>2, <2>3 DEF IsolateLow
    <3>2. CASE IsolateHigh
      BY <3>2, <2>2, <2>3 DEF IsolateHigh
    <3> QED BY <1>6, <3>1, <3>2
  <2>5. AbsMem' = AbsMem
    BY <2>1, <2>2, <2>4, SplitUnseen
  <2> QED BY <1>1, <2>1, <2>5
<1>7. CASE IsolateEmpty \/ IsolateDone
  BY <1>7, IsolatedSeen DEF Abs!Answer
<1>8. CASE InsertHalt
  <2>1. pc \in {"add", "isolate"} /\ pc' = "halt" /\ call' = call /\ ret' = ret
    BY <1>8 DEF InsertHalt, InsertDue
  <2>2. pc = "add" /\ call.fn = "add"
    BY <2>1 DEF IsolateHasRoom, CallInv
  <2>3. AbsMem' = AbsMem
    BY <1>8, <2>2, AddUnseen
  <2>4. AbsSt = "done" /\ AbsSt' = "dead"
    BY <2>1, <2>2, Phase, PhaseNext
  <2>5. AbsRes' = AbsRes
    BY <2>1, <2>4 DEF AbsRes
  <2>6. Abs!Stop
    BY <2>1, <2>2, <2>3, <2>4, <2>5 DEF Abs!Stop
  <2> QED BY <2>6 DEF Abs!Answer
<1>9. CASE RemoveStep \/ RemoveDone \/ SetStep \/ SetDone \/ MergeJoin
  <2>1. /\ pc \in {"remove", "set", "merge"} /\ pc' \in {"remove", "set", "merge", "return"}
        /\ call' = call /\ ret' = ret
    BY <1>9 DEF RemoveStep, RemoveDone, SetStep, SetDone, MergeJoin
  <2>2. AbsMem' = AbsMem
    BY <1>9, RemoveUnseen, SetUnseen, DoneUnseen, JoinUnseen
  <2> QED BY <1>1, <2>1, <2>2
<1>10. CASE MergeKeep \/ MergeDone
  <2>1. pc = "merge" /\ pc' \in {"merge", "return"} /\ call' = call /\ ret' = ret
        /\ UNCHANGED <<regions, n>>
    BY <1>10 DEF MergeKeep, MergeDone, memory
  <2>2. AbsMem' = AbsMem
    BY <2>1, Quiet
  <2> QED BY <1>1, <2>1, <2>2
<1>11. CASE MergeFault
  <2>1. pc = "merge" /\ pc' = "fault" /\ call' = call /\ ret' = ret /\ UNCHANGED <<regions, n>>
    BY <1>11 DEF MergeFault, memory
  <2>2. AbsMem' = AbsMem
    BY <2>1, Quiet
  <2> QED BY <1>1, <2>1, <2>2
<1>12. CASE Return
  <2>1. pc = "return" /\ pc' = "idle" /\ call' = NoCall /\ ret' = 0 /\ UNCHANGED <<regions, n>>
    BY <1>12 DEF Return, memory
  <2>2. AbsMem' = AbsMem
    BY <2>1, Quiet
  <2>3. AbsSt = "done" /\ AbsSt' = "idle"
    BY <2>1, Phase, PhaseNext
  <2>4. AbsRes' = 0
    BY <2>1 DEF AbsRes
  <2>5. NoCall = Abs!NoReq
    BY DEF NoCall, RangeCall, Abs!NoReq, NO_NODE, Abs!NO_NODE
  <2>6. Abs!Return
    BY <2>1, <2>2, <2>3, <2>4, <2>5 DEF Abs!Return
  <2> QED BY <2>6 DEF Abs!Answer
<1> QED BY <1>2, <1>3, <1>4, <1>5, <1>6, <1>7, <1>8, <1>9, <1>10, <1>11, <1>12 DEF Step

\* memblock.c implements the abstract allocator: for any array size, address
\* space, alignments and windows, and whatever its loops do to the array, each
\* call changes every byte of its range at one instant, to what the interface
\* says, memblock_alloc hands out only blocks that are free, aligned, inside
\* the window and on the best node there is, a call that fails changes nothing,
\* and none but an add stops the kernel.  memblock_remove and the stale entries it
\* leaves are included; that a call returns is not said.
THEOREM MemblockImplementsAbs == Spec => NeverWrong
<1>1. Init => Abs!Init
  <2> SUFFICES ASSUME Init PROVE Abs!Init
    OBVIOUS
  <2>1. pc = "idle" /\ call = NoCall /\ ret = 0 /\ Live = {}
    BY DEF Init, Live
  <2>2. AbsSt = "idle" /\ AbsRes = 0
    BY <2>1, Phase DEF AbsRes
  <2>3. NoCall = Abs!NoReq /\ NoMemory = Abs!Absent
    BY DEF NoCall, RangeCall, Abs!NoReq, NO_NODE, Abs!NO_NODE, NoMemory, Abs!Absent
  <2>4. Covered = {}
    BY <2>1 DEF Covered
  <2>5. AbsMem = [a \in Abs!Bytes |-> NoMemory]
    BY <2>1, <2>4 DEF AbsMem, Abs!Bytes
  <2> QED BY <2>1, <2>2, <2>3, <2>5 DEF Abs!Init
<1>2. /\ TypeInv /\ OrderInv /\ IsolateInv /\ CallInv /\ FoundInv /\ RoomInv'
      /\ AbsShape /\ AbsShape' /\ [Next]_vars
      => [Abs!Next]_(Abs!vars)
  <2> SUFFICES ASSUME TypeInv, OrderInv, IsolateInv, CallInv, FoundInv, RoomInv',
                      AbsShape, AbsShape', [Next]_vars
               PROVE  Abs!Next \/ UNCHANGED Abs!vars
    OBVIOUS
  <2>1. CASE UNCHANGED vars
    <3>1. UNCHANGED <<regions, n, pc, call, base, end, i, start, stop, nid, ret>>
      BY <2>1 DEF vars, memory, locals
    <3>2. Live' = Live /\ (\A j : Shown(j)' = Shown(j)) /\ \A a : Blank(a)' = Blank(a)
      BY <3>1 DEF Live, Shown, Blank, Gone, EntryCell
    <3>3. AbsMem' = AbsMem
      BY <3>1, <3>2, SameArray
    <3>4. AbsSt' = AbsSt
      BY <3>1 DEF AbsSt
    <3> QED BY <3>1, <3>3, <3>4 DEF Abs!vars, AbsRes
  <2>2. CASE Request
    BY <2>2, RequestSeen DEF Abs!Next
  <2>3. CASE Step
    BY <2>3, StepSeen DEF Abs!Next, RoomInv
  <2> QED BY <2>1, <2>2, <2>3 DEF Next
<1> QED BY <1>1, <1>2, TypeInvariant, OrderInvariant, RoomInvariant, IsolateInvariant,
        CallInvariant, FoundInvariant, Shape, PTL DEF Spec, NeverWrong, Abs!Safety
=============================================================================
