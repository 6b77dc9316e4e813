---------------------------- MODULE FixmapProofs ----------------------------
(***************************************************************************)
(* Theorems about Fixmap, for every size of the window and of a page, every*)
(* set of addresses and sizes, and every sequence of calls.                *)
(***************************************************************************)
EXTENDS Fixmap, TLAPS

PCs == {"idle", "scan", "set", "flush", "perm_flush", "return", "halt"}
Held == [v : Nat, phys : Nat, size : Nat]

TypeInv ==
    /\ mapping \in [Slots -> Nat \cup {NONE}]
    /\ level1 \in [0 .. 1 -> [Slots -> Int]]
    /\ tlb \in [Window -> Int]
    /\ pc \in PCs
    /\ op \in {"map", "unmap", "perm"}
    /\ args \in [phys : Nat, size : Nat]
    /\ n \in Nat /\ i \in Nat /\ start \in Nat /\ left \in Nat
    /\ idx \in Int /\ page \in Int /\ ret \in Int
    /\ held \in SUBSET Held
    /\ perm \in [Permanent -> Int]
    /\ pc = "flush" => idx \in T .. 2 * T - 1 /\ left > 0
    /\ pc = "perm_flush" => idx \in 1 .. T - 1 /\ op = "perm"
    /\ pc = "idle" => ret = NONE
    /\ pc \in {"set", "flush"} /\ op = "map" => ret \in Nat

-----------------------------------------------------------------------------
(* Arithmetic of the window.                                               *)

\* Where a page of the window is found: the lower half in the first table.
LEMMA WindowDivMod ==
    /\ \A v \in 0 .. T - 1 : v \div T = 0 /\ v % T = v
    /\ \A v \in T .. 2 * T - 1 : v \div T = 1 /\ v % T = v - T
BY FixmapAssumption

\* Every page of the window has its table and its slot.
LEMMA WindowIndex == \A v \in Window : v \div T \in 0 .. 1 /\ v % T \in Slots
<1> SUFFICES ASSUME NEW v \in Window PROVE v \div T \in 0 .. 1 /\ v % T \in Slots
  OBVIOUS
<1>1. v \in 0 .. T - 1 \/ v \in T .. 2 * T - 1
  BY FixmapAssumption DEF Window
<1> QED BY <1>1, WindowDivMod, FixmapAssumption DEF Slots

\* What the page walk reads, in the two halves of the window.
LEMMA WalkIs ==
    /\ \A v \in 0 .. T - 1 : Walk(v) = level1[0][v]
    /\ \A v \in T .. 2 * T - 1 : Walk(v) = level1[1][v - T]
BY WindowDivMod DEF Walk

\* The frame of an address is a number.
LEMMA FrameNat == ASSUME NEW a \in Nat PROVE a \div PAGE_SIZE \in Nat
BY FixmapAssumption

\* A size that is not zero takes at least a page.
LEMMA PagesNat ==
    ASSUME NEW a \in Nat, NEW s \in Nat
    PROVE  PagesOf(a, s) \in Nat /\ (s > 0 => PagesOf(a, s) >= 1)
<1>1. a % PAGE_SIZE \in Nat
  BY FixmapAssumption
<1> DEFINE x == (a % PAGE_SIZE) + s
<1>2. x \in Nat /\ (s > 0 => x >= 1)
  BY <1>1
<1> HIDE DEF x
<1>3. /\ (x + PAGE_SIZE - 1) \div PAGE_SIZE \in Nat
      /\ x >= 1 => (x + PAGE_SIZE - 1) \div PAGE_SIZE >= 1
  BY <1>2, FixmapAssumption
<1> QED BY <1>2, <1>3 DEF PagesOf, x

-----------------------------------------------------------------------------
(* Types.                                                                  *)

\* Types are kept by every step.
LEMMA TypeStep == ASSUME TypeInv, [Next]_vars PROVE TypeInv'
<1> USE FixmapAssumption DEF TypeInv, PCs, Held, NONE, locals
<1>1. ASSUME NEW a \in PhysAddrs, NEW s \in Sizes, __ioremap(a, s) PROVE TypeInv'
  <2>1. a \in Nat /\ s \in Nat
    OBVIOUS
  <2>2. PagesOf(a, s) \in Nat /\ a \div PAGE_SIZE \in Nat
    BY <2>1, PagesNat, FrameNat
  <2> QED BY <1>1, <2>1, <2>2 DEF __ioremap
<1>2. ASSUME NEW h \in held, NEW s \in Sizes, iounmap(h, s) PROVE TypeInv'
  <2>1. h.v \in Nat /\ h.phys \in Nat /\ s \in Nat /\ PagesOf(h.phys, s) \in Nat
    BY PagesNat
  <2>2. start' \in Nat /\ idx' \in Int
    BY <1>2, <2>1 DEF iounmap, virt_to_fix, FIX_BITMAP_BEGIN, FIX_BITMAP_END
  <2>3. held' \in SUBSET Held
    BY <1>2 DEF iounmap
  <2>4. args' \in [phys : Nat, size : Nat]
    BY <1>2, <2>1 DEF iounmap
  <2>5. pc' \in {"set", "return"}
    BY <1>2 DEF iounmap
  <2> QED BY <1>2, <2>1, <2>2, <2>3, <2>4, <2>5 DEF iounmap
<1>3. ASSUME NEW x \in Permanent, NEW a \in PhysAddrs, set_fixmap(x, a \div PAGE_SIZE)
      PROVE  TypeInv'
  <2>1. a \div PAGE_SIZE \in Int /\ x \in Nat
    BY FrameNat
  <2>2. level1' \in [0 .. 1 -> [Slots -> Int]] /\ perm' \in [Permanent -> Int]
    BY <1>3, <2>1 DEF set_fixmap
  <2> QED BY <1>3, <2>1, <2>2 DEF set_fixmap, FIX_BITMAP_END
<1>4. CASE ScanUsed
  <2>1. PICK v \in Found(i) \ {NONE} : i' = i + v /\ start' = i + v
    BY <1>4 DEF ScanUsed
  <2>2. i + v \in Nat
    <3>1. CASE i \in Slots
      BY <3>1, <2>1 DEF Found
    <3>2. CASE i \notin Slots
      BY <3>2, <2>1, <1>4 DEF Found, Slots, ScanUsed, Bound
    <3> QED BY <3>1, <3>2
  <2> QED BY <1>4, <2>1, <2>2 DEF ScanUsed
<1>5. CASE ScanFree \/ ScanFail \/ Halt \/ PermFlush \/ Return
  BY <1>5 DEF ScanFree, ScanFail, Halt, PermFlush, Return, Flushed
<1>6. CASE ScanDone
  BY <1>6 DEF ScanDone, fix_to_virt, FIX_BITMAP_BEGIN, FIX_BITMAP_END
<1>7. CASE SetPte
  <2>1. level1' \in [0 .. 1 -> [Slots -> Int]]
    BY <1>7 DEF SetPte
  <2> QED BY <1>7, <2>1 DEF SetPte, FIX_BITMAP_BEGIN, FIX_BITMAP_END
<1>8. CASE FlushPte
  <2>1. tlb' \in [Window -> Int]
    <3>1. tlb' = [tlb EXCEPT ![fix_to_virt(idx)] = NONE]
      BY <1>8 DEF FlushPte, Flushed
    <3>2. tlb \in [Window -> Int] /\ NONE \in Int
      OBVIOUS
    <3> HIDE DEF TypeInv, NONE
    <3> QED BY <3>1, <3>2
  <2>2. page' \in Int
    BY <1>8 DEF FlushPte, NextPage
  <2> QED BY <1>8, <2>1, <2>2 DEF FlushPte
<1>9. CASE SetDone
  <2>1. held' \in SUBSET Held
    BY <1>9 DEF SetDone
  <2> QED BY <1>9, <2>1 DEF SetDone
<1>10. ASSUME NEW v \in Window, TlbLoad(v) PROVE TypeInv'
  <2>1. v \div T \in 0 .. 1 /\ v % T \in Slots
    BY WindowIndex
  <2>2. Walk(v) \in Int
    BY <2>1 DEF Walk
  <2>3. tlb' \in [Window -> Int]
    BY <1>10, <2>2 DEF TlbLoad
  <2> QED BY <1>10, <2>3 DEF TlbLoad
<1>11. CASE UNCHANGED vars
  BY <1>11 DEF vars
<1> QED BY <1>1, <1>2, <1>3, <1>4, <1>5, <1>6, <1>7, <1>8, <1>9, <1>10, <1>11 DEF Next, Step

\* Every variable has its type at all times.
LEMMA TypeInvariant == Spec => []TypeInv
<1>1. Init => TypeInv
  BY FixmapAssumption DEF Init, TypeInv, PCs, Held, NONE
<1> QED BY <1>1, TypeStep, PTL DEF Spec

-----------------------------------------------------------------------------
(* The TLB.                                                                *)

\* A stale translation can only be of the page whose entry has just been
\* written and is about to be flushed.
TlbInv ==
    \A v \in Window :
        \/ tlb[v] \in {NONE, Walk(v)}
        \/ pc \in {"flush", "perm_flush"} /\ v = fix_to_virt(idx)

\* Storing an entry makes at most one cached translation stale.
LEMMA TlbStep == ASSUME TypeInv, TlbInv, [Next]_vars PROVE TlbInv'
<1> USE FixmapAssumption DEF NONE
<1>1. ASSUME UNCHANGED <<level1, tlb>>, pc \notin {"flush", "perm_flush"} PROVE TlbInv'
  BY <1>1 DEF TlbInv, Walk
<1>2. ASSUME NEW x \in Permanent, NEW p, set_fixmap(x, p) PROVE TlbInv'
  <2>1. x \in 1 .. T - 1 /\ fix_to_virt(x) \in T .. 2 * T - 1
    BY <1>2 DEF set_fixmap, fix_to_virt, FIX_BITMAP_END
  <2>2. pte_index(fix_to_virt(x)) = fix_to_virt(x) - T
    BY <2>1, WindowDivMod DEF pte_index
  <2>3. ASSUME NEW v \in Window, v # fix_to_virt(x) PROVE Walk(v)' = Walk(v)
    <3>1. v \div T = 1 => v % T = v - T
      BY WindowDivMod DEF Window
    <3>2. v \div T \in 0 .. 1 /\ v % T \in Slots
      BY WindowIndex
    <3>3. \A t \in 0 .. 1, s \in Slots :
             t # 1 \/ s # fix_to_virt(x) - T => level1'[t][s] = level1[t][s]
      BY <1>2, <2>2 DEF set_fixmap, TypeInv
    <3>4. v \div T # 1 \/ v % T # fix_to_virt(x) - T
      BY <3>1, <2>1, <2>3 DEF Window
    <3> QED BY <3>2, <3>3, <3>4 DEF Walk
  <2>4. tlb' = tlb /\ pc' = "perm_flush" /\ idx' = x /\ pc = "idle"
    BY <1>2 DEF set_fixmap
  <2> QED BY <2>3, <2>4 DEF TlbInv, fix_to_virt
<1>3. CASE SetPte
  <2>1. idx \in T .. 2 * T - 1 /\ fix_to_virt(idx) \in 0 .. T - 1
    BY <1>3 DEF SetPte, fix_to_virt, FIX_BITMAP_BEGIN, FIX_BITMAP_END, TypeInv
  <2>2. pte_index(fix_to_virt(idx)) = fix_to_virt(idx)
    BY <2>1, WindowDivMod DEF pte_index
  <2>3. ASSUME NEW v \in Window, v # fix_to_virt(idx) PROVE Walk(v)' = Walk(v)
    <3>1. v \div T = 0 => v % T = v
      BY WindowDivMod DEF Window
    <3>2. v \div T \in 0 .. 1 /\ v % T \in Slots
      BY WindowIndex
    <3>3. \A t \in 0 .. 1, s \in Slots :
             t # 0 \/ s # fix_to_virt(idx) => level1'[t][s] = level1[t][s]
      BY <1>3, <2>2 DEF SetPte, TypeInv
    <3>4. v \div T # 0 \/ v % T # fix_to_virt(idx)
      BY <3>1, <2>1, <2>3 DEF Window
    <3> QED BY <3>2, <3>3, <3>4 DEF Walk
  <2>4. tlb' = tlb /\ pc' = "flush" /\ idx' = idx /\ pc = "set"
    BY <1>3 DEF SetPte, locals
  <2> QED BY <2>3, <2>4 DEF TlbInv, fix_to_virt
<1>4. CASE FlushPte \/ PermFlush
  <2>1. level1' = level1 /\ tlb' = [tlb EXCEPT ![fix_to_virt(idx)] = NONE]
        /\ pc' \notin {"flush", "perm_flush"}
    BY <1>4 DEF FlushPte, PermFlush, Flushed
  <2>2. \A v \in Window : Walk(v)' = Walk(v)
    BY <2>1 DEF Walk
  <2> QED BY <2>1, <2>2 DEF TlbInv, TypeInv
<1>5. ASSUME NEW v \in Window, TlbLoad(v) PROVE TlbInv'
  BY <1>5 DEF TlbLoad, TlbInv, TypeInv, Walk, locals
<1>6. CASE UNCHANGED vars
  BY <1>6 DEF vars, locals, TlbInv, Walk
<1>7. ASSUME NEW a, NEW s, __ioremap(a, s) PROVE TlbInv'
  BY <1>1, <1>7 DEF __ioremap
<1>8. ASSUME NEW h, NEW s, iounmap(h, s) PROVE TlbInv'
  BY <1>1, <1>8 DEF iounmap
<1>9. CASE ScanUsed \/ ScanFree \/ ScanFail \/ ScanDone \/ Halt \/ SetDone \/ Return
  BY <1>1, <1>9 DEF ScanUsed, ScanFree, ScanFail, ScanDone, Halt, SetDone, Return
<1> QED BY <1>2, <1>3, <1>4, <1>5, <1>6, <1>7, <1>8, <1>9 DEF Next, Step

\* TlbCoherent, for every window and whatever the word behind mapping[] holds:
\* between calls of ioremap.c the processor never uses a translation the page
\* tables no longer hold, though it may load one between a store and its flush.
THEOREM TlbAlwaysCoherent == Spec => []TlbCoherent
<1>1. Init => TlbInv
  BY DEF Init, TlbInv
<1>2. TypeInv /\ TlbInv /\ [Next]_vars => TlbInv'
  BY TlbStep
<1>3. TlbInv => TlbCoherent
  BY DEF TlbInv, TlbCoherent
<1> QED BY <1>1, <1>2, <1>3, TypeInvariant, PTL DEF Spec

-----------------------------------------------------------------------------
(* The ranges that 'mapping' records.                                      *)

\* No range reaches into another.
RangesApart ==
    /\ \A s \in Slots : mapping[s] = NONE \/ mapping[s] >= 1
    /\ \A s, t \in Slots : s < t /\ mapping[s] # NONE /\ mapping[t] # NONE =>
          s + mapping[s] <= t

\* What a caller has is recorded under its first slot, for that caller only.
HeldInv ==
    /\ \A h \in held : /\ h.v \in Slots
                       /\ mapping[h.v] = PagesOf(h.phys, h.size)
                       /\ PagesOf(h.phys, h.size) >= 1
                       /\ h.v + PagesOf(h.phys, h.size) <= T
    /\ \A h, g \in held : h.v = g.v => h = g

\* The entries of what callers have, and the permanent ones.
EntriesInv ==
    /\ \A h \in held : \A v \in SlotsOf(h) :
          level1[0][v] = (h.phys \div PAGE_SIZE) + (v - h.v)
    /\ \A x \in Permanent : level1[1][T - 1 - x] = perm[x]

Total == PagesOf(args.phys, args.size)

\* find_free_range: the slots from 'start' to 'i' are free, no range reaches
\* beyond 'start' from below, and no free run long enough begins below it.
ScanInv ==
    pc = "scan" =>
        /\ op = "map" /\ ret = NONE
        /\ args.size > 0 /\ left = Total /\ left >= 1 /\ left <= T
        /\ page = args.phys \div PAGE_SIZE
        /\ i = start + n /\ n <= left /\ (n > 0 => i <= T + 1)
        /\ \A s \in Slots : s >= start /\ s < i => mapping[s] = NONE
        /\ \A s \in Slots : s < start /\ mapping[s] # NONE => s + mapping[s] <= start
        /\ \A s \in Slots : s < start /\ s + left <= T =>
              \E t \in s .. s + left - 1 : t \in Reserved

\* The loops over __set_fixmap: Total - left pages are done.
SetInv ==
    pc \in {"set", "flush"} =>
        /\ op \in {"map", "unmap"}
        /\ left <= Total /\ Total >= 1
        /\ idx = FIX_BITMAP_BEGIN - (start + (Total - left))
        /\ start + (Total - left) <= T
        /\ start \in Slots => mapping[start] = Total
        /\ \A h \in held : h.v # start
        /\ op = "map" =>
              /\ ret = start
              /\ page = (args.phys \div PAGE_SIZE) + (Total - left)
              /\ \A v \in start .. start + (Total - left) - 1 :
                    level1[0][v] = (args.phys \div PAGE_SIZE) + (v - start)
        /\ op = "unmap" =>
              /\ page = NONE /\ start + Total <= T
              /\ \A v \in start .. start + (Total - left) - 1 : level1[0][v] = NONE
        /\ pc = "flush" => level1[0][fix_to_virt(idx)] = page

\* Every range has its caller, but for the one in work and one in the last
\* slot; and an entry is in use only inside a range.
Orphan(s) == s = T - 1 \/ (pc \in {"set", "flush"} /\ s = start) \/ pc = "halt"

OwnersInv ==
    /\ \A s \in Slots : mapping[s] # NONE => Orphan(s) \/ \E h \in held : h.v = s
    /\ pc # "halt" => \A v \in Slots : level1[0][v] # NONE =>
          \E s \in Slots : mapping[s] # NONE /\ v \in s .. s + mapping[s] - 1

\* A call that could not be served.
FailInv ==
    pc = "return" /\ op = "map" /\ args.size > 0 /\ ret = NONE =>
        \A s \in Slots : s + Total <= T => \E t \in s .. s + Total - 1 : t \in Reserved

MapInv == RangesApart /\ HeldInv /\ EntriesInv /\ ScanInv /\ SetInv /\ OwnersInv /\ FailInv

\* What the types say of the variables that the invariant is about.
LEMMA MapTypes ==
    ASSUME TypeInv
    PROVE  /\ T \in Nat /\ T >= 1
           /\ \A s \in Slots : mapping[s] \in Int
           /\ n \in Nat /\ i \in Nat /\ start \in Nat /\ left \in Nat /\ idx \in Int
           /\ Total \in Nat
           /\ \A h \in held : h.v \in Nat /\ h.phys \in Nat /\ h.size \in Nat
                              /\ PagesOf(h.phys, h.size) \in Nat
<1>1. T \in Nat /\ T >= 1 /\ \A s \in Slots : mapping[s] \in Int
  BY FixmapAssumption DEF TypeInv, NONE
<1>2. Total \in Nat
  BY PagesNat DEF TypeInv, Total
<1>3. \A h \in held : h.v \in Nat /\ h.phys \in Nat /\ h.size \in Nat
                         /\ PagesOf(h.phys, h.size) \in Nat
  BY PagesNat DEF TypeInv, Held
<1> QED BY <1>1, <1>2, <1>3 DEF TypeInv

\* The page that __set_fixmap writes next is the next one of the range in work,
\* and it belongs to nobody else.
LEMMA NextSlot ==
    ASSUME TypeInv, RangesApart, HeldInv, SetInv, pc \in {"set", "flush"},
           idx \in T .. 2 * T - 1, left > 0
    PROVE  /\ fix_to_virt(idx) = start + (Total - left)
           /\ fix_to_virt(idx) \in Slots /\ start \in Slots
           /\ pte_index(fix_to_virt(idx)) = fix_to_virt(idx)
           /\ \A h \in held : fix_to_virt(idx) \notin SlotsOf(h)
<1> USE MapTypes
<1>1. fix_to_virt(idx) = start + (Total - left)
  BY DEF SetInv, fix_to_virt, FIX_BITMAP_BEGIN, FIX_BITMAP_END
<1>2. fix_to_virt(idx) \in Slots /\ start \in Slots
  BY <1>1 DEF SetInv, fix_to_virt, Slots
<1>3. pte_index(fix_to_virt(idx)) = fix_to_virt(idx)
  BY <1>2, WindowDivMod DEF pte_index, Slots
<1>4. ASSUME NEW h \in held PROVE fix_to_virt(idx) \notin SlotsOf(h)
  <2>1. h.v \in Slots /\ mapping[h.v] = PagesOf(h.phys, h.size) /\ mapping[h.v] >= 1
    BY DEF HeldInv
  <2>2. mapping[start] = Total /\ Total >= 1 /\ h.v # start
    BY <1>2 DEF SetInv
  <2>3. \/ h.v < start /\ h.v + mapping[h.v] <= start
        \/ start < h.v /\ start + mapping[start] <= h.v
    BY <2>1, <2>2, <1>2 DEF RangesApart, NONE, Slots
  <2>4. left <= Total
    BY DEF SetInv
  <2> QED BY <2>1, <2>2, <2>3, <2>4, <1>1 DEF SlotsOf
<1> QED BY <1>1, <1>2, <1>3, <1>4

\* iounmap gives back every range except one that begins in the last slot.
LEMMA RefusedIsLast ==
    ASSUME NEW v \in Slots, NEW a \in Nat, NEW h, h.v = v, h.phys = a, ~InWindow(h)
    PROVE  v = T - 1
<1> DEFINE off == a % PAGE_SIZE
<1>1. T \in Nat /\ T >= 1 /\ PAGE_SIZE \in Nat /\ PAGE_SIZE >= 1 /\ v \in Nat /\ v <= T - 1
  BY FixmapAssumption DEF Slots
<1>2. off \in Nat /\ off < PAGE_SIZE
  BY <1>1
<1>3. fix_to_virt(FIX_BITMAP_BEGIN) = 0 /\ fix_to_virt(FIX_BITMAP_END) = T - 1
  BY <1>1 DEF fix_to_virt, FIX_BITMAP_BEGIN, FIX_BITMAP_END
<1>4. \/ ~(v * PAGE_SIZE + off >= 0 * PAGE_SIZE)
      \/ ~(v * PAGE_SIZE + off <= (T - 1) * PAGE_SIZE)
  BY <1>3 DEF InWindow
<1> HIDE DEF off
<1>5. SUFFICES ASSUME v <= T - 2 PROVE FALSE
  BY <1>1
<1>6. v * PAGE_SIZE >= 0 /\ v * PAGE_SIZE \in Int
  BY <1>1
<1>7. v * PAGE_SIZE + PAGE_SIZE <= (T - 1) * PAGE_SIZE
  <2>1. (v + 1) * PAGE_SIZE <= (T - 1) * PAGE_SIZE
    BY <1>1, <1>5
  <2> QED BY <2>1, <1>1
<1> QED BY <1>1, <1>2, <1>4, <1>6, <1>7

\* A call, a scan or a flush that writes no entry and changes no range leaves
\* what callers have as it was.
LEMMA MapFrame ==
    ASSUME TypeInv, MapInv, UNCHANGED <<mapping, level1, held, perm>>
    PROVE  RangesApart' /\ HeldInv' /\ EntriesInv'
BY DEF MapInv, RangesApart, HeldInv, EntriesInv, SlotsOf

-----------------------------------------------------------------------------
(* One lemma for each part of the code.                                    *)

\* __ioremap begins its search with nothing passed over.
LEMMA IoremapStep ==
    ASSUME TypeInv, MapInv, NEW a \in PhysAddrs, NEW s \in Sizes, __ioremap(a, s)
    PROVE  MapInv'
<1> USE MapTypes
<1>1. a \in Nat /\ s \in Nat /\ PagesOf(a, s) \in Nat /\ (s > 0 => PagesOf(a, s) >= 1)
  BY FixmapAssumption, PagesNat
<1>2. /\ UNCHANGED <<mapping, level1, held, perm, ret>> /\ pc = "idle"
      /\ pc' = IF s = 0 \/ PagesOf(a, s) > T THEN "return" ELSE "scan"
      /\ op' = "map" /\ args' = [phys |-> a, size |-> s]
      /\ left' = PagesOf(a, s) /\ page' = a \div PAGE_SIZE
      /\ n' = 0 /\ i' = 0 /\ start' = 0
  BY DEF __ioremap
<1>3. Total' = PagesOf(a, s) /\ ret = NONE
  BY <1>2 DEF Total, TypeInv
<1>4. RangesApart' /\ HeldInv' /\ EntriesInv'
  BY <1>2, MapFrame
<1>5. ScanInv'
  BY <1>1, <1>2, <1>3 DEF ScanInv, Slots
<1>6. SetInv'
  BY <1>2 DEF SetInv
<1>7. OwnersInv'
  BY <1>2 DEF MapInv, OwnersInv, Orphan
<1>8. FailInv'
  BY <1>1, <1>2, <1>3 DEF FailInv, Slots
<1> QED BY <1>4, <1>5, <1>6, <1>7, <1>8 DEF MapInv

\* The scan jumps over a range, and over no free run that is long enough.
LEMMA ScanUsedStep ==
    ASSUME TypeInv, MapInv, \A v \in Beyond : v >= NONE, ScanUsed
    PROVE  MapInv'
<1> USE MapTypes
<1>1. /\ UNCHANGED <<mapping, level1, held, perm, pc, op, args, page, left, ret>>
      /\ pc = "scan" /\ n < left /\ i <= T /\ n' = 0
  BY DEF ScanUsed, Bound
<1>2. PICK v \in Found(i) \ {NONE} : i' = i + v /\ start' = i + v
  BY DEF ScanUsed
<1>3. /\ v \in Nat /\ (i \in Slots => v = mapping[i] /\ v >= 1)
      /\ i \notin Slots => i = T
  <2>1. CASE i \in Slots
    BY <2>1, <1>2 DEF Found, MapInv, RangesApart
  <2>2. CASE i \notin Slots
    <3>1. i = T
      BY <2>2, <1>1 DEF Slots
    <3>2. v \in Beyond /\ v # NONE
      BY <2>2, <1>2 DEF Found
    <3>3. v \in Int /\ v >= NONE
      BY <3>2, FixmapAssumption
    <3> QED BY <2>2, <3>1, <3>2, <3>3 DEF NONE
  <2> QED BY <2>1, <2>2
<1>4. RangesApart' /\ HeldInv' /\ EntriesInv'
  BY <1>1, MapFrame
<1>5. Total' = Total /\ Reserved' = Reserved
  BY <1>1 DEF Total, Reserved
<1>6. /\ op = "map" /\ ret = NONE /\ args.size > 0 /\ left = Total /\ left >= 1 /\ left <= T
      /\ page = args.phys \div PAGE_SIZE /\ i = start + n
      /\ \A s \in Slots : s >= start /\ s < i => mapping[s] = NONE
      /\ \A s \in Slots : s < start /\ mapping[s] # NONE => s + mapping[s] <= start
      /\ \A s \in Slots : s < start /\ s + left <= T =>
            \E t \in s .. s + left - 1 : t \in Reserved
  BY <1>1 DEF MapInv, ScanInv
<1>7. ASSUME NEW s \in Slots, s < i + v, mapping[s] # NONE PROVE s + mapping[s] <= i + v
  <2>1. CASE s < start
    BY <2>1, <1>3, <1>6, <1>7 DEF Slots
  <2>2. CASE s >= start /\ s < i
    BY <2>2, <1>6, <1>7
  <2>3. CASE s = i
    BY <2>3, <1>3
  <2>4. CASE s > i
    <3>1. i \in Slots /\ mapping[i] = v /\ mapping[i] # NONE
      BY <2>4, <1>3 DEF Slots, NONE
    <3> QED BY <3>1, <2>4, <1>7 DEF MapInv, RangesApart, Slots
  <2> QED BY <2>1, <2>2, <2>3, <2>4 DEF Slots
<1>8. ASSUME NEW s \in Slots, s < i + v, s + left <= T
      PROVE  \E t \in s .. s + left - 1 : t \in Reserved
  <2>1. CASE s < start
    BY <2>1, <1>6, <1>8
  <2>2. CASE s >= start /\ s <= i
    <3>1. i \in s .. s + left - 1 /\ i \in Slots
      BY <2>2, <1>1, <1>6, <1>8 DEF Slots
    <3>2. i \in Reserved
      BY <3>1, <1>3 DEF Reserved, NONE
    <3> QED BY <3>1, <3>2
  <2>3. CASE s > i
    <3>1. i \in Slots /\ mapping[i] = v /\ v >= 1
      BY <2>3, <1>3 DEF Slots
    <3>2. s \in i .. i + mapping[i] - 1
      BY <3>1, <2>3, <1>8 DEF Slots
    <3>3. s \in Reserved
      BY <3>1, <3>2, <1>3 DEF Reserved, NONE
    <3> QED BY <3>3, <1>6 DEF Slots
  <2> QED BY <2>1, <2>2, <2>3 DEF Slots
<1>9. ScanInv'
  <2>1. \A s \in Slots : s >= start' /\ s < i' => mapping'[s] = NONE
    BY <1>2, <1>3 DEF Slots
  <2>2. \A s \in Slots : s < start' /\ mapping'[s] # NONE => s + mapping'[s] <= start'
    BY <1>1, <1>2, <1>7
  <2>3. \A s \in Slots : s < start' /\ s + left' <= T =>
           \E t \in s .. s + left' - 1 : t \in Reserved'
    BY <1>1, <1>2, <1>5, <1>8
  <2>4. i' = start' + n' /\ n' <= left' /\ ~(n' > 0)
    BY <1>1, <1>2, <1>3, <1>6
  <2> QED BY <1>1, <1>5, <1>6, <2>1, <2>2, <2>3, <2>4 DEF ScanInv
<1>10. SetInv' /\ FailInv'
  BY <1>1 DEF SetInv, FailInv
<1>11. OwnersInv'
  BY <1>1 DEF MapInv, OwnersInv, Orphan
<1> QED BY <1>4, <1>9, <1>10, <1>11 DEF MapInv

\* The scan counts a free slot, or gives up behind the last one.
LEMMA ScanFreeStep == ASSUME TypeInv, MapInv, ScanFree \/ ScanFail PROVE MapInv'
<1> USE MapTypes
<1>1. UNCHANGED <<mapping, level1, held, perm, op, args, start, page, left, ret>>
  BY DEF ScanFree, ScanFail, locals
<1>2. RangesApart' /\ HeldInv' /\ EntriesInv'
  BY <1>1, MapFrame
<1>3. Total' = Total /\ Reserved' = Reserved
  BY <1>1 DEF Total, Reserved
<1>4. CASE ScanFree
  <2>1. pc = "scan" /\ pc' = "scan" /\ n < left /\ i <= T /\ n' = n + 1 /\ i' = i + 1
    BY <1>4 DEF ScanFree, Bound
  <2>2. i \in Slots => mapping[i] = NONE
    BY <1>4 DEF ScanFree, Found
  <2>3. ScanInv'
    BY <1>1, <1>3, <2>1, <2>2 DEF MapInv, ScanInv, Slots
  <2>4. SetInv' /\ FailInv' /\ OwnersInv'
    BY <1>1, <2>1 DEF MapInv, SetInv, FailInv, OwnersInv, Orphan
  <2> QED BY <1>2, <2>3, <2>4 DEF MapInv
<1>5. CASE ScanFail
  <2>1. pc = "scan" /\ pc' = "return" /\ n < left /\ i > T
    BY <1>5 DEF ScanFail, Bound
  <2>2. ASSUME NEW s \in Slots, s + Total <= T
        PROVE  \E t \in s .. s + Total - 1 : t \in Reserved
    <3>1. left = Total /\ i = start + n
      BY <2>1 DEF MapInv, ScanInv
    <3>2. s < start
      BY <3>1, <2>1, <2>2 DEF Slots
    <3> QED BY <3>1, <3>2, <2>1, <2>2 DEF MapInv, ScanInv
  <2>3. FailInv'
    BY <1>3, <2>2 DEF FailInv
  <2>4. ScanInv' /\ SetInv' /\ OwnersInv'
    BY <1>1, <2>1 DEF MapInv, ScanInv, SetInv, OwnersInv, Orphan
  <2> QED BY <1>2, <2>3, <2>4 DEF MapInv
<1> QED BY <1>4, <1>5

\* The run of free slots that was found becomes a range of its own.
LEMMA ScanDoneStep == ASSUME TypeInv, MapInv, ScanDone PROVE MapInv'
<1> USE MapTypes
<1>1. /\ UNCHANGED <<level1, held, perm, op, args, start, page, left>>
      /\ pc = "scan" /\ n >= left /\ pc' = "set"
      /\ mapping' = [s \in Slots |-> IF s = start THEN left ELSE mapping[s]]
      /\ idx' = FIX_BITMAP_BEGIN - start
      /\ ret' = start
  BY DEF ScanDone, fix_to_virt, FIX_BITMAP_BEGIN, FIX_BITMAP_END
<1>2. /\ op = "map" /\ left = Total /\ left >= 1
      /\ page = args.phys \div PAGE_SIZE /\ i = start + left /\ i <= T + 1
      /\ \A s \in Slots : s >= start /\ s < i => mapping[s] = NONE
      /\ \A s \in Slots : s < start /\ mapping[s] # NONE => s + mapping[s] <= start
  BY <1>1 DEF MapInv, ScanInv
<1>3. start \in Slots => mapping[start] = NONE
  BY <1>2
<1>4. Total' = Total
  BY <1>1 DEF Total
<1>5. RangesApart'
  <2>1. \A s \in Slots : mapping'[s] = NONE \/ mapping'[s] >= 1
    BY <1>1, <1>2 DEF MapInv, RangesApart
  <2>2. ASSUME NEW s \in Slots, NEW t \in Slots, s < t, mapping'[s] # NONE, mapping'[t] # NONE
        PROVE  s + mapping'[s] <= t
    <3>1. CASE s = start
      BY <3>1, <1>1, <1>2, <2>2 DEF Slots
    <3>2. CASE t = start
      BY <3>2, <1>1, <1>2, <2>2 DEF Slots
    <3>3. CASE s # start /\ t # start
      BY <3>3, <1>1, <2>2 DEF MapInv, RangesApart
    <3> QED BY <3>1, <3>2, <3>3
  <2> QED BY <2>1, <2>2 DEF RangesApart
<1>6. \A h \in held : h.v # start
  BY <1>3 DEF MapInv, HeldInv, NONE
<1>7. HeldInv' /\ EntriesInv'
  BY <1>1, <1>6 DEF MapInv, HeldInv, EntriesInv, SlotsOf
<1>8. SetInv'
  BY <1>1, <1>2, <1>4, <1>6 DEF SetInv, Slots
<1>9. OwnersInv'
  BY <1>1, <1>2, <1>3 DEF MapInv, OwnersInv, Orphan, NONE
<1>10. ScanInv' /\ FailInv'
  BY <1>1 DEF ScanInv, FailInv
<1> QED BY <1>5, <1>7, <1>8, <1>9, <1>10 DEF MapInv

\* iounmap takes a range from its caller, or refuses and leaves it alone.
LEMMA IounmapStep ==
    ASSUME TypeInv, MapInv, NEW h \in held, NEW s \in Sizes, iounmap(h, s)
    PROVE  MapInv'
<1> USE MapTypes
<1>1. /\ UNCHANGED <<mapping, level1, perm>> /\ pc = "idle"
      /\ op' = "unmap" /\ args' = [phys |-> h.phys, size |-> s]
      /\ held' = IF PagesOf(h.phys, s) = PagesOf(h.phys, h.size) THEN held \ {h} ELSE held
      /\ left' = PagesOf(h.phys, s) /\ page' = NONE
      /\ pc' = IF InWindow(h) /\ mapping[start'] = left' THEN "set" ELSE "return"
  BY DEF iounmap
<1>2. start' = h.v /\ idx' = FIX_BITMAP_BEGIN - h.v
  BY DEF iounmap, virt_to_fix, FIX_BITMAP_BEGIN, FIX_BITMAP_END
<1>3. /\ h.v \in Slots /\ mapping[h.v] = PagesOf(h.phys, h.size)
      /\ PagesOf(h.phys, h.size) >= 1 /\ h.v + PagesOf(h.phys, h.size) <= T
      /\ \A g \in held : g.v = h.v => g = h
  BY DEF MapInv, HeldInv
<1>4. Total' = left' /\ left' \in Nat
  <2>1. s \in Nat
    BY FixmapAssumption
  <2> QED BY <1>1, <2>1, PagesNat DEF Total
<1>5. held' \subseteq held
  BY <1>1
<1>6. RangesApart' /\ HeldInv' /\ EntriesInv'
  BY <1>1, <1>5 DEF MapInv, RangesApart, HeldInv, EntriesInv, SlotsOf
<1>7. SetInv'
  <2> SUFFICES ASSUME pc' = "set" PROVE SetInv'
    BY <1>1 DEF SetInv
  <2>1. left' = PagesOf(h.phys, h.size) /\ held' = held \ {h} /\ mapping[h.v] = left'
    BY <1>1, <1>2, <1>3
  <2>2. \A g \in held' : g.v # start'
    BY <2>1, <1>2, <1>3
  <2> QED BY <2>1, <2>2, <1>1, <1>2, <1>3, <1>4 DEF SetInv, Slots
<1>8. OwnersInv'
  <2>1. ASSUME NEW t \in Slots, mapping[t] # NONE
        PROVE  Orphan(t)' \/ \E g \in held' : g.v = t
    <3>1. t = T - 1 \/ \E g \in held : g.v = t
      BY <2>1, <1>1 DEF MapInv, OwnersInv, Orphan
    <3>2. CASE t # h.v
      BY <3>1, <3>2, <1>1 DEF Orphan
    <3>3. CASE t = h.v /\ held' = held
      BY <3>3
    <3>4. CASE t = h.v /\ pc' = "set"
      BY <3>4, <1>2 DEF Orphan
    <3>5. CASE t = h.v /\ held' # held /\ pc' # "set"
      <4>1. ~InWindow(h)
        BY <3>5, <1>1, <1>2, <1>3
      <4>2. t = T - 1
        BY <4>1, <3>5, <1>3, RefusedIsLast
      <4> QED BY <4>2 DEF Orphan
    <3> QED BY <3>2, <3>3, <3>4, <3>5
  <2>2. \A v \in Slots : level1[0][v] # NONE =>
           \E t \in Slots : mapping[t] # NONE /\ v \in t .. t + mapping[t] - 1
    BY <1>1 DEF MapInv, OwnersInv
  <2> QED BY <1>1, <2>1, <2>2 DEF OwnersInv
<1>9. ScanInv' /\ FailInv'
  BY <1>1 DEF ScanInv, FailInv
<1> QED BY <1>6, <1>7, <1>8, <1>9 DEF MapInv

\* __set_fixmap stores an entry of the range in work and of no other.
LEMMA SetPteStep == ASSUME TypeInv, MapInv, SetPte PROVE MapInv'
<1> USE MapTypes
<1> DEFINE w == fix_to_virt(idx)
<1>1. /\ UNCHANGED <<mapping, held, perm, op, args, n, i, start, idx, page, left, ret>>
      /\ pc = "set" /\ left > 0 /\ pc' = "flush" /\ idx \in T .. 2 * T - 1
  BY DEF SetPte, locals, FIX_BITMAP_BEGIN, FIX_BITMAP_END
<1>2. /\ w = start + (Total - left) /\ w \in Slots /\ start \in Slots
      /\ pte_index(w) = w
      /\ \A h \in held : w \notin SlotsOf(h)
  BY <1>1, NextSlot DEF MapInv
<1> HIDE DEF w
<1>3. /\ level1'[1] = level1[1] /\ level1'[0][w] = page
      /\ \A v \in Slots : v # w => level1'[0][v] = level1[0][v]
  BY <1>2 DEF SetPte, TypeInv, w
<1>4. Total' = Total
  BY <1>1 DEF Total
<1>5. \A h \in held : SlotsOf(h)' = SlotsOf(h) /\ SlotsOf(h) \subseteq Slots
  BY DEF SlotsOf, MapInv, HeldInv, Slots
<1>6. RangesApart' /\ HeldInv'
  BY <1>1 DEF MapInv, RangesApart, HeldInv
<1>7. EntriesInv'
  BY <1>1, <1>2, <1>3, <1>5 DEF MapInv, EntriesInv
<1>8. /\ op \in {"map", "unmap"} /\ left <= Total /\ Total >= 1
      /\ idx = FIX_BITMAP_BEGIN - (start + (Total - left))
      /\ start + (Total - left) <= T /\ mapping[start] = Total
      /\ \A h \in held : h.v # start
  BY <1>1, <1>2 DEF MapInv, SetInv
<1>9. ASSUME NEW v \in start .. start + (Total - left) - 1
      PROVE  v \in Slots /\ level1'[0][v] = level1[0][v]
  BY <1>2, <1>3 DEF Slots
<1>10. SetInv'
  <2>1. op = "map" =>
          /\ ret = start /\ page = (args.phys \div PAGE_SIZE) + (Total - left)
          /\ \A v \in start .. start + (Total - left) - 1 :
                level1'[0][v] = (args.phys \div PAGE_SIZE) + (v - start)
    BY <1>1, <1>9 DEF MapInv, SetInv
  <2>2. op = "unmap" =>
          /\ page = NONE /\ start + Total <= T
          /\ \A v \in start .. start + (Total - left) - 1 : level1'[0][v] = NONE
    BY <1>1, <1>9 DEF MapInv, SetInv
  <2>3. fix_to_virt(idx)' = w
    BY <1>1 DEF w, fix_to_virt
  <2> QED BY <1>1, <1>3, <1>4, <1>8, <2>1, <2>2, <2>3 DEF SetInv
<1>11. OwnersInv'
  <2>1. w \in start .. start + mapping[start] - 1 /\ mapping[start] # NONE
    BY <1>1, <1>2, <1>8 DEF NONE
  <2>2. \A v \in Slots : level1'[0][v] # NONE =>
          \E s \in Slots : mapping[s] # NONE /\ v \in s .. s + mapping[s] - 1
    BY <1>1, <1>2, <1>3, <2>1 DEF MapInv, OwnersInv
  <2>3. \A s \in Slots : mapping[s] # NONE => Orphan(s)' \/ \E h \in held : h.v = s
    BY <1>1 DEF MapInv, OwnersInv, Orphan
  <2> QED BY <1>1, <2>2, <2>3 DEF OwnersInv
<1>12. ScanInv' /\ FailInv'
  BY <1>1 DEF ScanInv, FailInv
<1> QED BY <1>6, <1>7, <1>10, <1>11, <1>12 DEF MapInv

\* Once an entry is flushed, one page more of the range is done.
LEMMA FlushPteStep == ASSUME TypeInv, MapInv, FlushPte PROVE MapInv'
<1> USE MapTypes
<1>1. /\ UNCHANGED <<mapping, level1, held, perm, op, args, start, ret>>
      /\ pc = "flush" /\ pc' = "set" /\ left' = left - 1 /\ idx' = idx - 1
      /\ page' = IF op = "map" THEN page + 1 ELSE page
      /\ idx \in T .. 2 * T - 1 /\ left > 0
  BY DEF FlushPte, NextPage, TypeInv
<1>2. fix_to_virt(idx) = start + (Total - left) /\ fix_to_virt(idx) \in Slots
  BY <1>1, NextSlot DEF MapInv
<1>3. Total' = Total /\ Total - left' = (Total - left) + 1
  BY <1>1 DEF Total
<1>4. RangesApart' /\ HeldInv' /\ EntriesInv'
  BY <1>1, MapFrame
<1>5. SetInv'
  <2>1. /\ op \in {"map", "unmap"} /\ left <= Total /\ Total >= 1
        /\ idx = FIX_BITMAP_BEGIN - (start + (Total - left))
        /\ start \in Slots => mapping[start] = Total
        /\ \A h \in held : h.v # start
        /\ level1[0][start + (Total - left)] = page
    BY <1>1, <1>2 DEF MapInv, SetInv
  <2>2. start + (Total - left') <= T
    BY <1>2, <1>3 DEF Slots
  <2>3. idx' = FIX_BITMAP_BEGIN - (start + (Total - left'))
    BY <1>1, <1>3, <2>1 DEF FIX_BITMAP_BEGIN, FIX_BITMAP_END
  <2>4. op = "map" =>
          /\ ret = start /\ page' = (args.phys \div PAGE_SIZE) + (Total - left')
          /\ \A v \in start .. start + (Total - left') - 1 :
                level1[0][v] = (args.phys \div PAGE_SIZE) + (v - start)
    <3>1. args.phys \div PAGE_SIZE \in Nat
      BY FrameNat DEF TypeInv
    <3> QED BY <3>1, <1>1, <1>3, <2>1 DEF MapInv, SetInv
  <2>5. op = "unmap" =>
          /\ page' = NONE /\ start + Total <= T
          /\ \A v \in start .. start + (Total - left') - 1 : level1[0][v] = NONE
    BY <1>1, <1>3, <2>1 DEF MapInv, SetInv
  <2> QED BY <1>1, <1>3, <2>1, <2>2, <2>3, <2>4, <2>5 DEF SetInv
<1>6. OwnersInv'
  BY <1>1 DEF MapInv, OwnersInv, Orphan
<1>7. ScanInv' /\ FailInv'
  BY <1>1 DEF ScanInv, FailInv
<1> QED BY <1>4, <1>5, <1>6, <1>7 DEF MapInv

\* A mapping is handed to its caller, or a range given back is free again.
LEMMA SetDoneStep == ASSUME TypeInv, MapInv, SetDone PROVE MapInv'
<1> USE MapTypes
<1>1. /\ UNCHANGED <<level1, perm, op, args, start, ret>>
      /\ pc = "set" /\ left = 0 /\ pc' = "return"
  BY DEF SetDone, locals
<1>2. /\ op \in {"map", "unmap"} /\ Total >= 1 /\ start + Total <= T
      /\ start \in Slots /\ mapping[start] = Total
      /\ \A h \in held : h.v # start
  BY <1>1 DEF MapInv, SetInv, Slots
<1>3. ScanInv' /\ SetInv'
  BY <1>1 DEF ScanInv, SetInv
<1>4. CASE op = "map"
  <2> DEFINE new == [v |-> ret, phys |-> args.phys, size |-> args.size]
  <2>1. mapping' = mapping /\ held' = held \cup {new}
    BY <1>4 DEF SetDone
  <2>2. ret = start
    BY <1>1, <1>4 DEF MapInv, SetInv
  <2>3. /\ new.v = start /\ new.phys = args.phys
        /\ PagesOf(new.phys, new.size) = Total
    BY <2>2 DEF Total
  <2> HIDE DEF new
  <2>4. RangesApart'
    BY <2>1 DEF MapInv, RangesApart
  <2>5. HeldInv'
    BY <2>1, <2>3, <1>2 DEF MapInv, HeldInv
  <2>6. \A v \in SlotsOf(new) : level1[0][v] = (new.phys \div PAGE_SIZE) + (v - new.v)
    BY <1>1, <1>4, <2>3 DEF MapInv, SetInv, SlotsOf
  <2>7. EntriesInv'
    BY <2>1, <2>6, <1>1 DEF MapInv, EntriesInv, SlotsOf
  <2>8. OwnersInv'
    BY <2>1, <2>3, <1>1 DEF MapInv, OwnersInv, Orphan
  <2>9. FailInv'
    BY <2>2, <1>1 DEF FailInv, NONE
  <2> QED BY <1>3, <2>4, <2>5, <2>7, <2>8, <2>9 DEF MapInv
<1>5. CASE op = "unmap"
  <2>1. mapping' = [mapping EXCEPT ![start] = NONE] /\ held' = held
    BY <1>5 DEF SetDone
  <2>2. /\ mapping'[start] = NONE
        /\ \A s \in Slots : s # start => mapping'[s] = mapping[s]
    BY <2>1, <1>2 DEF TypeInv
  <2>3. RangesApart'
    BY <2>2 DEF MapInv, RangesApart
  <2>4. HeldInv' /\ EntriesInv'
    BY <2>1, <2>2, <1>1, <1>2 DEF MapInv, HeldInv, EntriesInv, SlotsOf
  <2>5. \A v \in start .. start + mapping[start] - 1 : level1[0][v] = NONE
    BY <1>1, <1>2, <1>5 DEF MapInv, SetInv
  <2>6. OwnersInv'
    BY <2>1, <2>2, <2>5, <1>1 DEF MapInv, OwnersInv, Orphan
  <2>7. FailInv'
    BY <1>1, <1>5 DEF FailInv
  <2> QED BY <1>3, <2>3, <2>4, <2>6, <2>7 DEF MapInv
<1> QED BY <1>2, <1>4, <1>5

\* set_fixmap stores the entry of its index in the other table.
LEMMA PermStep ==
    ASSUME TypeInv, MapInv, NEW x \in Permanent, NEW p \in Int, set_fixmap(x, p)
    PROVE  MapInv'
<1> USE MapTypes
<1>1. /\ UNCHANGED <<mapping, held>> /\ pc = "idle" /\ pc' = "perm_flush"
      /\ perm' = [perm EXCEPT ![x] = p] /\ x \in 1 .. T - 1
  BY FixmapAssumption DEF set_fixmap, FIX_BITMAP_END
<1>2. pte_index(fix_to_virt(x)) = T - 1 - x
  <2>1. fix_to_virt(x) \in T .. 2 * T - 1 /\ fix_to_virt(x) - T = T - 1 - x
    BY <1>1 DEF fix_to_virt
  <2> QED BY <2>1, WindowDivMod DEF pte_index
<1>3. /\ level1'[0] = level1[0] /\ level1'[1][T - 1 - x] = p
      /\ \A v \in Slots : v # T - 1 - x => level1'[1][v] = level1[1][v]
  BY <1>1, <1>2 DEF set_fixmap, TypeInv, Slots
<1>4. \A y \in Permanent : y \in Int /\ T - 1 - y \in Slots
  BY FixmapAssumption DEF Slots
<1>5. EntriesInv'
  BY <1>1, <1>3, <1>4 DEF MapInv, EntriesInv, SlotsOf, TypeInv
<1>6. RangesApart' /\ HeldInv'
  BY <1>1 DEF MapInv, RangesApart, HeldInv
<1>7. OwnersInv'
  BY <1>1, <1>3 DEF MapInv, OwnersInv, Orphan
<1>8. ScanInv' /\ SetInv' /\ FailInv'
  BY <1>1 DEF ScanInv, SetInv, FailInv
<1> QED BY <1>5, <1>6, <1>7, <1>8 DEF MapInv

\* The other steps change neither ranges nor entries.
LEMMA QuietStep ==
    ASSUME TypeInv, MapInv,
           \/ Halt \/ PermFlush \/ Return \/ UNCHANGED vars
           \/ \E v \in Window : TlbLoad(v)
    PROVE  MapInv'
<1>1. UNCHANGED <<mapping, level1, held, perm>>
  BY DEF Halt, PermFlush, Return, TlbLoad, vars
<1>2. RangesApart' /\ HeldInv' /\ EntriesInv'
  BY <1>1, MapFrame
<1>3. CASE Halt \/ Return
  BY <1>1, <1>2, <1>3
     DEF MapInv, ScanInv, SetInv, OwnersInv, FailInv, Orphan, Halt, Return
<1>4. CASE PermFlush
  BY <1>1, <1>2, <1>4
     DEF TypeInv, MapInv, ScanInv, SetInv, OwnersInv, FailInv, Orphan, PermFlush
<1>5. CASE UNCHANGED vars \/ \E v \in Window : TlbLoad(v)
  <2>1. UNCHANGED <<pc, op, args, n, i, start, idx, page, left, ret>>
    BY <1>5 DEF vars, locals, TlbLoad
  <2>2. Total' = Total /\ Reserved' = Reserved
    BY <1>1, <2>1 DEF Total, Reserved
  <2> QED BY <1>1, <1>2, <2>1, <2>2
     DEF MapInv, ScanInv, SetInv, OwnersInv, FailInv, Orphan, fix_to_virt
<1> QED BY <1>3, <1>4, <1>5

\* Every step keeps the ranges, their entries and their owners in order.
LEMMA MapStep ==
    ASSUME TypeInv, MapInv, \A v \in Beyond : v >= NONE, [Next]_vars
    PROVE  MapInv'
<1>1. ASSUME NEW a \in PhysAddrs, NEW s \in Sizes, __ioremap(a, s) PROVE MapInv'
  BY <1>1, IoremapStep
<1>2. ASSUME NEW h \in held, NEW s \in Sizes, iounmap(h, s) PROVE MapInv'
  BY <1>2, IounmapStep
<1>3. ASSUME NEW x \in Permanent, NEW a \in PhysAddrs, set_fixmap(x, a \div PAGE_SIZE)
      PROVE  MapInv'
  <2>1. a \div PAGE_SIZE \in Int
    BY FixmapAssumption, FrameNat
  <2> QED BY <1>3, <2>1, PermStep
<1>4. CASE ScanUsed
  BY <1>4, ScanUsedStep
<1>5. CASE ScanFree \/ ScanFail
  BY <1>5, ScanFreeStep
<1>6. CASE ScanDone
  BY <1>6, ScanDoneStep
<1>7. CASE SetPte
  BY <1>7, SetPteStep
<1>8. CASE FlushPte
  BY <1>8, FlushPteStep
<1>9. CASE SetDone
  BY <1>9, SetDoneStep
<1>10. CASE Halt \/ PermFlush \/ Return \/ UNCHANGED vars \/ \E v \in Window : TlbLoad(v)
  BY <1>10, QuietStep
<1> QED BY <1>1, <1>2, <1>3, <1>4, <1>5, <1>6, <1>7, <1>8, <1>9, <1>10 DEF Next, Step

\* The invariant holds at all times if the word behind mapping[], which
\* find_free_range reads, is not less than -1.  (A smaller number makes the scan
\* jump back into a range.)
LEMMA MapInvariant == ASSUME \A v \in Beyond : v >= NONE PROVE Spec => []MapInv
<1>1. Init => MapInv
  <2> SUFFICES ASSUME Init PROVE MapInv
    OBVIOUS
  <2>1. pc = "idle" /\ held = {} /\ \A s \in Slots : mapping[s] = NONE
    BY DEF Init
  <2>2. \A x \in Permanent : T - 1 - x \in Slots
    BY FixmapAssumption DEF Slots
  <2>3. EntriesInv
    BY <2>1, <2>2 DEF Init, EntriesInv
  <2>4. OwnersInv
    BY <2>1 DEF Init, OwnersInv
  <2> QED BY <2>1, <2>3, <2>4
          DEF MapInv, RangesApart, HeldInv, ScanInv, SetInv, FailInv
<1>2. TypeInv /\ MapInv /\ [Next]_vars => MapInv'
  BY MapStep
<1> QED BY <1>1, <1>2, TypeInvariant, PTL DEF Spec

\* Translates, for every window: whatever sequence of ioremap, iounmap and
\* set_fixmap calls is made, each address of a mapping somebody holds leads to
\* the frame asked for, no slot is handed out twice and none outside the
\* temporary table, and the permanent entries keep their frames.
THEOREM MappingsTranslate ==
    ASSUME \A v \in Beyond : v >= NONE
    PROVE  Spec => []Translates
<1>1. TypeInv /\ MapInv => Translates
  <2> SUFFICES ASSUME TypeInv, MapInv PROVE Translates
    OBVIOUS
  <2> USE MapTypes
  <2>1. \A h \in held : SlotsOf(h) \subseteq Slots
    BY DEF MapInv, HeldInv, SlotsOf, Slots
  <2>2. \A h \in held : \A v \in SlotsOf(h) :
           Walk(v) = (h.phys \div PAGE_SIZE) + (v - h.v)
    BY <2>1, WalkIs DEF MapInv, EntriesInv, Slots
  <2>3. ASSUME NEW x \in Permanent PROVE Walk(fix_to_virt(x)) = perm[x]
    <3>1. fix_to_virt(x) \in T .. 2 * T - 1 /\ fix_to_virt(x) - T = T - 1 - x
      BY FixmapAssumption DEF fix_to_virt
    <3> QED BY <3>1, WalkIs DEF MapInv, EntriesInv
  <2>4. ASSUME NEW h \in held, NEW g \in held, h # g PROVE SlotsOf(h) \cap SlotsOf(g) = {}
    <3>1. /\ h.v \in Slots /\ mapping[h.v] = PagesOf(h.phys, h.size) /\ mapping[h.v] >= 1
          /\ g.v \in Slots /\ mapping[g.v] = PagesOf(g.phys, g.size) /\ mapping[g.v] >= 1
          /\ h.v # g.v
      BY <2>4 DEF MapInv, HeldInv
    <3>2. h.v + mapping[h.v] <= g.v \/ g.v + mapping[g.v] <= h.v
      BY <3>1 DEF MapInv, RangesApart, NONE, Slots
    <3> QED BY <3>1, <3>2 DEF SlotsOf
  <2> QED BY <2>1, <2>2, <2>3, <2>4 DEF Translates
<1> QED BY <1>1, MapInvariant, TypeInvariant, PTL

\* NoSlotLost, for every window: ioremap fails only if no run of free slots is
\* long enough, and what is given back is free and its entries clear, for every
\* slot but the last.
THEOREM SlotsNeverLost ==
    ASSUME \A v \in Beyond : v >= NONE
    PROVE  Spec => []NoSlotLost
<1>1. TypeInv /\ MapInv => NoSlotLost
  <2> SUFFICES ASSUME TypeInv, MapInv PROVE NoSlotLost
    OBVIOUS
  <2> USE MapTypes
  <2>1. ASSUME pc = "return", op = "map", args.size > 0, ret = NONE,
               NEW s \in Slots, s .. s + Total - 1 \subseteq Slots
        PROVE  (s .. s + Total - 1) \cap Reserved # {}
    <3>1. Total >= 1
      BY <2>1, PagesNat DEF TypeInv, Total
    <3>2. s + Total - 1 \in Slots
      BY <3>1, <2>1 DEF Slots
    <3>3. s + Total <= T
      BY <3>2 DEF Slots
    <3> QED BY <3>3, <2>1 DEF MapInv, FailInv
  <2>2. ASSUME pc = "idle", NEW s \in Slots \ {T - 1}, s \in Reserved \/ Walk(s) # NONE
        PROVE  \E h \in held : s \in SlotsOf(h)
    <3>1. PICK t \in Slots : mapping[t] # NONE /\ s \in t .. t + mapping[t] - 1
      <4>1. CASE s \in Reserved
        BY <4>1 DEF Reserved
      <4>2. CASE Walk(s) # NONE
        <5>1. level1[0][s] # NONE
          BY <4>2, WalkIs DEF Slots
        <5> QED BY <5>1, <2>2 DEF MapInv, OwnersInv
      <4> QED BY <4>1, <4>2, <2>2
    <3>2. t # T - 1
      BY <3>1, <2>2 DEF Slots
    <3>3. PICK h \in held : h.v = t
      BY <3>1, <3>2, <2>2 DEF MapInv, OwnersInv, Orphan
    <3>4. mapping[t] = PagesOf(h.phys, h.size)
      BY <3>3 DEF MapInv, HeldInv
    <3> QED BY <3>1, <3>3, <3>4 DEF SlotsOf
  <2>3. fix_to_virt(FIX_BITMAP_END) = T - 1
    BY DEF fix_to_virt, FIX_BITMAP_END
  <2> QED BY <2>1, <2>2, <2>3 DEF NoSlotLost, Total
<1> QED BY <1>1, MapInvariant, TypeInvariant, PTL
=============================================================================
