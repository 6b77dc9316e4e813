----------------------------- MODULE BootProofs -----------------------------
(***************************************************************************)
(* Theorems about Boot, for every memory map, every ramdisk and every      *)
(* number of CPUs, whatever memblock refuses for want of entries.          *)
(***************************************************************************)
EXTENDS Boot, TLAPS

-----------------------------------------------------------------------------
(* The inductive invariant.                                                *)

Filling == {"memmap", "update", "setup", "added", "stopped"}
HavePercpu == {"percpu", "area", "halt", "done"}
HaveBrk == {"nodes", "node"} \cup HavePercpu
HaveTrampoline == {"mapping", "brk"} \cup HaveBrk
HaveRamdisk == {"realmode", "trampoline"} \cup HaveTrampoline
HaveKernel == {"initrd", "ramdisk"} \cup HaveRamdisk
Waiting == {"added", "kernel", "ramdisk", "trampoline", "brk", "node", "area"}

Cells == [flags : {"NONE", "RESERVED"}, nid : Int] \cup {MB!Absent}

BootType ==
    /\ pc \in Filling \cup {"kernel"} \cup HaveKernel
    /\ mem \in [Bytes -> Cells]
    /\ ramdisk \in Ramdisks
    /\ res \in Int /\ real_mode \in Int /\ full \in BOOLEAN
    /\ brk \in 0 .. BrkPages
    /\ percpu \in Seq(Int)

\* The call in progress, by the place it was made from.
CallInv ==
    /\ pc \in Waiting => st \in {"busy", "done"}
    /\ pc \notin Waiting \cup {"stopped"} => st = "idle"
    /\ pc = "stopped" => st = "dead"
    /\ pc = "added" => st = "done"
    /\ pc = "kernel" => /\ req.fn = "setclr" /\ req.set
                        /\ req.base = Text /\ req.size = EndOfKernel - Text
    /\ pc = "ramdisk" => /\ req.fn = "setclr" /\ req.set
                         /\ req.base = ramdisk.image /\ req.size = RoundUp(ramdisk.size)
    /\ pc = "brk" => /\ req.fn = "setclr" /\ req.set
                     /\ req.base = EndOfKernel /\ req.size = brk * PAGE_SIZE
    /\ pc = "node" => req.fn = "set_node" /\ req.nid = 0
    /\ pc = "trampoline" => /\ req.fn = "alloc" /\ req.set
                            /\ req.size = RealModeSize /\ req.hi = SZ_1M
                            /\ req.align = PAGE_SIZE /\ RealModeSize > 0
    /\ pc = "area" => req.fn = "alloc" /\ req.set /\ req.size = PercpuSize

\* None of these bytes is memory that memblock would hand out.
Taken(S) == \A a \in S \cap Bytes : mem[a].flags # "NONE"

\* Nobody gets these bytes: they are taken, or memblock hands out nothing more.
Held(S) == full \/ Taken(S)

\* A block at p for the trampoline, and one for a per-CPU area.
LowBlock(p) ==
    /\ Taken(Range(p, RealModeSize))
    /\ Range(p, RealModeSize) \cap RamdiskBytes = {}
    /\ p + RealModeSize <= SZ_1M
AreaBlock(p) ==
    /\ Taken(Range(p, PercpuSize))
    /\ Range(p, PercpuSize) \cap (Kernel \cup BrkUsed \cup RamdiskBytes \cup Trampoline) = {}

\* What is reserved by now, and an allocation that has succeeded.
KernelHeld == pc \in HaveKernel \/ (pc = "kernel" /\ st = "done")
RamdiskHeld == pc \in HaveRamdisk \/ (pc = "ramdisk" /\ st = "done")
BrkHeld == pc \in HaveBrk \/ (pc = "brk" /\ st = "done")
Granted(place) == pc = place /\ st = "done" /\ res # 0

HeldInv ==
    /\ KernelHeld => Held(Kernel)
    /\ RamdiskHeld => Held(RamdiskBytes)
    /\ BrkHeld => Held(BrkUsed)
    /\ pc \notin HaveBrk \cup {"brk"} => brk = 0
    /\ pc \notin HaveTrampoline => real_mode = 0
    /\ real_mode # 0 => LowBlock(real_mode)
    /\ Granted("trampoline") => LowBlock(res)
    /\ pc \notin HavePercpu => percpu = <<>>
    /\ \A c \in DOMAIN percpu : AreaBlock(percpu[c])
    /\ \A c, d \in DOMAIN percpu : c # d => Area(c) \cap Area(d) = {}
    /\ Granted("area") =>
          /\ AreaBlock(res)
          /\ \A c \in DOMAIN percpu : Range(res, PercpuSize) \cap Area(c) = {}

\* What the firmware lists and what the table has; the bytes of an entry, and whether the entries S hold a byte
\* of memory.
Descriptors == [start : Nat, pages : Nat, type : STRING]
Entries == [start : Nat, size : Nat,
            type : {"RAM", "ACPI", "NVS", "UNUSABLE", "PMEM", "RESERVED"}]
EntryBytes(e) == Range(e.start, e.size)
RamAt(a, S) == \E j \in S : e820[j].type = "RAM" /\ a \in EntryBytes(e820[j])

\* Of every page, S has all bytes or none; every page of memory is alike.
Whole(S) == \A a, b \in Bytes : a \div PAGE_SIZE = b \div PAGE_SIZE => (a \in S <=> b \in S)
Uniform(m) == \A a, b \in Bytes : a \div PAGE_SIZE = b \div PAGE_SIZE => m[a] = m[b]

Known(a) == mem[a] # MB!Absent

\* The table holds what the firmware said: while it is filled, the entries
\* written and, while it is compacted, those before idx and those still to come.
TableInv ==
    /\ descs \in DescLists
    /\ e820 \in Seq(Entries)
    /\ k \in Nat \ {0} /\ idx \in Nat \ {0}
    /\ \A j \in DOMAIN e820 : Whole(EntryBytes(e820[j]))
    /\ pc = "memmap" =>
          /\ k <= Len(descs) + 1
          /\ Len(e820) = IF k - 1 < E820_MAX_ENTRIES THEN k - 1 ELSE E820_MAX_ENTRIES
          /\ \A j \in DOMAIN e820 : e820[j] = Entry(descs[j])
    /\ pc = "update" =>
          /\ idx < k /\ k <= Len(e820) + 1
          /\ \A a \in Bytes :
                RamAt(a, (1 .. idx) \cup (k .. Len(e820))) <=> a \in RamBytes(Kept)
    /\ pc = "setup" => k <= Len(e820) + 1
    /\ pc = "added" => k <= Len(e820)
    /\ pc \in {"setup", "added"} =>
          \A a \in Bytes : RamAt(a, 1 .. Len(e820)) <=> a \in RamBytes(Kept)

\* memblock knows the memory of the entries that were added, and in the end all.
KnownInv ==
    /\ pc \in {"memmap", "update"} => \A a \in Bytes : ~Known(a)
    /\ pc = "setup" => \A a \in Bytes : Known(a) <=> RamAt(a, 1 .. k - 1)
    /\ pc = "added" => \A a \in Bytes : Known(a) <=> RamAt(a, 1 .. k)
    /\ Filled => \A a \in Bytes : Known(a) <=> a \in RamBytes(Kept)

\* Until it is mapped, memory is handled in whole pages; then all of it is mapped.
MappedInv ==
    /\ pc \notin {"brk"} \cup HaveBrk => Uniform(mem)
    /\ pc \in {"brk"} \cup HaveBrk => \A a \in Bytes : Known(a) => a \div PAGE_SIZE \in mapped
    /\ Granted("area") => \A a \in Range(res, PercpuSize) : a \div PAGE_SIZE \in mapped
    /\ \A c \in DOMAIN percpu : \A a \in Area(c) : a \div PAGE_SIZE \in mapped

BootInv == BootType /\ CallInv /\ HeldInv /\ TableInv /\ KnownInv /\ MappedInv

-----------------------------------------------------------------------------
(* Calls of memblock, and what they do to the bytes.                       *)

\* The request that a call makes.
LEMMA CallIs ==
    ASSUME NEW fn \in {"add", "setclr", "set_node"}, NEW b, NEW s, Call(fn, b, s)
    PROVE  /\ req'.fn = fn /\ req'.base = b /\ req'.size = s
           /\ fn = "setclr" => req'.set
           /\ fn = "set_node" => req'.nid = 0
           /\ fn # "set_node" => req'.nid = -1
           /\ st = "idle" /\ res' = 0 /\ full' = full
           /\ st' = IF fn = "add" THEN "done" ELSE "busy"
           /\ mem' = IF fn = "add" THEN MB!Added(mem, req') ELSE mem
<1> DEFINE x == (fn = "setclr")  nd == IF fn = "set_node" THEN 0 ELSE MB!NO_NODE
<1>1. req' = [MB!NoReq EXCEPT !.fn = fn, !.base = b, !.size = s, !.set = x, !.nid = nd]
  BY DEF Call
<1> HIDE DEF x, nd
<1>2. req' = [fn |-> fn, base |-> b, size |-> s, nid |-> nd, set |-> x,
              align |-> 1, lo |-> 0, hi |-> 0, exact |-> FALSE]
  BY <1>1 DEF MB!NoReq
<1>3. req'.fn = fn /\ req'.base = b /\ req'.size = s /\ req'.nid = nd /\ req'.set = x
  BY <1>2
<1>4. fn = "setclr" => x
  BY DEF x
<1>5. /\ fn = "set_node" => nd = 0
      /\ fn # "set_node" => nd = -1
  BY DEF nd, MB!NO_NODE
<1>6. /\ st = "idle" /\ res' = 0 /\ full' = full
      /\ st' = IF req'.fn = "add" THEN "done" ELSE "busy"
      /\ mem' = IF req'.fn = "add" THEN MB!Added(mem, req') ELSE mem
  BY DEF Call, MB!Request
<1>7. fn = "setclr" => req'.set
  BY <1>3, <1>4, Zenon
<1> QED BY <1>3, <1>5, <1>6, <1>7

\* The request for an allocation.
LEMMA AllocIs ==
    ASSUME NEW s, NEW hi, Alloc(s, hi)
    PROVE  /\ req'.fn = "alloc" /\ req'.size = s /\ req'.hi = hi /\ req'.set
           /\ req'.align = PAGE_SIZE
           /\ st = "idle" /\ st' = "busy" /\ mem' = mem /\ res' = 0 /\ full' = full
<1>1. req' = [MB!NoReq EXCEPT !.fn = "alloc", !.size = s, !.set = TRUE, !.align = PAGE_SIZE, !.hi = hi]
  BY DEF Alloc
<1>2. req' = [fn |-> "alloc", base |-> 0, size |-> s, nid |-> MB!NO_NODE, set |-> TRUE,
              align |-> PAGE_SIZE, lo |-> 0, hi |-> hi, exact |-> FALSE]
  BY <1>1 DEF MB!NoReq
<1>3. req'.fn = "alloc" /\ req'.size = s /\ req'.hi = hi /\ req'.set /\ req'.align = PAGE_SIZE
  BY <1>2
<1> QED BY <1>3 DEF Alloc, MB!Request

\* Reserving and moving to a node: the bytes of the range that were free and
\* are reserved are free no longer, and no byte becomes free.
LEMMA ChangedIs ==
    ASSUME mem \in [Bytes -> Cells], NEW c, NEW b,
           \/ c.fn = "set_node" /\ c.nid \in Int
           \/ c.fn \in {"setclr", "alloc"} /\ c.set
    PROVE  LET m == MB!Changed(mem, c, b)
           IN  /\ m \in [Bytes -> Cells]
               /\ \A a \in Bytes : mem[a].flags # "NONE" => m[a].flags # "NONE"
               /\ c.fn # "set_node" => \A a \in Range(b, c.size) \cap Bytes : m[a].flags # "NONE"
               /\ \A a \in Bytes : m[a] = MB!Absent <=> mem[a] = MB!Absent
<1> DEFINE m == MB!Changed(mem, c, b)
<1>1. MB!Bytes = Bytes /\ MB!Range(b, c.size) = Range(b, c.size)
  BY DEF MB!Bytes, Bytes, MB!Range, Range
<1>2. m = [a \in Bytes |->
        IF a \notin Range(b, c.size) \/ mem[a] = MB!Absent THEN mem[a]
        ELSE CASE c.fn = "remove"   -> MB!Absent
               [] c.fn = "set_node" -> [mem[a] EXCEPT !.nid = c.nid]
               [] OTHER             -> [mem[a] EXCEPT !.flags =
                                          IF c.set THEN "RESERVED" ELSE "NONE"]]
  BY <1>1 DEF MB!Changed
<1> HIDE DEF m
<1>3. ASSUME NEW a \in Bytes
      PROVE  /\ m[a] \in Cells
             /\ mem[a].flags # "NONE" => m[a].flags # "NONE"
             /\ c.fn # "set_node" /\ a \in Range(b, c.size) => m[a].flags # "NONE"
             /\ m[a] = MB!Absent <=> mem[a] = MB!Absent
  <2>1. mem[a] \in Cells
    OBVIOUS
  <2>2. CASE a \notin Range(b, c.size) \/ mem[a] = MB!Absent
    <3>1. m[a] = mem[a]
      BY <1>2, <2>2
    <3>2. MB!Absent.flags = "ABSENT"
      BY DEF MB!Absent
    <3> QED BY <2>1, <2>2, <3>1, <3>2
  <2>3. CASE a \in Range(b, c.size) /\ mem[a] # MB!Absent /\ c.fn = "set_node"
    <3>1. m[a] = [mem[a] EXCEPT !.nid = c.nid]
      BY <1>2, <2>3
    <3>2. m[a] = [flags |-> mem[a].flags, nid |-> c.nid]
      BY <2>1, <2>3, <3>1 DEF Cells
    <3>3. m[a] \in Cells /\ m[a].flags = mem[a].flags /\ m[a].flags # "ABSENT"
      BY <2>1, <2>3, <3>2 DEF Cells
    <3>4. MB!Absent.flags = "ABSENT"
      BY DEF MB!Absent
    <3> QED BY <2>3, <3>3, <3>4
  <2>4. CASE a \in Range(b, c.size) /\ mem[a] # MB!Absent /\ c.fn # "set_node"
    <3>1. m[a] = [mem[a] EXCEPT !.flags = "RESERVED"]
      BY <1>2, <2>4, Zenon
    <3>2. m[a] = [flags |-> "RESERVED", nid |-> mem[a].nid]
      BY <2>1, <2>4, <3>1 DEF Cells
    <3>3. m[a] \in Cells /\ m[a].flags = "RESERVED"
      BY <2>1, <2>4, <3>2 DEF Cells
    <3> QED BY <2>4, <3>3 DEF MB!Absent
  <2> QED BY <2>2, <2>3, <2>4
<1> QED BY <1>2, <1>3 DEF m

\* Adding memory.
LEMMA AddedIs ==
    ASSUME mem \in [Bytes -> Cells], NEW c, c.nid \in Int
    PROVE  LET m == MB!Added(mem, c)
           IN  /\ m \in [Bytes -> Cells]
               /\ \A a \in Bytes : m[a] = MB!Absent <=>
                                     mem[a] = MB!Absent /\ a \notin Range(c.base, c.size)
<1> DEFINE m == MB!Added(mem, c)
<1>1. MB!Bytes = Bytes /\ MB!Range(c.base, c.size) = Range(c.base, c.size)
  BY DEF MB!Bytes, Bytes, MB!Range, Range
<1>2. m = [a \in Bytes |-> IF a \in Range(c.base, c.size) /\ mem[a] = MB!Absent
                           THEN MB!Cell("NONE", c.nid) ELSE mem[a]]
  BY <1>1 DEF MB!Added
<1> HIDE DEF m
<1>3. MB!Cell("NONE", c.nid) \in Cells /\ MB!Cell("NONE", c.nid) # MB!Absent
  BY DEF MB!Cell, MB!Absent, Cells
<1> QED BY <1>2, <1>3 DEF m

\* What a step of memblock's does while one of the calls of setup_arch is being
\* served: a call with a size is granted only while none has been refused.
LEMMA ServeIs ==
    ASSUME BootType, CallInv, Serve
    PROVE  /\ pc \in Waiting /\ st = "busy" /\ st' = "done" /\ UNCHANGED <<pc, boot, req>>
           /\ mem' \in [Bytes -> Cells] /\ res' \in Int
           /\ \A a \in Bytes : mem[a].flags # "NONE" => mem'[a].flags # "NONE"
           /\ \A a \in Bytes : mem'[a] = MB!Absent <=> mem[a] = MB!Absent
           /\ full' \in BOOLEAN /\ (full => full')
           /\ req.fn = "setclr" =>
                 \/ full'
                 \/ \A a \in Range(req.base, req.size) \cap Bytes : mem'[a].flags # "NONE"
           /\ req.fn = "alloc" /\ res' # 0 =>
                 /\ ~full \/ req.size = 0
                 /\ res' + req.size <= req.hi
                 /\ res' % req.align = 0
                 /\ \A a \in Range(res', req.size) :
                       a \in Bytes /\ mem[a].flags = "NONE" /\ mem'[a].flags # "NONE"
<1>1. UNCHANGED <<pc, boot>>
  BY DEF Serve
<1>2. pc \in Waiting /\ st = "busy"
  <2>1. st = "busy"
    BY DEF Serve, MB!Effect, MB!Grant, MB!Refuse
  <2> QED BY <2>1 DEF CallInv
<1>3. \/ req.fn = "set_node" /\ req.nid \in Int
      \/ req.fn \in {"setclr", "alloc"} /\ req.set
  BY <1>2 DEF CallInv, Waiting
<1>4. mem \in [Bytes -> Cells] /\ res \in Int /\ full \in BOOLEAN
  BY DEF BootType
<1>5. CASE MB!Effect /\ UNCHANGED full
  <2>0. full' \in BOOLEAN /\ (full => full')
    BY <1>4, <1>5
  <2>1. st' = "done" /\ mem' = MB!Changed(mem, req, req.base) /\ UNCHANGED <<req, res>>
        /\ req.fn # "alloc"
    BY <1>5 DEF MB!Effect
  <2>2. /\ mem' \in [Bytes -> Cells]
        /\ \A a \in Bytes : mem[a].flags # "NONE" => mem'[a].flags # "NONE"
        /\ \A a \in Bytes : mem'[a] = MB!Absent <=> mem[a] = MB!Absent
        /\ req.fn # "set_node" =>
              \A a \in Range(req.base, req.size) \cap Bytes : mem'[a].flags # "NONE"
    <3>1. PICK b : b = req.base
      OBVIOUS
    <3>2. mem' = MB!Changed(mem, req, b)
      BY <2>1, <3>1
    <3>3. /\ mem' \in [Bytes -> Cells]
          /\ \A a \in Bytes : mem[a].flags # "NONE" => mem'[a].flags # "NONE"
          /\ \A a \in Bytes : mem'[a] = MB!Absent <=> mem[a] = MB!Absent
          /\ req.fn # "set_node" =>
                \A a \in Range(b, req.size) \cap Bytes : mem'[a].flags # "NONE"
      BY <1>3, <1>4, <3>2, ChangedIs
    <3> QED BY <3>1, <3>3
  <2> QED BY <1>1, <1>2, <1>4, <2>0, <2>1, <2>2
<1>6. CASE (\E q \in Bytes, nd \in {0, MB!NO_NODE} : MB!Grant(q, nd))
           /\ UNCHANGED full /\ (~full \/ req.size = 0)
  <2>0. full' \in BOOLEAN /\ (full => full')
    BY <1>4, <1>6
  <2>1. PICK q \in Bytes, nd \in {0, MB!NO_NODE} : MB!Grant(q, nd)
    BY <1>6
  <2>2. /\ st' = "done" /\ mem' = MB!Changed(mem, req, q) /\ req' = req /\ res' = q /\ q \in Int
        /\ req.fn = "alloc" /\ MB!Block(q, req, nd)
    BY <2>1 DEF MB!Grant, Bytes
  <2>3. MB!Bytes = Bytes /\ MB!Range(q, req.size) = Range(q, req.size)
    BY DEF MB!Bytes, Bytes, MB!Range, Range
  <2>4. /\ q + req.size <= req.hi /\ q % req.align = 0
        /\ \A a \in Range(q, req.size) : a \in Bytes /\ mem[a].flags = "NONE"
    BY <2>2, <2>3 DEF MB!Block, MB!Cell
  <2>5. /\ mem' \in [Bytes -> Cells]
        /\ \A a \in Bytes : mem[a].flags # "NONE" => mem'[a].flags # "NONE"
        /\ \A a \in Bytes : mem'[a] = MB!Absent <=> mem[a] = MB!Absent
        /\ \A a \in Range(q, req.size) \cap Bytes : mem'[a].flags # "NONE"
    BY <1>3, <1>4, <2>2, ChangedIs
  <2> QED BY <1>1, <1>2, <1>4, <1>6, <2>0, <2>2, <2>4, <2>5
<1>7. CASE MB!Refuse /\ (full' = TRUE \/ (req.fn = "alloc" /\ UNCHANGED full))
  <2>1. /\ st' = "done" /\ mem' = mem /\ req' = req
        /\ res' \in Int /\ (req.fn = "alloc" => res' = 0)
    BY <1>7 DEF MB!Refuse, MB!ENOSPC
  <2>2. /\ full' \in BOOLEAN /\ (full => full')
        /\ req.fn = "setclr" => full'
    <3>1. CASE full' = TRUE
      BY <3>1, Zenon
    <3>2. CASE req.fn = "alloc" /\ UNCHANGED full
      <4>1. full' = full /\ req.fn # "setclr"
        BY <3>2
      <4> QED BY <1>4, <4>1, Zenon
    <3> QED BY <1>7, <3>1, <3>2, Zenon
  <2> QED BY <1>1, <1>2, <1>4, <2>1, <2>2
<1>8. \/ MB!Effect /\ UNCHANGED full
      \/ /\ \E q \in Bytes, nd \in {0, MB!NO_NODE} : MB!Grant(q, nd)
         /\ UNCHANGED full /\ (~full \/ req.size = 0)
      \/ MB!Refuse /\ (full' = TRUE \/ (req.fn = "alloc" /\ UNCHANGED full))
  BY Zenon DEF Serve
<1> QED BY <1>5, <1>6, <1>7, <1>8

\* The variables of the boot that own memory.
owners == <<ramdisk, brk, real_mode, percpu>>

\* Nothing is freed, so what is held stays held.
LEMMA HeldStays ==
    ASSUME UNCHANGED owners, full => full',
           \A a \in Bytes : mem[a].flags # "NONE" => mem'[a].flags # "NONE"
    PROVE  /\ Held(Kernel) => Held(Kernel)'
           /\ Held(RamdiskBytes) => Held(RamdiskBytes)'
           /\ Held(BrkUsed) => Held(BrkUsed)'
           /\ \A p : LowBlock(p) => LowBlock(p)'
           /\ \A p : AreaBlock(p) => AreaBlock(p)'
           /\ \A c : Area(c)' = Area(c)
           /\ UNCHANGED <<RamdiskBytes, BrkUsed, Trampoline>>
<1>1. UNCHANGED <<RamdiskBytes, BrkUsed, Trampoline>>
  BY DEF owners, RamdiskBytes, BrkUsed, Trampoline
<1>2. \A c : Area(c)' = Area(c)
  BY DEF owners, Area
<1>3. \A S : Taken(S) => (\A a \in S \cap Bytes : mem'[a].flags # "NONE")
  BY DEF Taken
<1> QED BY <1>1, <1>2, <1>3 DEF Held, Taken, LowBlock, AreaBlock

-----------------------------------------------------------------------------
(* The steps.                                                              *)

\* The variables keep their types.
LEMMA BootTypeStep ==
    ASSUME BootType, CallInv, Next
    PROVE  BootType'
<1> USE BootAssumption DEF Filling, HaveKernel, HaveRamdisk, HaveTrampoline, HaveBrk, HavePercpu
<1>1. CASE RangeAdd \/ MemmapDone \/ UpdateMerge \/ UpdateMove \/ UpdateDone \/ NoRamdisk \/ PercpuDone
           \/ AddHalts
  BY <1>1 DEF BootType, AddHalts, MB!Stop, RangeAdd, MemmapDone, UpdateMerge, UpdateMove, UpdateDone, NoRamdisk,
     PercpuDone, memblock, boot
<1>2. CASE MemblockSetup
  <2>1. UNCHANGED <<ramdisk, brk, real_mode, percpu>> /\ pc' \in {"added", "setup"}
    BY <1>2 DEF MemblockSetup, memblock
  <2>2. CASE Call("add", e820[k].start, e820[k].size)
    <3>1. req'.nid = -1 /\ res' = 0 /\ mem' = MB!Added(mem, req') /\ full' = full
      BY <2>2, CallIs
    <3>2. mem' \in [Bytes -> Cells]
      BY <3>1, AddedIs DEF BootType
    <3> QED BY <2>1, <3>1, <3>2 DEF BootType
  <2>3. CASE UNCHANGED memblock
    BY <2>1, <2>3 DEF BootType, memblock
  <2> QED BY <1>2, <2>2, <2>3 DEF MemblockSetup, memblock
<1>3. CASE MemblockAdded \/ Continue \/ PercpuSet
  <2>1. mem' = mem /\ res' = 0 /\ UNCHANGED <<ramdisk, brk, full>>
    BY <1>3 DEF MemblockAdded, Continue, PercpuSet, Return, MB!Return
  <2>2. real_mode' \in Int /\ percpu' \in Seq(Int)
    <3>1. real_mode' \in {real_mode, res}
      BY <1>3 DEF MemblockAdded, Continue, PercpuSet
    <3>2. percpu' = percpu \/ percpu' = Append(percpu, res)
      BY <1>3 DEF MemblockAdded, Continue, PercpuSet
    <3>3. real_mode \in Int /\ res \in Int /\ percpu \in Seq(Int)
      BY DEF BootType
    <3>4. Append(percpu, res) \in Seq(Int)
      BY <3>3
    <3> QED BY <3>1, <3>2, <3>3, <3>4
  <2>3. pc' \in Filling \cup {"kernel"} \cup HaveKernel
    BY <1>3 DEF MemblockAdded, Continue, PercpuSet
  <2> QED BY <2>1, <2>2, <2>3 DEF BootType
<1>4. CASE ReserveKernel \/ ReserveRamdisk \/ initmem_init
  <2>1. mem' = mem /\ res' = 0 /\ full' = full
    BY <1>4, CallIs DEF ReserveKernel, ReserveRamdisk, initmem_init
  <2> QED BY <1>4, <2>1 DEF BootType, ReserveKernel, ReserveRamdisk, initmem_init, boot
<1>5. CASE init_mem_mapping
  <2>1. mem' = mem /\ res' = 0 /\ full' = full /\ brk' \in 0 .. BrkPages
    BY <1>5, CallIs DEF init_mem_mapping, ReserveBrk
  <2> QED BY <1>5, <2>1 DEF BootType, init_mem_mapping
<1>6. CASE reserve_real_mode
  <2>1. mem' = mem /\ res' \in {0, res} /\ full' = full
    BY <1>6, AllocIs DEF reserve_real_mode, memblock
  <2> QED BY <1>6, <2>1 DEF BootType, reserve_real_mode, boot
<1>7. CASE PercpuAlloc
  <2>1. mem' = mem /\ res' = 0 /\ full' = full
    BY <1>7, AllocIs DEF PercpuAlloc
  <2> QED BY <1>7, <2>1 DEF BootType, PercpuAlloc, boot
<1>8. CASE Serve
  <2>1. UNCHANGED <<pc, boot>> /\ mem' \in [Bytes -> Cells] /\ res' \in Int /\ full' \in BOOLEAN
    BY <1>8, ServeIs
  <2> QED BY <2>1 DEF BootType, boot
<1> QED BY <1>1, <1>2, <1>3, <1>4, <1>5, <1>6, <1>7, <1>8 DEF Next

\* The call in progress is the one its place makes.
LEMMA CallStep ==
    ASSUME BootType, CallInv, Next
    PROVE  CallInv'
<1> USE DEF Waiting
<1>1. CASE RangeAdd \/ MemmapDone \/ UpdateMerge \/ UpdateMove \/ UpdateDone \/ NoRamdisk \/ PercpuDone
  <2>1. st' = st /\ pc \notin Waiting \cup {"stopped"} /\ pc' \notin Waiting \cup {"stopped"}
    BY <1>1 DEF RangeAdd, MemmapDone, UpdateMerge, UpdateMove, UpdateDone, NoRamdisk, PercpuDone,
       memblock
  <2> QED BY <2>1 DEF CallInv
<1>2. CASE MemblockSetup
  <2>1. CASE Call("add", e820[k].start, e820[k].size) /\ pc' = "added"
    BY <2>1, CallIs DEF CallInv
  <2>2. CASE UNCHANGED memblock /\ pc' = pc
    BY <1>2, <2>2 DEF CallInv, memblock, MemblockSetup
  <2> QED BY <1>2, <2>1, <2>2 DEF MemblockSetup, memblock
<1>3. CASE MemblockAdded \/ Continue \/ PercpuSet
  <2>1. st' = "idle" /\ pc' \notin Waiting \cup {"stopped"}
    BY <1>3 DEF MemblockAdded, Continue, PercpuSet, Return, MB!Return
  <2> QED BY <2>1 DEF CallInv
<1>4. CASE ReserveKernel
  BY <1>4, CallIs DEF ReserveKernel, CallInv
<1>5. CASE ReserveRamdisk
  <2>1. ramdisk' = ramdisk /\ pc' = "ramdisk" /\ Call("setclr", ramdisk.image, RoundUp(ramdisk.size))
    BY <1>5 DEF ReserveRamdisk, boot
  <2> QED BY <2>1, CallIs DEF CallInv
<1>6. CASE initmem_init
  BY <1>6, CallIs DEF initmem_init, CallInv
<1>7. CASE init_mem_mapping
  <2>1. pc' = "brk" /\ Call("setclr", EndOfKernel, brk' * PAGE_SIZE)
    BY <1>7 DEF init_mem_mapping, ReserveBrk
  <2> QED BY <2>1, CallIs DEF CallInv
<1>8. CASE reserve_real_mode
  <2>1. CASE RealModeSize > 0
    BY <1>8, <2>1, AllocIs DEF reserve_real_mode, LowLimit, CallInv
  <2>2. CASE ~(RealModeSize > 0)
    BY <1>8, <2>2 DEF reserve_real_mode, memblock, CallInv
  <2> QED BY <2>1, <2>2
<1>9. CASE PercpuAlloc
  BY <1>9, AllocIs DEF PercpuAlloc, CallInv
<1>10. CASE Serve
  <2>1. UNCHANGED <<pc, ramdisk, brk, req>> /\ st' = "done" /\ pc \in Waiting
    BY <1>10, ServeIs DEF boot
  <2> QED BY <2>1 DEF CallInv
<1>11. CASE AddHalts
  BY <1>11 DEF AddHalts, MB!Stop, CallInv
<1> QED BY <1>1, <1>2, <1>3, <1>4, <1>5, <1>6, <1>7, <1>8, <1>9, <1>10, <1>11 DEF Next

\* A step that frees nothing and gives nothing to an owner keeps what is held.
LEMMA HeldFrame ==
    ASSUME HeldInv, UNCHANGED owners, full => full',
           \A a \in Bytes : mem[a].flags # "NONE" => mem'[a].flags # "NONE",
           KernelHeld' => Held(Kernel)', RamdiskHeld' => Held(RamdiskBytes)',
           BrkHeld' => Held(BrkUsed)',
           brk = 0 \/ pc' \in HaveBrk \cup {"brk"},
           real_mode = 0 \/ pc' \in HaveTrampoline,
           percpu = <<>> \/ pc' \in HavePercpu,
           Granted("trampoline")' => LowBlock(res)',
           Granted("area")' =>
              /\ AreaBlock(res)'
              /\ \A c \in DOMAIN percpu : Range(res', PercpuSize) \cap Area(c) = {}
    PROVE  HeldInv'
<1>1. brk' = brk /\ real_mode' = real_mode /\ percpu' = percpu
  BY DEF owners
<1>2. /\ \A p : LowBlock(p) => LowBlock(p)'
      /\ \A p : AreaBlock(p) => AreaBlock(p)'
      /\ \A c : Area(c)' = Area(c)
  BY HeldStays
<1>3. real_mode' # 0 => LowBlock(real_mode)'
  <2>1. PICK p : p = real_mode
    OBVIOUS
  <2>2. p # 0 => LowBlock(p)
    BY <2>1 DEF HeldInv
  <2>3. p # 0 => LowBlock(p)'
    BY <2>2, <1>2
  <2> QED BY <2>1, <2>3, <1>1 DEF LowBlock
<1>4. \A c \in DOMAIN percpu' : AreaBlock(percpu[c])'
  <2> SUFFICES ASSUME NEW c \in DOMAIN percpu PROVE AreaBlock(percpu[c])'
    BY <1>1
  <2>1. PICK p : p = percpu[c]
    OBVIOUS
  <2>2. AreaBlock(p)
    BY <2>1 DEF HeldInv
  <2>3. AreaBlock(p)' /\ percpu'[c] = p
    BY <2>1, <2>2, <1>1, <1>2
  <2> QED BY <2>3 DEF AreaBlock
<1>5. \A c, d \in DOMAIN percpu' : c # d => (Area(c) \cap Area(d))' = {}
  BY <1>1, <1>2 DEF HeldInv
<1>6. /\ pc' \notin HaveBrk \cup {"brk"} => brk' = 0
      /\ pc' \notin HaveTrampoline => real_mode' = 0
      /\ pc' \notin HavePercpu => percpu' = <<>>
  BY <1>1
<1>7. Granted("area")' =>
         /\ AreaBlock(res)'
         /\ \A c \in DOMAIN percpu' : Range(res', PercpuSize) \cap Area(c)' = {}
  BY <1>1, <1>2
<1> QED BY <1>3, <1>4, <1>5, <1>6, <1>7 DEF HeldInv

\* Steps that neither use nor change memblock, and calls being made.
LEMMA HeldCalls ==
    ASSUME BootType, CallInv, HeldInv,
           \/ RangeAdd \/ MemmapDone \/ UpdateMerge \/ UpdateMove \/ UpdateDone \/ MemblockAdded
           \/ AddHalts \/ NoRamdisk \/ PercpuDone \/ PercpuAlloc \/ ReserveKernel \/ ReserveRamdisk
           \/ initmem_init \/ reserve_real_mode
    PROVE  HeldInv'
<1> DEFINE places == {"initrd", "realmode", "nodes", "percpu"}
<1>1. UNCHANGED owners
  BY DEF owners, boot, RangeAdd, MemmapDone, UpdateMerge, UpdateMove, UpdateDone, MemblockAdded,
     AddHalts, NoRamdisk, PercpuDone, PercpuAlloc, ReserveKernel, ReserveRamdisk, initmem_init,
     reserve_real_mode
<1>2. /\ mem' = mem /\ full' = full
      /\ pc' \in {"kernel", "ramdisk", "trampoline", "node", "area"} => st' # "done"
      /\ pc' # "brk"
  <2>1. CASE \/ RangeAdd \/ MemmapDone \/ UpdateMerge \/ UpdateMove \/ UpdateDone \/ MemblockAdded
             \/ AddHalts \/ NoRamdisk \/ PercpuDone
    BY <2>1 DEF AddHalts, MB!Stop, memblock, RangeAdd, MemmapDone, UpdateMerge, UpdateMove, UpdateDone,
       MemblockAdded, Return, MB!Return, NoRamdisk, PercpuDone
  <2>2. CASE PercpuAlloc
    BY <2>2, AllocIs DEF PercpuAlloc
  <2>3. CASE ReserveKernel
    BY <2>3, CallIs DEF ReserveKernel
  <2>4. CASE ReserveRamdisk
    BY <2>4, CallIs DEF ReserveRamdisk
  <2>5. CASE initmem_init
    BY <2>5, CallIs DEF initmem_init
  <2>6. CASE reserve_real_mode
    BY <2>6, AllocIs DEF reserve_real_mode, memblock
  <2> QED BY <2>1, <2>2, <2>3, <2>4, <2>5, <2>6
<1>3. /\ pc \in Filling => pc' \in Filling \cup {"kernel"}
      /\ pc = "initrd" => pc' = "ramdisk" \/ (pc' = "realmode" /\ RamdiskBytes = {})
      /\ pc = "realmode" => pc' \in {"trampoline", "mapping"}
      /\ pc = "nodes" => pc' = "node"
      /\ pc = "percpu" => pc' \in {"area", "done"}
      /\ pc \in Filling \cup places
  BY DEF RangeAdd, MemmapDone, UpdateMerge, UpdateMove, UpdateDone, MemblockAdded,
     AddHalts, NoRamdisk, PercpuDone, PercpuAlloc, ReserveKernel, ReserveRamdisk, initmem_init,
     reserve_real_mode, Filling
<1> HIDE DEF places
<1>4. /\ Held(Kernel) => Held(Kernel)'
      /\ Held(RamdiskBytes) => Held(RamdiskBytes)'
      /\ Held(BrkUsed) => Held(BrkUsed)'
      /\ RamdiskBytes = {} => Held(RamdiskBytes)
  BY <1>1, <1>2, HeldStays DEF Held, Taken
<1>5. /\ KernelHeld' => KernelHeld
      /\ RamdiskHeld' => RamdiskHeld \/ RamdiskBytes = {}
      /\ BrkHeld' => BrkHeld
      /\ pc \in HaveBrk \cup {"brk"} => pc' \in HaveBrk \cup {"brk"}
      /\ pc \in HaveTrampoline => pc' \in HaveTrampoline
      /\ pc \in HavePercpu => pc' \in HavePercpu
      /\ ~Granted("trampoline")' /\ ~Granted("area")'
  BY <1>2, <1>3 DEF KernelHeld, RamdiskHeld, BrkHeld, Granted, places,
     Filling, HaveKernel, HaveRamdisk, HaveTrampoline, HaveBrk, HavePercpu
<1>6. /\ KernelHeld => Held(Kernel)
      /\ RamdiskHeld => Held(RamdiskBytes)
      /\ BrkHeld => Held(BrkUsed)
      /\ pc \notin HaveBrk \cup {"brk"} => brk = 0
      /\ pc \notin HaveTrampoline => real_mode = 0
      /\ pc \notin HavePercpu => percpu = <<>>
  BY DEF HeldInv
<1> QED BY <1>1, <1>2, <1>4, <1>5, <1>6, HeldFrame

\* memblock serves the call: what it is asked to reserve is taken, and what it
\* grants was nobody's.
LEMMA HeldServe ==
    ASSUME BootType, CallInv, HeldInv, Serve
    PROVE  HeldInv'
<1>1. /\ pc \in Waiting /\ st = "busy" /\ st' = "done" /\ pc' = pc
      /\ \A a \in Bytes : mem[a].flags # "NONE" => mem'[a].flags # "NONE"
      /\ full \in BOOLEAN /\ (full => full')
      /\ req.fn = "setclr" =>
            full' \/ \A a \in Range(req.base, req.size) \cap Bytes : mem'[a].flags # "NONE"
      /\ req.fn = "alloc" /\ res' # 0 =>
            /\ ~full \/ req.size = 0
            /\ res' + req.size <= req.hi
            /\ \A a \in Range(res', req.size) :
                  a \in Bytes /\ mem[a].flags = "NONE" /\ mem'[a].flags # "NONE"
  BY ServeIs DEF BootType
<1>2. UNCHANGED owners
  BY DEF Serve, boot, owners
<1>3. /\ Held(Kernel) => Held(Kernel)'
      /\ Held(RamdiskBytes) => Held(RamdiskBytes)'
      /\ Held(BrkUsed) => Held(BrkUsed)'
      /\ UNCHANGED <<RamdiskBytes, BrkUsed, Trampoline>>
  BY <1>1, <1>2, HeldStays
<1>4. KernelHeld' => Held(Kernel)'
  <2>1. CASE pc = "kernel"
    <3>1. req.fn = "setclr" /\ req.base = Text /\ req.size = EndOfKernel - Text
      BY <2>1 DEF CallInv
    <3>2. Range(req.base, req.size) = Kernel
      BY <3>1, BootAssumption DEF Range, Kernel
    <3> QED BY <1>1, <3>1, <3>2 DEF Held, Taken
  <2>2. CASE pc # "kernel"
    BY <1>1, <1>3, <2>2 DEF KernelHeld, HeldInv
  <2> QED BY <2>1, <2>2
<1>5. RamdiskHeld' => Held(RamdiskBytes)'
  <2>1. CASE pc = "ramdisk"
    <3>1. /\ req.fn = "setclr"
          /\ req.base = ramdisk.image /\ req.size = RoundUp(ramdisk.size)
      BY <2>1 DEF CallInv
    <3>2. RamdiskBytes \subseteq Range(req.base, req.size)
      BY <3>1 DEF RamdiskBytes
    <3>3. RamdiskBytes' = RamdiskBytes
      BY <1>3
    <3> QED BY <1>1, <3>1, <3>2, <3>3 DEF Held, Taken
  <2>2. CASE pc # "ramdisk"
    BY <1>1, <1>3, <2>2 DEF RamdiskHeld, HeldInv
  <2> QED BY <2>1, <2>2
<1>6. BrkHeld' => Held(BrkUsed)'
  <2>1. CASE pc = "brk"
    <3>1. req.fn = "setclr" /\ Range(req.base, req.size) = BrkUsed
      BY <2>1 DEF CallInv, BrkUsed
    <3>3. BrkUsed' = BrkUsed
      BY <1>3
    <3> QED BY <1>1, <3>1, <3>3 DEF Held, Taken
  <2>2. CASE pc # "brk"
    BY <1>1, <1>3, <2>2 DEF BrkHeld, HeldInv
  <2> QED BY <2>1, <2>2
<1>7. /\ brk = 0 \/ pc' \in HaveBrk \cup {"brk"}
      /\ real_mode = 0 \/ pc' \in HaveTrampoline
      /\ percpu = <<>> \/ pc' \in HavePercpu
  BY <1>1 DEF HeldInv
<1>8. ASSUME Granted("trampoline")' PROVE LowBlock(res)'
  <2>1. req.fn = "alloc" /\ req.size = RealModeSize /\ req.hi = SZ_1M /\ res' # 0 /\ pc = "trampoline"
        /\ ~full
    BY <1>1, <1>8 DEF CallInv, Granted
  <2>2. Taken(RamdiskBytes)
    BY <2>1 DEF Held, HeldInv, RamdiskHeld, HaveRamdisk
  <2>3. /\ res' + RealModeSize <= SZ_1M
        /\ \A a \in Range(res', RealModeSize) :
              a \in Bytes /\ mem[a].flags = "NONE" /\ mem'[a].flags # "NONE"
    BY <1>1, <2>1
  <2>4. Range(res', RealModeSize) \cap RamdiskBytes = {}
    BY <2>2, <2>3 DEF Taken
  <2>5. RamdiskBytes' = RamdiskBytes
    BY <1>3
  <2> QED BY <2>3, <2>4, <2>5 DEF LowBlock, Taken
<1>9. ASSUME Granted("area")'
      PROVE  /\ AreaBlock(res)'
             /\ \A c \in DOMAIN percpu : Range(res', PercpuSize) \cap Area(c) = {}
  <2>1. req.fn = "alloc" /\ req.size = PercpuSize /\ res' # 0 /\ pc = "area" /\ ~full
    BY <1>1, <1>9, BootAssumption DEF CallInv, Granted
  <2>2. Taken(RamdiskBytes) /\ Taken(Kernel) /\ Taken(BrkUsed)
    BY <2>1 DEF Held, HeldInv, RamdiskHeld, KernelHeld, BrkHeld, HaveRamdisk, HaveKernel, HaveBrk,
       HaveTrampoline, HavePercpu
  <2>3. Taken(Trampoline)
    BY DEF Trampoline, HeldInv, LowBlock, Taken
  <2>4. \A c \in DOMAIN percpu : Taken(Area(c))
    BY DEF HeldInv, AreaBlock, Area
  <2>5. \A a \in Range(res', PercpuSize) :
           a \in Bytes /\ mem[a].flags = "NONE" /\ mem'[a].flags # "NONE"
    BY <1>1, <2>1
  <2>6. Range(res', PercpuSize) \cap (Kernel \cup BrkUsed \cup RamdiskBytes \cup Trampoline) = {}
    BY <2>2, <2>3, <2>5 DEF Taken
  <2>7. \A c \in DOMAIN percpu : Range(res', PercpuSize) \cap Area(c) = {}
    BY <2>4, <2>5 DEF Taken
  <2>8. BrkUsed' = BrkUsed /\ RamdiskBytes' = RamdiskBytes /\ Trampoline' = Trampoline
    BY <1>3
  <2>9. AreaBlock(res)'
    BY <2>5, <2>6, <2>8 DEF AreaBlock, Taken
  <2> QED BY <2>7, <2>9
<1> QED BY <1>1, <1>2, <1>4, <1>5, <1>6, <1>7, <1>8, <1>9, HeldFrame

\* What is held is held after every step.
LEMMA HeldStep ==
    ASSUME BootType, CallInv, HeldInv, Next
    PROVE  HeldInv'
<1> USE DEF Filling, HaveKernel, HaveRamdisk, HaveTrampoline, HaveBrk, HavePercpu
<1>1. CASE \/ RangeAdd \/ MemmapDone \/ UpdateMerge \/ UpdateMove \/ UpdateDone \/ MemblockAdded
           \/ AddHalts \/ NoRamdisk \/ PercpuDone \/ PercpuAlloc \/ ReserveKernel \/ ReserveRamdisk
           \/ initmem_init \/ reserve_real_mode
  BY <1>1, HeldCalls
<1>2. CASE MemblockSetup
  <2>1. pc = "setup" /\ pc' \in {"setup", "added"} /\ UNCHANGED owners
    BY <1>2 DEF MemblockSetup, memblock, owners
  <2>2. real_mode' = 0 /\ brk' = 0 /\ percpu' = <<>>
    BY <2>1 DEF HeldInv, owners
  <2>3. ~KernelHeld' /\ ~RamdiskHeld' /\ ~BrkHeld' /\ ~Granted("trampoline")' /\ ~Granted("area")'
    BY <2>1 DEF KernelHeld, RamdiskHeld, BrkHeld, Granted
  <2> QED BY <2>2, <2>3 DEF HeldInv
<1>3. CASE init_mem_mapping
  <2>1. /\ pc = "mapping" /\ pc' = "brk" /\ st' = "busy" /\ mem' = mem /\ full' = full
        /\ UNCHANGED <<ramdisk, real_mode, percpu>>
    BY <1>3, CallIs DEF init_mem_mapping, ReserveBrk
  <2>2. percpu' = <<>>
    BY <2>1 DEF HeldInv
  <2>3. UNCHANGED RamdiskBytes
    BY <2>1 DEF RamdiskBytes
  <2>4. Held(Kernel)' /\ Held(RamdiskBytes)'
    BY <2>1, <2>3 DEF Held, Taken, HeldInv, KernelHeld, RamdiskHeld
  <2>5. real_mode' # 0 => LowBlock(real_mode)'
    BY <2>1, <2>3 DEF LowBlock, HeldInv, Taken
  <2>6. ~BrkHeld' /\ ~Granted("trampoline")' /\ ~Granted("area")'
    BY <2>1 DEF BrkHeld, Granted
  <2> QED BY <2>1, <2>2, <2>4, <2>5, <2>6 DEF HeldInv
<1>4. CASE Continue /\ pc # "trampoline"
  <2>1. /\ UNCHANGED owners /\ mem' = mem /\ full' = full /\ st = "done"
        /\ \/ pc = "kernel" /\ pc' = "initrd"
           \/ pc = "ramdisk" /\ pc' = "realmode"
           \/ pc = "brk" /\ pc' = "nodes"
           \/ pc = "node" /\ pc' = "percpu"
    BY <1>4 DEF Continue, Return, MB!Return, owners, Returned
  <2>2. /\ Held(Kernel) => Held(Kernel)'
        /\ Held(RamdiskBytes) => Held(RamdiskBytes)'
        /\ Held(BrkUsed) => Held(BrkUsed)'
    BY <2>1, HeldStays
  <2>3. /\ KernelHeld' => KernelHeld
        /\ RamdiskHeld' => RamdiskHeld
        /\ BrkHeld' => BrkHeld
        /\ ~Granted("trampoline")' /\ ~Granted("area")'
    BY <2>1 DEF KernelHeld, RamdiskHeld, BrkHeld, Granted
  <2>4. /\ brk = 0 \/ pc' \in HaveBrk \cup {"brk"}
        /\ real_mode = 0 \/ pc' \in HaveTrampoline
        /\ percpu = <<>> \/ pc' \in HavePercpu
    BY <2>1 DEF HeldInv
  <2>5. /\ KernelHeld => Held(Kernel)
        /\ RamdiskHeld => Held(RamdiskBytes)
        /\ BrkHeld => Held(BrkUsed)
    BY DEF HeldInv
  <2> QED BY <2>1, <2>2, <2>3, <2>4, <2>5, HeldFrame
<1>5. CASE Continue /\ pc = "trampoline"
  <2>1. /\ mem' = mem /\ full' = full /\ st = "done" /\ pc' = "mapping" /\ real_mode' = res
        /\ UNCHANGED <<ramdisk, brk, percpu>>
    <3>1. mem' = mem /\ full' = full /\ st = "done" /\ real_mode' = res /\ UNCHANGED <<ramdisk, brk, percpu>>
      BY <1>5 DEF Continue, Return, MB!Return, Returned
    <3>2. PICK s \in {<<"kernel", "initrd">>, <<"ramdisk", "realmode">>,
                      <<"trampoline", "mapping">>, <<"brk", "nodes">>, <<"node", "percpu">>} :
             pc = s[1] /\ pc' = s[2]
      BY <1>5 DEF Continue
    <3>3. s = <<"trampoline", "mapping">>
      BY <1>5, <3>2
    <3>4. pc' = "mapping"
      BY <3>2, <3>3
    <3> QED BY <3>1, <3>4
  <2>2. percpu' = <<>> /\ brk' = 0
    BY <1>5, <2>1 DEF HeldInv
  <2>3. UNCHANGED RamdiskBytes
    BY <2>1 DEF RamdiskBytes
  <2>4. Held(Kernel)' /\ Held(RamdiskBytes)'
    BY <1>5, <2>1, <2>3 DEF Held, Taken, HeldInv, KernelHeld, RamdiskHeld
  <2>5. res # 0 => LowBlock(res)
    BY <1>5, <2>1 DEF HeldInv, Granted
  <2>6. real_mode' # 0 => LowBlock(real_mode)'
    BY <2>1, <2>3, <2>5 DEF LowBlock, Taken
  <2>7. ~BrkHeld' /\ ~Granted("trampoline")' /\ ~Granted("area")'
    BY <2>1 DEF BrkHeld, Granted
  <2> QED BY <2>1, <2>2, <2>4, <2>6, <2>7 DEF HeldInv
<1>6. CASE Serve
  BY <1>6, HeldServe
<1>7. CASE PercpuSet /\ res = 0
  <2>1. UNCHANGED owners /\ mem' = mem /\ full' = full /\ pc = "area" /\ pc' = "halt"
    BY <1>7 DEF PercpuSet, Return, MB!Return, owners
  <2>2. Held(Kernel)' /\ Held(RamdiskBytes)' /\ Held(BrkUsed)'
    BY <2>1, HeldStays DEF HeldInv, KernelHeld, RamdiskHeld, BrkHeld
  <2>3. ~Granted("trampoline")' /\ ~Granted("area")'
    BY <2>1 DEF Granted
  <2> QED BY <2>1, <2>2, <2>3, HeldFrame
<1>8. CASE PercpuSet /\ res # 0
  <2>1. /\ mem' = mem /\ full' = full /\ pc = "area" /\ st = "done" /\ pc' = "percpu" /\ percpu' = Append(percpu, res)
        /\ UNCHANGED <<ramdisk, brk, real_mode>>
    BY <1>8 DEF PercpuSet, Return, MB!Return, Returned
  <2>2. UNCHANGED <<RamdiskBytes, BrkUsed, Trampoline>>
    BY <2>1 DEF RamdiskBytes, BrkUsed, Trampoline
  <2>3. Held(Kernel)' /\ Held(RamdiskBytes)' /\ Held(BrkUsed)'
    BY <2>1, <2>2 DEF HeldInv, KernelHeld, RamdiskHeld, BrkHeld, Held, Taken
  <2>4. real_mode' # 0 => LowBlock(real_mode)'
    BY <2>1, <2>2 DEF LowBlock, HeldInv, Taken
  <2>5. \A p : AreaBlock(p) => AreaBlock(p)'
    BY <2>1, <2>2 DEF AreaBlock, Taken
  <2>6. /\ DOMAIN percpu = 1 .. Len(percpu) /\ Len(percpu) \in Nat
        /\ DOMAIN percpu' = 1 .. Len(percpu) + 1
        /\ \A c \in 1 .. Len(percpu) : percpu'[c] = percpu[c]
        /\ percpu'[Len(percpu) + 1] = res
    BY <2>1 DEF BootType
  <2>7. AreaBlock(res) /\ \A c \in DOMAIN percpu : Range(res, PercpuSize) \cap Area(c) = {}
    BY <1>8, <2>1 DEF HeldInv, Granted
  <2>8. \A c \in DOMAIN percpu' : AreaBlock(percpu[c])'
    <3> SUFFICES ASSUME NEW c \in 1 .. Len(percpu) + 1 PROVE AreaBlock(percpu[c])'
      BY <2>6
    <3>1. PICK p : p = percpu'[c]
      OBVIOUS
    <3>2. AreaBlock(p)
      BY <2>6, <2>7, <3>1 DEF HeldInv
    <3> QED BY <2>5, <3>1, <3>2 DEF AreaBlock
  <2>9. \A c, d \in DOMAIN percpu' : c # d => (Area(c) \cap Area(d))' = {}
    <3> SUFFICES ASSUME NEW c \in 1 .. Len(percpu) + 1, NEW d \in 1 .. Len(percpu) + 1, c # d
                 PROVE  Range(percpu'[c], PercpuSize) \cap Range(percpu'[d], PercpuSize) = {}
      BY <2>6 DEF Area
    <3>1. CASE c \in 1 .. Len(percpu) /\ d \in 1 .. Len(percpu)
      BY <2>6, <3>1 DEF HeldInv, Area
    <3>2. CASE c = Len(percpu) + 1
      <4>1. d \in 1 .. Len(percpu)
        BY <2>6, <3>2
      <4> QED BY <2>6, <2>7, <3>2, <4>1 DEF Area
    <3>3. CASE d = Len(percpu) + 1
      <4>1. c \in 1 .. Len(percpu)
        BY <2>6, <3>3
      <4> QED BY <2>6, <2>7, <3>3, <4>1 DEF Area
    <3> QED BY <2>6, <3>1, <3>2, <3>3
  <2>10. ~Granted("trampoline")' /\ ~Granted("area")'
    BY <2>1 DEF Granted
  <2> QED BY <2>1, <2>3, <2>4, <2>8, <2>9, <2>10 DEF HeldInv
<1> QED BY <1>1, <1>2, <1>3, <1>4, <1>5, <1>6, <1>7, <1>8 DEF Next

-----------------------------------------------------------------------------
(* Whole pages.                                                            *)

\* A multiple of the page size is at or below an address when its page is.
LEMMA PageBelow ==
    ASSUME NEW p \in Nat \ {0}, NEW u \in Nat, NEW q \in Nat, NEW r \in 0 .. p - 1
    PROVE  p * u <= p * q + r <=> u <= q
<1>1. CASE u <= q
  <2>1. PICK d \in Nat : q = u + d
    BY <1>1
  <2>2. p * q = p * u + p * d
    BY <2>1
  <2>3. p * d \in Nat /\ p * u \in Nat
    OBVIOUS
  <2> QED BY <1>1, <2>2, <2>3
<1>2. CASE u > q
  <2>1. PICK d \in Nat : u = q + 1 + d
    <3>1. u - q - 1 \in Nat
      BY <1>2
    <3> QED BY <3>1
  <2>2. p * u = p * q + p + p * d
    BY <2>1
  <2>3. p * d \in Nat /\ p * q \in Nat
    OBVIOUS
  <2> QED BY <1>2, <2>2, <2>3
<1> QED BY <1>1, <1>2

\* An address and its page.
LEMMA PageOf ==
    ASSUME NEW p \in Nat \ {0}, NEW a \in Nat
    PROVE  /\ a \div p \in Nat /\ a % p \in 0 .. p - 1
           /\ a = p * (a \div p) + (a % p)
OBVIOUS

\* A page-aligned range has whole pages.
LEMMA AlignedWhole ==
    ASSUME NEW b \in Nat, NEW s \in Nat, b % PAGE_SIZE = 0, s % PAGE_SIZE = 0
    PROVE  Whole(Range(b, s))
<1> USE BootAssumption
<1>1. PICK u \in Nat : b = PAGE_SIZE * u
  <2>1. b \div PAGE_SIZE \in Nat /\ b = PAGE_SIZE * (b \div PAGE_SIZE) + (b % PAGE_SIZE)
    BY PageOf
  <2> DEFINE u == b \div PAGE_SIZE
  <2> HIDE DEF u
  <2>2. u \in Nat /\ b = PAGE_SIZE * u + 0
    BY <2>1 DEF u
  <2>3. b = PAGE_SIZE * u
    BY <2>2
  <2> QED BY <2>2, <2>3
<1>2. PICK v \in Nat : s = PAGE_SIZE * v
  <2>1. s \div PAGE_SIZE \in Nat /\ s = PAGE_SIZE * (s \div PAGE_SIZE) + (s % PAGE_SIZE)
    BY PageOf
  <2> DEFINE w == s \div PAGE_SIZE
  <2> HIDE DEF w
  <2>2. w \in Nat /\ s = PAGE_SIZE * w + 0
    BY <2>1 DEF w
  <2>3. s = PAGE_SIZE * w
    BY <2>2
  <2> QED BY <2>2, <2>3
<1>3. b + s = PAGE_SIZE * (u + v)
  BY <1>1, <1>2
<1>4. ASSUME NEW a \in Bytes
      PROVE  a \in Range(b, s) <=> u <= a \div PAGE_SIZE /\ ~(u + v <= a \div PAGE_SIZE)
  <2>1. a \in Nat /\ PAGE_SIZE \in Nat \ {0}
    BY DEF Bytes
  <2>2. /\ a \div PAGE_SIZE \in Nat /\ a % PAGE_SIZE \in 0 .. PAGE_SIZE - 1
        /\ a = PAGE_SIZE * (a \div PAGE_SIZE) + (a % PAGE_SIZE)
    BY <2>1, PageOf
  <2> DEFINE q == a \div PAGE_SIZE  r == a % PAGE_SIZE
  <2> HIDE DEF q, r
  <2>3. q \in Nat /\ r \in 0 .. PAGE_SIZE - 1 /\ a = PAGE_SIZE * q + r
    BY <2>2 DEF q, r
  <2>4. b <= a <=> u <= q
    BY <2>1, <2>3, <1>1, PageBelow
  <2>5. b + s <= a <=> u + v <= q
    <3>1. u + v \in Nat
      OBVIOUS
    <3> QED BY <2>1, <2>3, <1>3, <3>1, PageBelow
  <2>6. a \in Range(b, s) <=> b <= a /\ ~(b + s <= a)
    BY <2>1 DEF Range
  <2> QED BY <2>4, <2>5, <2>6 DEF q
<1> QED BY <1>4 DEF Whole

\* What a multiple of the page size is.
LEMMA Multiple ==
    ASSUME NEW n \in Nat
    PROVE  n * PAGE_SIZE \in Nat /\ (n * PAGE_SIZE) % PAGE_SIZE = 0
<1>1. PAGE_SIZE \in Nat \ {0}
  BY BootAssumption
<1>2. n * PAGE_SIZE \in Nat
  BY <1>1
<1> DEFINE x == n * PAGE_SIZE
<1>3. /\ x \div PAGE_SIZE \in Nat /\ x % PAGE_SIZE \in 0 .. PAGE_SIZE - 1
      /\ x = PAGE_SIZE * (x \div PAGE_SIZE) + (x % PAGE_SIZE)
  BY <1>1, <1>2, PageOf
<1> DEFINE q == x \div PAGE_SIZE  r == x % PAGE_SIZE
<1> HIDE DEF q, r
<1>4. q \in Nat /\ r \in 0 .. PAGE_SIZE - 1 /\ n * PAGE_SIZE = PAGE_SIZE * q + r
  BY <1>3 DEF q, r
<1>5. PAGE_SIZE * n = PAGE_SIZE * q + r
  BY <1>1, <1>4
<1>6. n <= q
  <2>1. PAGE_SIZE * n <= PAGE_SIZE * q + r
    BY <1>1, <1>4, <1>5
  <2> QED BY <1>1, <1>4, <2>1, PageBelow
<1>7. q <= n
  <2>1. PAGE_SIZE * q <= PAGE_SIZE * n + 0
    BY <1>1, <1>4, <1>5
  <2>2. 0 \in 0 .. PAGE_SIZE - 1
    BY <1>1
  <2> QED BY <1>1, <1>4, <2>1, <2>2, PageBelow
<1>8. r = 0
  <2>1. n = q
    BY <1>4, <1>6, <1>7
  <2>2. PAGE_SIZE * n \in Nat
    BY <1>1
  <2> QED BY <1>4, <1>5, <2>1, <2>2
<1> QED BY <1>2, <1>8 DEF r

\* Adding or changing whole pages leaves pages alike.
LEMMA UniformKept ==
    ASSUME Uniform(mem), NEW c, NEW b, Whole(Range(b, c.size))
    PROVE  /\ Uniform(MB!Changed(mem, c, b))
           /\ b = c.base => Uniform(MB!Added(mem, c))
<1>1. MB!Bytes = Bytes /\ MB!Range(b, c.size) = Range(b, c.size)
  BY DEF MB!Bytes, Bytes, MB!Range, Range
<1>2. Uniform(MB!Changed(mem, c, b))
  BY <1>1 DEF Uniform, Whole, MB!Changed
<1>3. b = c.base => Uniform(MB!Added(mem, c))
  BY <1>1 DEF Uniform, Whole, MB!Added
<1> QED BY <1>2, <1>3

\* The memory of the descriptors that have a place in the table.
LEMMA KeptIs ==
    ASSUME descs \in DescLists
    PROVE  LET n == IF Len(descs) < E820_MAX_ENTRIES THEN Len(descs) ELSE E820_MAX_ENTRIES
           IN  \A a : a \in RamBytes(Kept) <=>
                  \E j \in 1 .. n : E820Type(descs[j].type) = "RAM" /\ a \in DescBytes(descs[j])
<1> DEFINE n == IF Len(descs) < E820_MAX_ENTRIES THEN Len(descs) ELSE E820_MAX_ENTRIES
<1>1. descs \in Seq(Descriptors)
  BY LayoutAssumption DEF Descriptors
<1>2. n \in Nat /\ n <= Len(descs)
  BY <1>1, BootAssumption
<1>3. Kept = SubSeq(descs, 1, n)
  BY DEF Kept
<1> HIDE DEF n
<1>4. DOMAIN Kept = 1 .. n /\ \A j \in 1 .. n : Kept[j] = descs[j]
  BY <1>1, <1>2, <1>3
<1>5. \A a : a \in RamBytes(Kept) <=>
             \E j \in 1 .. n : E820Type(Kept[j].type) = "RAM" /\ a \in DescBytes(Kept[j])
  BY <1>4 DEF RamBytes
<1>6. \A a : a \in RamBytes(Kept) <=>
             \E j \in 1 .. n : E820Type(descs[j].type) = "RAM" /\ a \in DescBytes(descs[j])
  BY <1>4, <1>5
<1> QED BY <1>6 DEF n

\* It lies in the address space.
LEMMA KeptInside ==
    ASSUME descs \in DescLists
    PROVE  RamBytes(Kept) \subseteq Bytes
<1> SUFFICES ASSUME NEW a \in RamBytes(Kept) PROVE a \in Bytes
  OBVIOUS
<1>1. descs \in Seq(Descriptors)
  BY LayoutAssumption DEF Descriptors
<1>2. PICK j \in 1 .. Len(descs) : a \in DescBytes(descs[j])
  BY <1>1, KeptIs, BootAssumption
<1> DEFINE z == descs[j].pages * PAGE_SIZE
<1>3. descs[j].start \in Nat /\ descs[j].pages \in Nat /\ descs[j].start + z <= MaxAddr
  <2>1. descs[j] \in Descriptors /\ j \in DOMAIN descs
    BY <1>1
  <2>2. \A i \in DOMAIN descs : descs[i].start + descs[i].pages * PAGE_SIZE <= MaxAddr
    BY LayoutAssumption
  <2>3. descs[j].start \in Nat /\ descs[j].pages \in Nat
    BY <2>1 DEF Descriptors
  <2> QED BY <2>1, <2>2, <2>3
<1>4. z \in Nat
  BY <1>3, Multiple
<1>5. a \in Range(descs[j].start, z) /\ descs[j].start + z <= MaxAddr
  BY <1>2, <1>3 DEF DescBytes
<1>6. PICK x \in Nat, y \in Nat : x = descs[j].start /\ y = z
  BY <1>3, <1>4
<1> HIDE DEF z
<1>7. a \in x .. x + y - 1 /\ x + y <= MaxAddr
  BY <1>5, <1>6 DEF Range
<1>8. MaxAddr \in Nat
  BY BootAssumption
<1> QED BY <1>6, <1>7, <1>8 DEF Bytes

-----------------------------------------------------------------------------
(* The e820 table.                                                         *)

\* The entry of a descriptor.
LEMMA EntryIs ==
    ASSUME NEW d \in Descriptors, d.start % PAGE_SIZE = 0
    PROVE  /\ Entry(d) \in Entries /\ Entry(d).type = E820Type(d.type)
           /\ EntryBytes(Entry(d)) = DescBytes(d)
           /\ Whole(EntryBytes(Entry(d)))
<1>1. d.start \in Nat /\ d.pages \in Nat
  BY DEF Descriptors
<1>2. d.pages * PAGE_SIZE \in Nat /\ (d.pages * PAGE_SIZE) % PAGE_SIZE = 0
  BY <1>1, Multiple
<1>3. E820Type(d.type) \in {"RAM", "ACPI", "NVS", "UNUSABLE", "PMEM", "RESERVED"}
  BY DEF E820Type
<1>4. Entry(d) \in Entries /\ Entry(d).type = E820Type(d.type)
  BY <1>1, <1>2, <1>3 DEF Entry, Entries
<1>5. EntryBytes(Entry(d)) = Range(d.start, d.pages * PAGE_SIZE)
  BY DEF Entry, EntryBytes
<1>6. Whole(Range(d.start, d.pages * PAGE_SIZE))
  BY <1>1, <1>2, AlignedWhole
<1> QED BY <1>4, <1>5, <1>6 DEF DescBytes

\* Descriptors of the firmware's map.
LEMMA DescIs ==
    ASSUME descs \in DescLists
    PROVE  /\ descs \in Seq(Descriptors)
           /\ \A j \in 1 .. Len(descs) : descs[j] \in Descriptors /\ descs[j].start % PAGE_SIZE = 0
<1>1. descs \in Seq(Descriptors)
  BY LayoutAssumption DEF Descriptors
<1>2. \A j \in DOMAIN descs : descs[j].start % PAGE_SIZE = 0
  BY LayoutAssumption
<1> QED BY <1>1, <1>2

\* efi_add_memmap keeps the table.
LEMMA TableFill ==
    ASSUME TableInv, RangeAdd
    PROVE  TableInv'
<1>1. /\ pc = "memmap" /\ pc' = "memmap" /\ k' = k + 1 /\ UNCHANGED <<descs, idx>>
      /\ k <= Len(descs)
      /\ e820' = IF TableFull THEN e820 ELSE Append(e820, Entry(descs[k]))
  BY DEF RangeAdd
<1>2. /\ descs \in DescLists /\ e820 \in Seq(Entries)
      /\ k \in Nat \ {0} /\ idx \in Nat \ {0}
      /\ \A j \in DOMAIN e820 : Whole(EntryBytes(e820[j]))
      /\ Len(e820) = IF k - 1 < E820_MAX_ENTRIES THEN k - 1 ELSE E820_MAX_ENTRIES
      /\ \A j \in DOMAIN e820 : e820[j] = Entry(descs[j])
  BY <1>1 DEF TableInv
<1>3. CASE TableFull
  BY <1>1, <1>2, <1>3, BootAssumption, DescIs DEF TableFull, TableInv
<1>4. CASE ~TableFull
  <2>1. Len(e820) = k - 1
    BY <1>2, <1>4, BootAssumption DEF TableFull
  <2>2. descs[k] \in Descriptors /\ descs[k].start % PAGE_SIZE = 0 /\ Len(descs) \in Nat
    BY <1>1, <1>2, DescIs
  <2>3. PICK d \in Descriptors : d = descs[k]
    BY <2>2
  <2>4. PICK e \in Entries : e = Entry(d) /\ Whole(EntryBytes(e))
    BY <2>2, <2>3, EntryIs
  <2>5. e820' = Append(e820, e)
    BY <1>1, <1>4, <2>3, <2>4
  <2>6. /\ e820' \in Seq(Entries) /\ Len(e820') = k /\ DOMAIN e820' = 1 .. k
        /\ \A j \in 1 .. k - 1 : e820'[j] = e820[j] /\ j \in DOMAIN e820
        /\ e820'[k] = e
    BY <1>2, <2>1, <2>5
  <2>7. \A j \in DOMAIN e820' : Whole(EntryBytes(e820'[j])) /\ e820'[j] = Entry(descs[j])
    <3> SUFFICES ASSUME NEW j \in 1 .. k
                 PROVE  Whole(EntryBytes(e820'[j])) /\ e820'[j] = Entry(descs[j])
      BY <2>6
    <3>1. CASE j = k
      BY <2>3, <2>4, <2>6, <3>1
    <3>2. CASE j # k
      <4>1. j \in 1 .. k - 1
        BY <1>2, <3>2
      <4> QED BY <1>2, <2>6, <4>1
    <3> QED BY <3>1, <3>2
  <2>8. k < E820_MAX_ENTRIES \/ k = E820_MAX_ENTRIES
    BY <1>2, <1>4, <2>1, BootAssumption DEF TableFull
  <2>9. k <= Len(descs) + 1 - 1 /\ Len(e820') = IF k' - 1 < E820_MAX_ENTRIES THEN k' - 1 ELSE E820_MAX_ENTRIES
    BY <1>1, <1>2, <2>2, <2>6, <2>8, BootAssumption
  <2>10. /\ \A j \in DOMAIN e820' : Whole(EntryBytes(e820'[j]))
         /\ \A j \in DOMAIN e820' : e820'[j] = Entry(descs'[j])
    BY <1>1, <2>7
  <2>11. k' \in Nat \ {0} /\ k' <= Len(descs') + 1
    BY <1>1, <1>2, <2>2
  <2> QED BY <1>1, <1>2, <2>6, <2>9, <2>10, <2>11 DEF TableInv
<1> QED BY <1>3, <1>4

\* The filled table has the memory of the descriptors kept.
LEMMA TableFilled ==
    ASSUME TableInv, pc = "memmap", k > Len(descs)
    PROVE  \A a \in Bytes : RamAt(a, 1 .. Len(e820)) <=> a \in RamBytes(Kept)
<1>1. /\ descs \in DescLists /\ e820 \in Seq(Entries)
      /\ k \in Nat \ {0} /\ k <= Len(descs) + 1
      /\ Len(e820) = IF k - 1 < E820_MAX_ENTRIES THEN k - 1 ELSE E820_MAX_ENTRIES
      /\ \A j \in DOMAIN e820 : e820[j] = Entry(descs[j])
  BY DEF TableInv
<1>2. /\ Len(descs) \in Nat
      /\ \A j \in 1 .. Len(descs) : descs[j] \in Descriptors /\ descs[j].start % PAGE_SIZE = 0
  BY <1>1, DescIs
<1>3. k - 1 = Len(descs)
  BY <1>1, <1>2
<1>4. /\ Len(e820) = IF Len(descs) < E820_MAX_ENTRIES THEN Len(descs) ELSE E820_MAX_ENTRIES
      /\ Len(e820) \in Nat /\ Len(e820) <= Len(descs)
  BY <1>1, <1>2, <1>3, BootAssumption
<1>5. \A j \in 1 .. Len(e820) : /\ e820[j].type = E820Type(descs[j].type)
                                /\ EntryBytes(e820[j]) = DescBytes(descs[j])
  <2> SUFFICES ASSUME NEW j \in 1 .. Len(e820)
               PROVE  /\ e820[j].type = E820Type(descs[j].type)
                      /\ EntryBytes(e820[j]) = DescBytes(descs[j])
    OBVIOUS
  <2>1. PICK d \in Descriptors : d = descs[j] /\ d.start % PAGE_SIZE = 0
    BY <1>2, <1>4
  <2>2. e820[j] = Entry(d)
    BY <1>1, <2>1
  <2> QED BY <2>1, <2>2, EntryIs
<1>6. \A a : a \in RamBytes(Kept) <=>
             \E j \in 1 .. Len(e820) : E820Type(descs[j].type) = "RAM" /\ a \in DescBytes(descs[j])
  BY <1>1, <1>4, KeptIs
<1> QED BY <1>5, <1>6 DEF RamAt

\* The end of the map: the table is compacted, or empty.
LEMMA TableTurn ==
    ASSUME TableInv, MemmapDone
    PROVE  TableInv'
<1>1. /\ pc = "memmap" /\ k > Len(descs) /\ UNCHANGED <<descs, e820>> /\ idx' = 1
      /\ pc' = IF e820 = <<>> THEN "setup" ELSE "update"
      /\ k' = IF e820 = <<>> THEN 1 ELSE 2
  BY DEF MemmapDone
<1>2. \A a \in Bytes : RamAt(a, 1 .. Len(e820)) <=> a \in RamBytes(Kept)
  BY <1>1, TableFilled
<1>3. descs \in DescLists /\ e820 \in Seq(Entries) /\ Len(e820) \in Nat
  BY DEF TableInv
<1>4. UNCHANGED RamBytes(Kept) /\ \A a, S : RamAt(a, S)' = RamAt(a, S)
  BY <1>1 DEF Kept, RamAt
<1>5. CASE e820 = <<>>
  BY <1>1, <1>2, <1>3, <1>4, <1>5 DEF TableInv
<1>6. CASE e820 # <<>>
  <2>1. Len(e820) >= 1
    BY <1>3, <1>6
  <2>2. (1 .. idx') \cup (k' .. Len(e820')) = 1 .. Len(e820)
    BY <1>1, <1>3, <1>6, <2>1
  <2>3. PICK S : S = 1 .. Len(e820)
    OBVIOUS
  <2>4. \A a \in Bytes : RamAt(a, S)' <=> a \in RamBytes(Kept)'
    BY <1>2, <1>4, <2>3
  <2>5. \A a \in Bytes :
           RamAt(a, (1 .. idx) \cup (k .. Len(e820)))' <=> a \in RamBytes(Kept)'
    BY <2>2, <2>3, <2>4 DEF RamAt
  <2>6. pc' = "update" /\ k' = 2 /\ idx' = 1 /\ idx' < k' /\ k' <= Len(e820') + 1
    BY <1>1, <1>3, <1>6, <2>1
  <2>7. \A j \in DOMAIN e820' : Whole(EntryBytes(e820'[j]))
    BY <1>1 DEF TableInv
  <2>8. /\ descs' \in DescLists /\ e820' \in Seq(Entries)
        /\ k' \in Nat \ {0} /\ idx' \in Nat \ {0}
    BY <1>1, <1>3, <2>6
  <2> QED BY <2>5, <2>6, <2>7, <2>8 DEF TableInv
<1> QED BY <1>5, <1>6

\* An entry that continues another one has the bytes behind it.
LEMMA MergedBytes ==
    ASSUME NEW e \in Entries, NEW f \in Entries, NEW g,
           Continues(e, f), g = [e EXCEPT !.size = @ + f.size]
    PROVE  /\ g \in Entries /\ g.type = e.type /\ g.type = f.type
           /\ EntryBytes(g) = EntryBytes(e) \cup EntryBytes(f)
<1>1. g = [start |-> e.start, size |-> e.size + f.size, type |-> e.type]
  BY DEF Entries
<1>2. e.start \in Nat /\ e.size \in Nat /\ f.size \in Nat /\ f.start = e.start + e.size
  BY DEF Entries, Continues
<1>3. g \in Entries /\ g.type = e.type /\ g.start = e.start /\ g.size = e.size + f.size
  BY <1>1, <1>2 DEF Entries
<1>4. Range(e.start, e.size + f.size) = Range(e.start, e.size) \cup Range(e.start + e.size, f.size)
  BY <1>2 DEF Range
<1> QED BY <1>2, <1>3, <1>4 DEF EntryBytes, Continues

\* While the table is compacted.
LEMMA UpdateIs ==
    ASSUME TableInv, pc = "update"
    PROVE  /\ descs \in DescLists /\ e820 \in Seq(Entries) /\ Len(e820) \in Nat
           /\ k \in Nat \ {0} /\ idx \in Nat \ {0} /\ idx < k /\ k <= Len(e820) + 1
           /\ \A j \in DOMAIN e820 : Whole(EntryBytes(e820[j]))
           /\ \A a \in Bytes :
                 RamAt(a, (1 .. idx) \cup (k .. Len(e820))) <=> a \in RamBytes(Kept)
<1>1. /\ descs \in DescLists /\ e820 \in Seq(Entries)
      /\ k \in Nat \ {0} /\ idx \in Nat \ {0}
      /\ \A j \in DOMAIN e820 : Whole(EntryBytes(e820[j]))
  BY DEF TableInv
<1>2. idx < k /\ k <= Len(e820) + 1
  BY DEF TableInv
<1>3. \A a \in Bytes :
         RamAt(a, (1 .. idx) \cup (k .. Len(e820))) <=> a \in RamBytes(Kept)
  BY DEF TableInv
<1>4. Len(e820) \in Nat
  BY <1>1
<1> QED BY <1>1, <1>2, <1>3, <1>4

\* e820__update_table merges entry k into entry idx.
LEMMA TableMerge ==
    ASSUME TableInv, UpdateMerge
    PROVE  TableInv'
<1>1. /\ pc = "update" /\ pc' = "update" /\ k <= Len(e820) /\ Continues(e820[idx], e820[k])
      /\ e820' = [e820 EXCEPT ![idx].size = @ + e820[k].size]
      /\ k' = k + 1 /\ UNCHANGED <<descs, idx>>
  BY DEF UpdateMerge
<1>2. /\ descs \in DescLists /\ e820 \in Seq(Entries) /\ Len(e820) \in Nat
      /\ k \in Nat \ {0} /\ idx \in Nat \ {0} /\ idx < k
      /\ \A j \in DOMAIN e820 : Whole(EntryBytes(e820[j]))
      /\ \A a \in Bytes :
            RamAt(a, (1 .. idx) \cup (k .. Len(e820))) <=> a \in RamBytes(Kept)
  BY <1>1, UpdateIs
<1>3. idx \in 1 .. Len(e820) /\ k \in 1 .. Len(e820) /\ DOMAIN e820 = 1 .. Len(e820)
  BY <1>1, <1>2
<1>4. PICK e \in Entries, f \in Entries : e = e820[idx] /\ f = e820[k]
  BY <1>2, <1>3
<1>5. PICK g : g = [e EXCEPT !.size = @ + f.size]
  OBVIOUS
<1>6. e820' = [e820 EXCEPT ![idx] = g]
  BY <1>1, <1>4, <1>5
<1>7. /\ g \in Entries /\ g.type = e.type /\ g.type = f.type
      /\ EntryBytes(g) = EntryBytes(e) \cup EntryBytes(f)
  BY <1>1, <1>4, <1>5, MergedBytes
<1>8. /\ e820' \in Seq(Entries) /\ Len(e820') = Len(e820) /\ DOMAIN e820' = DOMAIN e820
      /\ e820'[idx] = g /\ \A j \in DOMAIN e820 \ {idx} : e820'[j] = e820[j]
  BY <1>2, <1>3, <1>6, <1>7
<1>9. \A j \in DOMAIN e820' : Whole(EntryBytes(e820'[j]))
  <2>1. Whole(EntryBytes(e)) /\ Whole(EntryBytes(f))
    BY <1>2, <1>3, <1>4
  <2>2. Whole(EntryBytes(g))
    BY <1>7, <2>1 DEF Whole
  <2> QED BY <1>2, <1>8, <2>2
<1>10. \A a : RamAt(a, (1 .. idx) \cup (k .. Len(e820)))' <=>
              RamAt(a, (1 .. idx) \cup (k .. Len(e820)))
  <2> SUFFICES ASSUME NEW a
               PROVE  (\E j \in (1 .. idx) \cup (k + 1 .. Len(e820)) :
                          e820'[j].type = "RAM" /\ a \in EntryBytes(e820'[j])) <=>
                      (\E j \in (1 .. idx) \cup (k .. Len(e820)) :
                          e820[j].type = "RAM" /\ a \in EntryBytes(e820[j]))
    BY <1>1, <1>8 DEF RamAt
  <2>1. ASSUME NEW j \in (1 .. idx) \cup (k + 1 .. Len(e820)),
               e820'[j].type = "RAM" /\ a \in EntryBytes(e820'[j])
        PROVE  \E i \in (1 .. idx) \cup (k .. Len(e820)) :
                  e820[i].type = "RAM" /\ a \in EntryBytes(e820[i])
    <3>1. idx \in (1 .. idx) \cup (k .. Len(e820)) /\ k \in (1 .. idx) \cup (k .. Len(e820))
      BY <1>1, <1>2
    <3>2. CASE j = idx
      BY <1>4, <1>7, <1>8, <2>1, <3>1, <3>2
    <3>3. CASE j # idx
      <4>1. j \in DOMAIN e820 \ {idx} /\ j \in (1 .. idx) \cup (k .. Len(e820))
        BY <1>2, <1>3, <3>3
      <4> QED BY <1>8, <2>1, <4>1
    <3> QED BY <3>2, <3>3
  <2>2. ASSUME NEW j \in (1 .. idx) \cup (k .. Len(e820)),
               e820[j].type = "RAM" /\ a \in EntryBytes(e820[j])
        PROVE  \E i \in (1 .. idx) \cup (k + 1 .. Len(e820)) :
                  e820'[i].type = "RAM" /\ a \in EntryBytes(e820'[i])
    <3>1. idx \in (1 .. idx) \cup (k + 1 .. Len(e820))
      BY <1>1, <1>2
    <3>2. CASE j \in {idx, k}
      BY <1>4, <1>7, <1>8, <2>2, <3>1, <3>2
    <3>3. CASE j \notin {idx, k}
      <4>1. j \in DOMAIN e820 \ {idx} /\ j \in (1 .. idx) \cup (k + 1 .. Len(e820))
        BY <1>2, <1>3, <3>3
      <4> QED BY <1>8, <2>2, <4>1
    <3> QED BY <3>2, <3>3
  <2> QED BY <2>1, <2>2
<1>11. \A a \in Bytes :
          RamAt(a, (1 .. idx) \cup (k .. Len(e820)))' <=> a \in RamBytes(Kept)'
  BY <1>1, <1>2, <1>10 DEF Kept
<1>12. k' \in Nat \ {0} /\ idx' < k' /\ k' <= Len(e820') + 1
  BY <1>1, <1>2, <1>8
<1> QED BY <1>1, <1>2, <1>8, <1>9, <1>11, <1>12 DEF TableInv

\* e820__update_table moves entry k behind entry idx.
LEMMA TableMove ==
    ASSUME TableInv, UpdateMove
    PROVE  TableInv'
<1>1. /\ pc = "update" /\ pc' = "update" /\ k <= Len(e820)
      /\ e820' = [e820 EXCEPT ![idx + 1] = e820[k]]
      /\ k' = k + 1 /\ idx' = idx + 1 /\ UNCHANGED descs
  BY DEF UpdateMove
<1>2. /\ descs \in DescLists /\ e820 \in Seq(Entries) /\ Len(e820) \in Nat
      /\ k \in Nat \ {0} /\ idx \in Nat \ {0} /\ idx < k
      /\ \A j \in DOMAIN e820 : Whole(EntryBytes(e820[j]))
      /\ \A a \in Bytes :
            RamAt(a, (1 .. idx) \cup (k .. Len(e820))) <=> a \in RamBytes(Kept)
  BY <1>1, UpdateIs
<1>3. idx + 1 \in 1 .. Len(e820) /\ k \in 1 .. Len(e820) /\ DOMAIN e820 = 1 .. Len(e820)
  BY <1>1, <1>2
<1>4. PICK f \in Entries : f = e820[k] /\ Whole(EntryBytes(f))
  BY <1>2, <1>3
<1>5. e820' = [e820 EXCEPT ![idx + 1] = f]
  BY <1>1, <1>4
<1>6. /\ e820' \in Seq(Entries) /\ Len(e820') = Len(e820) /\ DOMAIN e820' = DOMAIN e820
      /\ e820'[idx + 1] = f /\ \A j \in DOMAIN e820 \ {idx + 1} : e820'[j] = e820[j]
  BY <1>2, <1>3, <1>5
<1>7. \A j \in DOMAIN e820' : Whole(EntryBytes(e820'[j]))
  BY <1>2, <1>4, <1>6
<1>8. \A a : RamAt(a, (1 .. idx) \cup (k .. Len(e820)))' <=>
             RamAt(a, (1 .. idx) \cup (k .. Len(e820)))
  <2> SUFFICES ASSUME NEW a
               PROVE  (\E j \in (1 .. idx + 1) \cup (k + 1 .. Len(e820)) :
                          e820'[j].type = "RAM" /\ a \in EntryBytes(e820'[j])) <=>
                      (\E j \in (1 .. idx) \cup (k .. Len(e820)) :
                          e820[j].type = "RAM" /\ a \in EntryBytes(e820[j]))
    BY <1>1, <1>6 DEF RamAt
  <2>1. ASSUME NEW j \in (1 .. idx + 1) \cup (k + 1 .. Len(e820)),
               e820'[j].type = "RAM" /\ a \in EntryBytes(e820'[j])
        PROVE  \E i \in (1 .. idx) \cup (k .. Len(e820)) :
                  e820[i].type = "RAM" /\ a \in EntryBytes(e820[i])
    <3>1. k \in (1 .. idx) \cup (k .. Len(e820))
      BY <1>1, <1>2
    <3>2. CASE j = idx + 1
      BY <1>4, <1>6, <2>1, <3>1, <3>2
    <3>3. CASE j # idx + 1
      <4>1. j \in DOMAIN e820 \ {idx + 1} /\ j \in (1 .. idx) \cup (k .. Len(e820))
        BY <1>2, <1>3, <3>3
      <4> QED BY <1>6, <2>1, <4>1
    <3> QED BY <3>2, <3>3
  <2>2. ASSUME NEW j \in (1 .. idx) \cup (k .. Len(e820)),
               e820[j].type = "RAM" /\ a \in EntryBytes(e820[j])
        PROVE  \E i \in (1 .. idx + 1) \cup (k + 1 .. Len(e820)) :
                  e820'[i].type = "RAM" /\ a \in EntryBytes(e820'[i])
    <3>1. idx + 1 \in (1 .. idx + 1) \cup (k + 1 .. Len(e820))
      BY <1>1, <1>2
    <3>2. CASE j = k
      BY <1>4, <1>6, <2>2, <3>1, <3>2
    <3>3. CASE j # k
      <4>1. j \in DOMAIN e820 \ {idx + 1} /\ j \in (1 .. idx + 1) \cup (k + 1 .. Len(e820))
        BY <1>2, <1>3, <3>3
      <4> QED BY <1>6, <2>2, <4>1
    <3> QED BY <3>2, <3>3
  <2> QED BY <2>1, <2>2
<1>9. \A a \in Bytes :
          RamAt(a, (1 .. idx) \cup (k .. Len(e820)))' <=> a \in RamBytes(Kept)'
  BY <1>1, <1>2, <1>8 DEF Kept
<1>10. k' \in Nat \ {0} /\ idx' \in Nat \ {0} /\ idx' < k' /\ k' <= Len(e820') + 1
  BY <1>1, <1>2, <1>6
<1> QED BY <1>1, <1>2, <1>6, <1>7, <1>9, <1>10 DEF TableInv

\* e820__update_table cuts the table off behind entry idx.
LEMMA TableCut ==
    ASSUME TableInv, UpdateDone
    PROVE  TableInv'
<1>1. /\ pc = "update" /\ pc' = "setup" /\ k > Len(e820)
      /\ e820' = SubSeq(e820, 1, idx)
      /\ k' = 1 /\ UNCHANGED <<descs, idx>>
  BY DEF UpdateDone
<1>2. /\ descs \in DescLists /\ e820 \in Seq(Entries) /\ Len(e820) \in Nat
      /\ k \in Nat \ {0} /\ idx \in Nat \ {0} /\ idx < k /\ k <= Len(e820) + 1
      /\ \A j \in DOMAIN e820 : Whole(EntryBytes(e820[j]))
      /\ \A a \in Bytes :
            RamAt(a, (1 .. idx) \cup (k .. Len(e820))) <=> a \in RamBytes(Kept)
  BY <1>1, UpdateIs
<1>3. /\ idx <= Len(e820) /\ DOMAIN e820 = 1 .. Len(e820)
      /\ (1 .. idx) \cup (k .. Len(e820)) = 1 .. idx
  BY <1>1, <1>2
<1>4. /\ e820' \in Seq(Entries) /\ Len(e820') = idx /\ DOMAIN e820' = 1 .. idx
      /\ \A j \in 1 .. idx : e820'[j] = e820[j]
  BY <1>1, <1>2, <1>3
<1>5. \A j \in DOMAIN e820' : Whole(EntryBytes(e820'[j]))
  BY <1>2, <1>3, <1>4
<1>6. \A a \in Bytes : RamAt(a, 1 .. Len(e820))' <=> a \in RamBytes(Kept)'
  <2>1. \A a \in Bytes : RamAt(a, 1 .. idx) <=> a \in RamBytes(Kept)
    BY <1>2, <1>3
  <2>2. \A a : RamAt(a, 1 .. Len(e820))' <=> RamAt(a, 1 .. idx)
    BY <1>4 DEF RamAt
  <2>3. RamBytes(Kept)' = RamBytes(Kept)
    BY <1>1 DEF Kept
  <2> QED BY <2>1, <2>2, <2>3
<1> QED BY <1>1, <1>2, <1>4, <1>5, <1>6 DEF TableInv

\* The table after every step.
LEMMA TableStep ==
    ASSUME TableInv, Next
    PROVE  TableInv'
<1>1. CASE RangeAdd
  BY <1>1, TableFill
<1>2. CASE MemmapDone
  BY <1>2, TableTurn
<1>3. CASE UpdateMerge
  BY <1>3, TableMerge
<1>4. CASE UpdateMove
  BY <1>4, TableMove
<1>5. CASE UpdateDone
  BY <1>5, TableCut
<1>6. CASE MemblockSetup \/ MemblockAdded
  <2>1. /\ UNCHANGED <<descs, e820, idx>>
        /\ \/ pc = "setup" /\ pc' = "added" /\ k' = k /\ k <= Len(e820)
           \/ pc = "setup" /\ pc' = "setup" /\ k' = k + 1 /\ k <= Len(e820)
           \/ pc = "added" /\ pc' = "setup" /\ k' = k + 1
    BY <1>6 DEF MemblockSetup, MemblockAdded
  <2>2. e820 \in Seq(Entries) /\ Len(e820) \in Nat /\ k \in Nat \ {0}
    BY DEF TableInv
  <2>3. /\ pc' = "setup" => k' <= Len(e820') + 1
        /\ pc' = "added" => k' <= Len(e820')
        /\ k' \in Nat \ {0} /\ pc' \in {"setup", "added"} /\ pc \in {"setup", "added"}
    BY <2>1, <2>2 DEF TableInv
  <2>4. \A a \in Bytes : RamAt(a, 1 .. Len(e820))' <=> a \in RamBytes(Kept)'
    BY <2>1, <2>3 DEF TableInv, RamAt, Kept
  <2> QED BY <2>1, <2>3, <2>4 DEF TableInv
<1>7. CASE \/ ReserveKernel \/ ReserveRamdisk \/ NoRamdisk \/ reserve_real_mode
           \/ init_mem_mapping \/ initmem_init \/ Continue \/ PercpuAlloc \/ PercpuSet \/ PercpuDone
           \/ AddHalts
  <2>1. UNCHANGED <<descs, e820, k, idx>>
    BY <1>7 DEF AddHalts, ReserveKernel, ReserveRamdisk, NoRamdisk, reserve_real_mode, init_mem_mapping,
       initmem_init, Continue, PercpuAlloc, PercpuSet, PercpuDone, boot
  <2>2. pc' \notin {"memmap", "update", "setup", "added"}
    BY <1>7 DEF AddHalts, ReserveKernel, ReserveRamdisk, NoRamdisk, reserve_real_mode,
       init_mem_mapping, initmem_init, Continue, PercpuAlloc, PercpuSet, PercpuDone
  <2> QED BY <2>1, <2>2 DEF TableInv
<1>8. CASE Serve
  <2>1. UNCHANGED <<pc, descs, e820, k, idx>>
    BY <1>8 DEF Serve, boot
  <2> QED BY <2>1 DEF TableInv, RamAt, Kept
<1> QED BY <1>1, <1>2, <1>3, <1>4, <1>5, <1>6, <1>7, <1>8 DEF Next

-----------------------------------------------------------------------------
(* What memblock knows of.                                                 *)

\* e820__memblock_setup adds the memory entries, one by one.
LEMMA KnownAdd ==
    ASSUME BootType, TableInv, KnownInv, MemblockSetup
    PROVE  KnownInv'
<1>1. pc = "setup" /\ k <= Len(e820) /\ UNCHANGED e820
  BY DEF MemblockSetup
<1>2. /\ e820 \in Seq(Entries) /\ k \in Nat \ {0} /\ k \in 1 .. Len(e820)
      /\ 1 .. k = (1 .. k - 1) \cup {k}
  BY <1>1 DEF TableInv
<1>3. \A a \in Bytes : Known(a) <=> RamAt(a, 1 .. k - 1)
  BY <1>1 DEF KnownInv
<1>4. CASE e820[k].type = "RAM"
  <2>1. Call("add", e820[k].start, e820[k].size) /\ pc' = "added" /\ k' = k
    BY <1>4 DEF MemblockSetup
  <2>2. /\ req'.base = e820[k].start /\ req'.size = e820[k].size /\ req'.nid = -1
        /\ mem' = MB!Added(mem, req')
    BY <2>1, CallIs
  <2>3. mem \in [Bytes -> Cells]
    BY DEF BootType
  <2>4. \A a \in Bytes : mem'[a] = MB!Absent <=>
                           mem[a] = MB!Absent /\ a \notin EntryBytes(e820[k])
    BY <2>2, <2>3, AddedIs DEF EntryBytes
  <2>5. \A a : RamAt(a, 1 .. k) <=> RamAt(a, 1 .. k - 1) \/ a \in EntryBytes(e820[k])
    BY <1>2, <1>4 DEF RamAt
  <2>6. \A a \in Bytes : Known(a)' <=> RamAt(a, 1 .. k)
    BY <1>3, <2>4, <2>5 DEF Known
  <2>7. \A a : RamAt(a, 1 .. k)' <=> RamAt(a, 1 .. k)
    BY <1>1, <2>1 DEF RamAt
  <2> QED BY <2>1, <2>6, <2>7 DEF KnownInv, Filled
<1>5. CASE e820[k].type # "RAM"
  <2>1. mem' = mem /\ pc' = "setup" /\ k' = k + 1
    BY <1>1, <1>5 DEF MemblockSetup, memblock
  <2>2. \A a : RamAt(a, 1 .. k) <=> RamAt(a, 1 .. k - 1)
    BY <1>2, <1>5 DEF RamAt
  <2>3. k' - 1 = k
    BY <1>2, <2>1
  <2>4. \A a : RamAt(a, 1 .. k - 1)' <=> RamAt(a, 1 .. k)
    BY <1>1, <2>3 DEF RamAt
  <2>5. \A a \in Bytes : Known(a)' <=> RamAt(a, 1 .. k - 1)'
    BY <1>3, <2>1, <2>2, <2>4 DEF Known
  <2> QED BY <2>1, <2>5 DEF KnownInv, Filled
<1> QED BY <1>4, <1>5

\* memblock knows the memory of the table, and then that of the firmware.
LEMMA KnownStep ==
    ASSUME BootType, CallInv, TableInv, KnownInv, Next
    PROVE  KnownInv'
<1>1. CASE RangeAdd \/ MemmapDone \/ UpdateMerge \/ UpdateMove \/ UpdateDone
  <2>1. /\ pc \in {"memmap", "update"} /\ mem' = mem
        /\ pc' \in {"memmap", "update"} \/ (pc' = "setup" /\ k' = 1)
    BY <1>1 DEF RangeAdd, MemmapDone, UpdateMerge, UpdateMove, UpdateDone, memblock
  <2>2. \A a \in Bytes : ~Known(a)'
    BY <2>1 DEF KnownInv, Known
  <2>3. pc' = "setup" => \A a : ~RamAt(a, 1 .. k - 1)'
    BY <2>1 DEF RamAt
  <2> QED BY <2>1, <2>2, <2>3 DEF KnownInv, Filled
<1>2. CASE MemblockSetup
  BY <1>2, KnownAdd
<1>3. CASE MemblockAdded
  <2>1. pc = "added" /\ pc' = "setup" /\ mem' = mem /\ k' = k + 1 /\ e820' = e820
    BY <1>3 DEF MemblockAdded, Return, MB!Return
  <2>2. k' - 1 = k
    BY <2>1 DEF TableInv
  <2>3. \A a : RamAt(a, 1 .. k - 1)' <=> RamAt(a, 1 .. k)
    BY <2>1, <2>2 DEF RamAt
  <2>4. \A a \in Bytes : Known(a)' <=> RamAt(a, 1 .. k - 1)'
    BY <2>1, <2>3 DEF KnownInv, Known
  <2> QED BY <2>1, <2>4 DEF KnownInv, Filled
<1>4. CASE ReserveKernel
  <2>1. pc = "setup" /\ pc' = "kernel" /\ mem' = mem /\ descs' = descs /\ k > Len(e820)
    BY <1>4, CallIs DEF ReserveKernel, boot
  <2>2. k \in Nat /\ e820 \in Seq(Entries) /\ k <= Len(e820) + 1
    BY <2>1 DEF TableInv
  <2>3. k - 1 = Len(e820)
    BY <2>1, <2>2
  <2>4. \A a \in Bytes : Known(a) <=> a \in RamBytes(Kept)
    BY <2>1, <2>3 DEF KnownInv, TableInv
  <2>5. \A a \in Bytes : Known(a)' <=> a \in RamBytes(Kept)'
    BY <2>1, <2>4 DEF Known, Kept
  <2> QED BY <2>1, <2>5 DEF KnownInv, Filled
<1>5. CASE \/ ReserveRamdisk \/ NoRamdisk \/ reserve_real_mode
           \/ init_mem_mapping \/ initmem_init \/ Continue \/ PercpuAlloc \/ PercpuSet \/ PercpuDone
  <2>1. Filled /\ Filled' /\ descs' = descs
    BY <1>5 DEF Filled, ReserveRamdisk, NoRamdisk, reserve_real_mode, init_mem_mapping,
       initmem_init, Continue, PercpuAlloc, PercpuSet, PercpuDone, boot
  <2>2. mem' = mem
    <3>1. CASE NoRamdisk \/ Continue \/ PercpuSet \/ PercpuDone
      BY <3>1 DEF NoRamdisk, Continue, PercpuSet, PercpuDone, Return, MB!Return, memblock
    <3>2. CASE ReserveRamdisk
      BY <3>2, CallIs DEF ReserveRamdisk
    <3>3. CASE initmem_init
      BY <3>3, CallIs DEF initmem_init
    <3>4. CASE init_mem_mapping
      BY <3>4, CallIs DEF init_mem_mapping, ReserveBrk
    <3>5. CASE reserve_real_mode
      BY <3>5, AllocIs DEF reserve_real_mode, memblock
    <3>6. CASE PercpuAlloc
      BY <3>6, AllocIs DEF PercpuAlloc
    <3> QED BY <1>5, <3>1, <3>2, <3>3, <3>4, <3>5, <3>6
  <2>3. \A a \in Bytes : Known(a)' <=> a \in RamBytes(Kept)'
    BY <2>1, <2>2 DEF KnownInv, Known, Kept
  <2> QED BY <2>1, <2>3 DEF KnownInv, Filled
<1>6. CASE Serve
  <2>1. /\ pc \in Waiting /\ st = "busy" /\ pc' = pc
        /\ \A a \in Bytes : mem'[a] = MB!Absent <=> mem[a] = MB!Absent
    BY <1>6, ServeIs
  <2>2. pc # "added" /\ descs' = descs
    BY <1>6, <2>1 DEF CallInv, Serve, boot
  <2>3. Filled /\ Filled' /\ pc' \notin {"memmap", "update", "setup", "added"}
    BY <2>1, <2>2 DEF Filled, Waiting
  <2>4. \A a \in Bytes : Known(a)' <=> a \in RamBytes(Kept)'
    BY <2>1, <2>2, <2>3 DEF KnownInv, Known, Kept
  <2> QED BY <2>3, <2>4 DEF KnownInv
<1>7. CASE AddHalts
  BY <1>7 DEF AddHalts, KnownInv, Filled
<1> QED BY <1>1, <1>2, <1>3, <1>4, <1>5, <1>6, <1>7 DEF Next

-----------------------------------------------------------------------------
(* What is mapped.                                                         *)

\* Pages that are alike are mapped whole, if they are memory.
LEMMA MapAll ==
    ASSUME mem \in [Bytes -> Cells], Uniform(mem), NEW a \in Bytes, Known(a)
    PROVE  a \div PAGE_SIZE \in WholePages
<1>1. a \in Nat /\ MaxAddr \in Nat /\ PAGE_SIZE \in Nat \ {0} /\ a < MaxAddr
  BY BootAssumption DEF Bytes
<1>2. PICK q \in Nat, r \in 0 .. PAGE_SIZE - 1 :
         q = a \div PAGE_SIZE /\ a = PAGE_SIZE * q + r
  BY <1>1, PageOf
<1>3. PICK n \in Nat : n = MaxAddr \div PAGE_SIZE /\ MaxAddr = PAGE_SIZE * n
  <2>1. PICK m \in Nat, x \in 0 .. PAGE_SIZE - 1 :
           m = MaxAddr \div PAGE_SIZE /\ x = MaxAddr % PAGE_SIZE /\ MaxAddr = PAGE_SIZE * m + x
    BY <1>1, PageOf
  <2>2. x = 0
    BY <2>1, LayoutAssumption
  <2>3. MaxAddr = PAGE_SIZE * m
    BY <2>1, <2>2, <1>1
  <2> QED BY <2>1, <2>3
<1>4. ~(n <= q)
  <2>1. ~(PAGE_SIZE * n <= PAGE_SIZE * q + r)
    BY <1>1, <1>2, <1>3
  <2> QED BY <1>1, <2>1, PageBelow
<1>5. q \in PageNumbers
  BY <1>2, <1>3, <1>4 DEF PageNumbers
<1>6. ASSUME NEW b \in BytesOf(q)
      PROVE  b \in Bytes /\ b \div PAGE_SIZE = q
  <2>1. PICK z \in Nat : z = PAGE_SIZE * q /\ z = q * PAGE_SIZE
    BY <1>1, <1>2
  <2>2. b \in Nat /\ z <= b /\ b < z + PAGE_SIZE
    BY <1>1, <2>1 DEF BytesOf, Range
  <2>3. PICK p \in Nat, s \in 0 .. PAGE_SIZE - 1 :
           p = b \div PAGE_SIZE /\ b = PAGE_SIZE * p + s
    BY <1>1, <2>2, PageOf
  <2>4. q <= p
    BY <1>1, <2>1, <2>2, <2>3, PageBelow
  <2>5. ~(q + 1 <= p)
    <3>1. PAGE_SIZE * (q + 1) = z + PAGE_SIZE
      BY <1>1, <2>1
    <3>2. ~(PAGE_SIZE * (q + 1) <= PAGE_SIZE * p + s) /\ q + 1 \in Nat
      BY <1>1, <2>2, <2>3, <3>1
    <3> QED BY <1>1, <3>2, PageBelow
  <2>6. p = q
    BY <2>4, <2>5
  <2>7. z + PAGE_SIZE <= MaxAddr
    <3>1. PICK d \in Nat : n = q + 1 + d
      <4>1. n - q - 1 \in Nat
        BY <1>4
      <4> QED BY <4>1
    <3>2. PAGE_SIZE * n = PAGE_SIZE * q + PAGE_SIZE + PAGE_SIZE * d /\ PAGE_SIZE * d \in Nat
      BY <1>1, <3>1
    <3> QED BY <1>1, <1>3, <2>1, <3>2
  <2> QED BY <1>1, <2>2, <2>3, <2>6, <2>7 DEF Bytes
<1>7. \A b \in BytesOf(q) : mem[b] = mem[a]
  BY <1>2, <1>6 DEF Uniform
<1>8. mem[a] \in {mem[x] : x \in Bytes} \ {MB!Absent}
  BY DEF Known
<1> QED BY <1>2, <1>5, <1>7, <1>8 DEF WholePages

\* The bytes of the kernel, the ramdisk and a trampoline are whole pages.
LEMMA WholeRanges ==
    ASSUME BootType
    PROVE  /\ Whole(Range(Text, EndOfKernel - Text))
           /\ Whole(Range(ramdisk.image, RoundUp(ramdisk.size)))
           /\ \A p \in Nat : p % PAGE_SIZE = 0 => Whole(Range(p, RealModeSize))
<1>1. Whole(Range(Text, EndOfKernel - Text))
  <2>1. 0 % PAGE_SIZE = 0
    BY BootAssumption
  <2>2. Whole(Range(0, Text)) /\ Whole(Range(0, EndOfKernel))
    BY <2>1, AlignedWhole, BootAssumption, LayoutAssumption
  <2>3. \A a \in Bytes : a \in Range(Text, EndOfKernel - Text) <=>
                           a \in Range(0, EndOfKernel) /\ a \notin Range(0, Text)
    BY BootAssumption DEF Bytes, Range
  <2> QED BY <2>2, <2>3 DEF Whole
<1>2. Whole(Range(ramdisk.image, RoundUp(ramdisk.size)))
  <2>1. /\ ramdisk.image \in Nat /\ ramdisk.size \in Nat
        /\ ramdisk.image % PAGE_SIZE = 0
    BY BootAssumption, LayoutAssumption DEF BootType
  <2>2. (ramdisk.size + PAGE_SIZE - 1) \div PAGE_SIZE \in Nat
    <3>1. PICK x \in Nat : x = ramdisk.size + PAGE_SIZE - 1
      BY <2>1, BootAssumption
    <3> QED BY <3>1, BootAssumption, PageOf
  <2>3. RoundUp(ramdisk.size) \in Nat /\ RoundUp(ramdisk.size) % PAGE_SIZE = 0
    BY <2>2, Multiple DEF RoundUp
  <2> QED BY <2>1, <2>3, AlignedWhole
<1>3. \A p \in Nat : p % PAGE_SIZE = 0 => Whole(Range(p, RealModeSize))
  BY AlignedWhole, BootAssumption, LayoutAssumption
<1> QED BY <1>1, <1>2, <1>3

\* memblock serves a call: before the mapping whole pages change, after it
\* what is granted is mapped.
LEMMA MappedServe ==
    ASSUME BootType, CallInv, MappedInv, Serve
    PROVE  MappedInv'
<1>1. /\ pc \in Waiting /\ st = "busy" /\ pc' = pc
      /\ \A a \in Bytes : mem'[a] = MB!Absent <=> mem[a] = MB!Absent
      /\ req.fn = "alloc" /\ res' # 0 =>
            /\ res' % req.align = 0
            /\ \A a \in Range(res', req.size) : a \in Bytes /\ mem[a].flags = "NONE"
  BY ServeIs
<1>2. UNCHANGED <<mapped, percpu>>
  BY DEF Serve, boot
<1>3. ASSUME pc \notin {"brk"} \cup HaveBrk PROVE Uniform(mem')
  <2>1. Uniform(mem) /\ pc \in {"kernel", "ramdisk", "trampoline"}
    BY <1>1, <1>3 DEF MappedInv, Waiting, HaveBrk, HavePercpu, CallInv
  <2>2. CASE MB!Effect
    <3>1. mem' = MB!Changed(mem, req, req.base) /\ req.fn # "alloc"
      BY <2>2 DEF MB!Effect
    <3>2. Whole(Range(req.base, req.size))
      BY <2>1, <3>1, WholeRanges DEF CallInv
    <3>3. PICK b : b = req.base
      OBVIOUS
    <3> QED BY <2>1, <3>1, <3>2, <3>3, UniformKept
  <2>3. CASE \E q \in Bytes, nd \in {0, MB!NO_NODE} : MB!Grant(q, nd)
    <3>1. PICK q \in Bytes, nd \in {0, MB!NO_NODE} : MB!Grant(q, nd)
      BY <2>3
    <3>2. /\ mem' = MB!Changed(mem, req, q) /\ req.fn = "alloc" /\ q % req.align = 0 /\ q \in Nat
      BY <3>1 DEF MB!Grant, MB!Block, Bytes
    <3>3. req.size = RealModeSize /\ req.align = PAGE_SIZE
      BY <2>1, <3>2 DEF CallInv
    <3>4. Whole(Range(q, req.size))
      BY <3>2, <3>3, WholeRanges
    <3> QED BY <2>1, <3>2, <3>4, UniformKept
  <2>4. CASE MB!Refuse
    BY <2>1, <2>4 DEF MB!Refuse
  <2> QED BY <2>2, <2>3, <2>4 DEF Serve
<1>4. pc \in {"brk"} \cup HaveBrk => \A a \in Bytes : Known(a)' => a \div PAGE_SIZE \in mapped'
  BY <1>1, <1>2 DEF MappedInv, Known
<1>5. Granted("area")' => \A a \in Range(res', PercpuSize) : a \div PAGE_SIZE \in mapped'
  <2> SUFFICES ASSUME Granted("area")', NEW a \in Range(res', PercpuSize)
               PROVE  a \div PAGE_SIZE \in mapped'
    OBVIOUS
  <2>1. pc = "area" /\ res' # 0 /\ req.fn = "alloc" /\ req.size = PercpuSize
    BY <1>1 DEF Granted, CallInv
  <2>2. a \in Bytes /\ mem[a].flags = "NONE"
    BY <1>1, <2>1
  <2>3. Known(a)
    BY <2>2 DEF Known, MB!Absent
  <2> QED BY <1>2, <2>1, <2>2, <2>3 DEF MappedInv, HaveBrk, HavePercpu
<1>6. \A c \in DOMAIN percpu' : \A a \in Area(c)' : a \div PAGE_SIZE \in mapped'
  BY <1>2 DEF MappedInv, Area
<1> QED BY <1>1, <1>3, <1>4, <1>5, <1>6 DEF MappedInv

\* What is mapped after every step.
LEMMA MappedStep ==
    ASSUME BootType, CallInv, HeldInv, TableInv, MappedInv, Next
    PROVE  MappedInv'
<1> USE DEF HaveBrk, HavePercpu
<1>1. CASE \/ RangeAdd \/ MemmapDone \/ UpdateMerge \/ UpdateMove \/ UpdateDone \/ MemblockAdded
           \/ AddHalts \/ NoRamdisk \/ PercpuDone \/ PercpuAlloc \/ ReserveKernel \/ ReserveRamdisk
           \/ initmem_init \/ reserve_real_mode
  <2>1. UNCHANGED <<mapped, percpu>>
    BY <1>1 DEF boot, RangeAdd, MemmapDone, UpdateMerge, UpdateMove, UpdateDone, MemblockAdded,
       AddHalts, NoRamdisk, PercpuDone, PercpuAlloc, ReserveKernel, ReserveRamdisk, initmem_init,
       reserve_real_mode
  <2>2. mem' = mem /\ (pc' = "area" => st' # "done")
    <3>1. CASE \/ RangeAdd \/ MemmapDone \/ UpdateMerge \/ UpdateMove \/ UpdateDone \/ MemblockAdded
               \/ AddHalts \/ NoRamdisk \/ PercpuDone
      BY <3>1 DEF AddHalts, MB!Stop, memblock, RangeAdd, MemmapDone, UpdateMerge, UpdateMove, UpdateDone,
         MemblockAdded, Return, MB!Return, NoRamdisk, PercpuDone
    <3>2. CASE PercpuAlloc
      BY <3>2, AllocIs DEF PercpuAlloc
    <3>3. CASE ReserveKernel
      BY <3>3, CallIs DEF ReserveKernel
    <3>4. CASE ReserveRamdisk
      BY <3>4, CallIs DEF ReserveRamdisk
    <3>5. CASE initmem_init
      BY <3>5, CallIs DEF initmem_init
    <3>6. CASE reserve_real_mode
      BY <3>6, AllocIs DEF reserve_real_mode, memblock
    <3> QED BY <1>1, <3>1, <3>2, <3>3, <3>4, <3>5, <3>6
  <2>3. pc \in {"brk"} \cup HaveBrk <=> pc' \in {"brk"} \cup HaveBrk
    BY <1>1 DEF RangeAdd, MemmapDone, UpdateMerge, UpdateMove, UpdateDone, MemblockAdded,
       AddHalts, NoRamdisk, PercpuDone, PercpuAlloc, ReserveKernel, ReserveRamdisk, initmem_init,
       reserve_real_mode
  <2>4. ~Granted("area")'
    BY <2>2 DEF Granted
  <2>5. /\ pc' \notin {"brk"} \cup HaveBrk => Uniform(mem')
        /\ pc' \in {"brk"} \cup HaveBrk => \A a \in Bytes : Known(a)' => a \div PAGE_SIZE \in mapped'
    BY <2>1, <2>2, <2>3 DEF MappedInv, Known
  <2>6. \A c \in DOMAIN percpu' : \A a \in Area(c)' : a \div PAGE_SIZE \in mapped'
    BY <2>1 DEF MappedInv, Area
  <2> QED BY <2>4, <2>5, <2>6 DEF MappedInv
<1>2. CASE MemblockSetup
  <2>1. pc = "setup" /\ pc' \in {"setup", "added"} /\ UNCHANGED <<mapped, percpu>> /\ k <= Len(e820)
    BY <1>2 DEF MemblockSetup, memblock
  <2>2. Uniform(mem) /\ e820 \in Seq(Entries) /\ k \in Nat \ {0}
    BY <2>1 DEF MappedInv, TableInv
  <2>3. Uniform(mem')
    <3>1. CASE Call("add", e820[k].start, e820[k].size)
      <4>1. /\ req'.base = e820[k].start /\ req'.size = e820[k].size
            /\ mem' = MB!Added(mem, req')
        BY <3>1, CallIs
      <4>2. k \in DOMAIN e820
        BY <2>1, <2>2
      <4>3. Whole(Range(req'.base, req'.size))
        BY <4>1, <4>2 DEF TableInv, EntryBytes
      <4>4. PICK b, c : b = req'.base /\ c = req'
        OBVIOUS
      <4>5. Uniform(mem) /\ Whole(Range(b, c.size)) /\ b = c.base
        BY <2>2, <4>3, <4>4
      <4>6. Uniform(MB!Added(mem, c))
        BY <4>5, UniformKept
      <4> QED BY <4>1, <4>4, <4>6
    <3>2. CASE mem' = mem
      BY <2>2, <3>2
    <3> QED BY <1>2, <3>1, <3>2 DEF MemblockSetup, memblock
  <2>4. ~Granted("area")'
    BY <2>1 DEF Granted
  <2>5. \A c \in DOMAIN percpu' : \A a \in Area(c)' : a \div PAGE_SIZE \in mapped'
    BY <2>1 DEF MappedInv, Area
  <2> QED BY <2>1, <2>3, <2>4, <2>5 DEF MappedInv
<1>3. CASE init_mem_mapping
  <2>1. /\ pc = "mapping" /\ pc' = "brk" /\ mem' = mem /\ mapped' = WholePages /\ percpu' = percpu
    BY <1>3, CallIs DEF init_mem_mapping, ReserveBrk
  <2>2. percpu' = <<>>
    BY <2>1 DEF HeldInv
  <2>3. mem \in [Bytes -> Cells] /\ Uniform(mem)
    BY <2>1 DEF MappedInv, BootType
  <2>4. \A a \in Bytes : Known(a) => a \div PAGE_SIZE \in WholePages
    BY <2>3, MapAll
  <2>5. \A a \in Bytes : Known(a)' => a \div PAGE_SIZE \in mapped'
    BY <2>1, <2>4 DEF Known
  <2>6. ~Granted("area")'
    BY <2>1 DEF Granted
  <2> QED BY <2>1, <2>2, <2>5, <2>6 DEF MappedInv
<1>4. CASE Continue
  <2>1. mem' = mem /\ UNCHANGED <<mapped, percpu>>
    BY <1>4 DEF Continue, Return, MB!Return
  <2>2. \/ pc \in {"brk", "node"} /\ pc' \in {"nodes", "percpu"}
        \/ pc \in {"kernel", "ramdisk", "trampoline"} /\ pc' \in {"initrd", "realmode", "mapping"}
    BY <1>4 DEF Continue
  <2>3. /\ pc' \notin {"brk"} \cup HaveBrk => Uniform(mem')
        /\ pc' \in {"brk"} \cup HaveBrk => \A a \in Bytes : Known(a)' => a \div PAGE_SIZE \in mapped'
    BY <2>1, <2>2 DEF MappedInv, Known
  <2>4. ~Granted("area")'
    BY <2>2 DEF Granted
  <2>5. \A c \in DOMAIN percpu' : \A a \in Area(c)' : a \div PAGE_SIZE \in mapped'
    BY <2>1 DEF MappedInv, Area
  <2> QED BY <2>3, <2>4, <2>5 DEF MappedInv
<1>5. CASE Serve
  BY <1>5, MappedServe
<1>6. CASE PercpuSet
  <2>1. /\ pc = "area" /\ st = "done" /\ mem' = mem /\ mapped' = mapped
        /\ pc' \in {"halt", "percpu"}
        /\ percpu' = percpu \/ (res # 0 /\ percpu' = Append(percpu, res))
    BY <1>6 DEF PercpuSet, Return, MB!Return, Returned
  <2>2. pc' \in HaveBrk /\ pc \in HaveBrk
    BY <2>1
  <2>3. \A a \in Bytes : Known(a)' => a \div PAGE_SIZE \in mapped'
    BY <2>1, <2>2 DEF MappedInv, Known
  <2>4. ~Granted("area")'
    BY <2>1 DEF Granted
  <2>5. \A c \in DOMAIN percpu' : \A a \in Area(c)' : a \div PAGE_SIZE \in mapped'
    <3>1. CASE percpu' = percpu
      BY <2>1, <3>1 DEF MappedInv, Area
    <3>2. CASE res # 0 /\ percpu' = Append(percpu, res)
      <4>1. \A a \in Range(res, PercpuSize) : a \div PAGE_SIZE \in mapped
        BY <2>1, <3>2 DEF MappedInv, Granted
      <4>2. /\ DOMAIN percpu = 1 .. Len(percpu) /\ Len(percpu) \in Nat
            /\ DOMAIN percpu' = 1 .. Len(percpu) + 1
            /\ \A c \in 1 .. Len(percpu) : percpu'[c] = percpu[c]
            /\ percpu'[Len(percpu) + 1] = res
        BY <3>2 DEF BootType
      <4>3. \A c \in DOMAIN percpu : \A a \in Range(percpu[c], PercpuSize) : a \div PAGE_SIZE \in mapped
        BY DEF MappedInv, Area
      <4>4. ASSUME NEW c \in DOMAIN percpu'
            PROVE  \A a \in Range(percpu'[c], PercpuSize) : a \div PAGE_SIZE \in mapped'
        <5>1. CASE c = Len(percpu) + 1
          BY <2>1, <4>1, <4>2, <5>1
        <5>2. CASE c # Len(percpu) + 1
          <6>1. c \in 1 .. Len(percpu)
            BY <4>2, <5>2
          <6> QED BY <2>1, <4>2, <4>3, <6>1
        <5> QED BY <5>1, <5>2
      <4> QED BY <4>4 DEF Area
    <3> QED BY <2>1, <3>1, <3>2
  <2> QED BY <2>2, <2>3, <2>4, <2>5 DEF MappedInv
<1> QED BY <1>1, <1>2, <1>3, <1>4, <1>5, <1>6 DEF Next

-----------------------------------------------------------------------------
(* The theorems.                                                           *)

\* The invariant holds in every state of every boot, whatever memblock refuses.
THEOREM BootInvariant == Spec => []BootInv
<1>1. Init => BootInv
  <2> SUFFICES ASSUME Init PROVE BootInv
    OBVIOUS
  <2>1. st = "idle" /\ res = 0 /\ full \in BOOLEAN /\ mem = [a \in Bytes |-> MB!Absent]
    BY DEF Init, MB!Init, MB!Bytes, Bytes
  <2>2. mem \in [Bytes -> Cells]
    BY <2>1 DEF Cells
  <2>3. BootType
    BY <2>1, <2>2, BootAssumption DEF Init, BootType, Filling
  <2>4. CallInv
    BY <2>1 DEF Init, CallInv, Waiting
  <2>5. HeldInv
    BY <2>1 DEF Init, HeldInv, KernelHeld, RamdiskHeld, BrkHeld, Granted, Filling, HaveKernel,
       HaveRamdisk, HaveTrampoline, HaveBrk, HavePercpu
  <2>6. TableInv
    <3>1. Len(descs) \in Nat
      BY LayoutAssumption DEF Init
    <3>2. e820 \in Seq(Entries) /\ Len(e820) = 0
      BY DEF Init
    <3> QED BY <3>1, <3>2, BootAssumption DEF Init, TableInv
  <2>7. KnownInv /\ MappedInv
    BY <2>1 DEF Init, KnownInv, Known, Filled, MappedInv, Uniform, Granted, HaveBrk, HavePercpu
  <2> QED BY <2>3, <2>4, <2>5, <2>6, <2>7 DEF BootInv
<1>2. BootInv /\ [Next]_vars => BootInv'
  <2> SUFFICES ASSUME BootInv, [Next]_vars PROVE BootInv'
    OBVIOUS
  <2>1. CASE Next
    BY <2>1, BootTypeStep, CallStep, HeldStep, TableStep, KnownStep, MappedStep DEF BootInv
  <2>2. CASE UNCHANGED vars
    <3>1. UNCHANGED owners /\ UNCHANGED <<mem, st, req, res, full, pc>>
      BY <2>2 DEF vars, memblock, boot, owners
    <3>2. BootType' /\ CallInv'
      BY <3>1 DEF BootInv, BootType, CallInv, owners
    <3>3. HeldInv'
      BY <3>1 DEF BootInv, HeldInv, owners, KernelHeld, RamdiskHeld, BrkHeld, Granted, Held, Taken,
         LowBlock, AreaBlock, RamdiskBytes, BrkUsed, Trampoline, Area
    <3>4. UNCHANGED <<descs, e820, k, idx, mapped>>
      BY <2>2 DEF vars, boot
    <3>5. TableInv'
      BY <3>1, <3>4 DEF BootInv, TableInv, RamAt, Kept
    <3>6. KnownInv'
      BY <3>1, <3>4 DEF BootInv, KnownInv, RamAt, Kept, Known, Filled
    <3>7. MappedInv'
      BY <3>1, <3>4 DEF BootInv, MappedInv, Known, Granted, owners, Area
    <3> QED BY <3>2, <3>3, <3>5, <3>6, <3>7 DEF BootInv
  <2> QED BY <2>1, <2>2
<1> QED BY <1>1, <1>2, PTL DEF Spec

\* The kernel, the page tables in the brk, the ramdisk, the trampoline and the
\* per-CPU areas never share a byte: for every memory map, ramdisk, brk and
\* number of CPUs, and although nobody looks at a refused reservation, because
\* whatever makes memblock refuse one makes it refuse all that follow.
THEOREM OwnersNeverMeet == Spec => []OwnersApart
<1>1. BootInv => OwnersApart
  <2> SUFFICES ASSUME BootInv PROVE OwnersApart
    OBVIOUS
  <2> USE DEF BootInv
  <2>1. Trampoline \cap (Kernel \cup BrkUsed \cup RamdiskBytes) = {}
    <3>1. CASE real_mode = 0
      BY <3>1 DEF Trampoline
    <3>2. CASE real_mode # 0
      <4>1. LowBlock(real_mode) /\ real_mode \in Int /\ brk \in Nat
        BY <3>2 DEF HeldInv, BootType
      <4>2. \A a \in Kernel \cup BrkUsed : a >= SZ_1M
        BY BootAssumption DEF Kernel, BrkUsed, Range
      <4>3. \A a \in Range(real_mode, RealModeSize) : a < SZ_1M
        BY <4>1, BootAssumption DEF LowBlock, Range
      <4>4. \A a \in Kernel \cup BrkUsed : a \in Int
        BY BootAssumption DEF Kernel, BrkUsed, Range
      <4>5. Range(real_mode, RealModeSize) \cap (Kernel \cup BrkUsed) = {}
        BY <4>2, <4>3, <4>4, BootAssumption DEF Range
      <4> QED BY <3>2, <4>1, <4>5 DEF Trampoline, LowBlock
    <3> QED BY <3>1, <3>2
  <2> QED BY <2>1 DEF OwnersApart, HeldInv, AreaBlock, Area
<1> QED BY <1>1, BootInvariant, PTL

\* For every memory map of the firmware, in whatever order and with whatever
\* neighbours: once the table has been read, the allocator knows exactly the
\* memory of the descriptors kept, every per-CPU area is inside the direct
\* mapping and the trampoline is below 1 MiB.
THEOREM FirmwareMemoryKnown == Spec => []MemoryFromFirmware
<1>1. BootInv => MemoryFromFirmware
  <2> SUFFICES ASSUME BootInv PROVE MemoryFromFirmware
    OBVIOUS
  <2> USE DEF BootInv
  <2>1. Filled => {a \in Bytes : mem[a] # MB!Absent} = RamBytes(Kept)
    <3> SUFFICES ASSUME Filled PROVE {a \in Bytes : mem[a] # MB!Absent} = RamBytes(Kept)
      OBVIOUS
    <3>1. \A a \in Bytes : mem[a] # MB!Absent <=> a \in RamBytes(Kept)
      BY DEF KnownInv, Known
    <3>2. RamBytes(Kept) \subseteq Bytes
      BY KeptInside DEF TableInv
    <3> QED BY <3>1, <3>2
  <2>2. \A c \in DOMAIN percpu : \A a \in Area(c) : a \div PAGE_SIZE \in mapped
    BY DEF MappedInv
  <2>3. \A a \in Trampoline : a < SZ_1M
    <3>1. real_mode \in Int /\ (real_mode # 0 => real_mode + RealModeSize <= SZ_1M)
      BY DEF BootType, HeldInv, LowBlock
    <3> QED BY <3>1, BootAssumption DEF Trampoline, Range
  <2> QED BY <2>1, <2>2, <2>3 DEF MemoryFromFirmware
<1> QED BY <1>1, BootInvariant, PTL
=============================================================================
