--------------------------- MODULE EfiBootProofs ---------------------------
(***************************************************************************)
(* Theorems about EfiBoot, for every size of memory, of the kernel and of  *)
(* its alignment, every list of graphics devices and any number of changes *)
(* the firmware makes to its memory.                                       *)
(***************************************************************************)
EXTENDS EfiBoot, TLAPS

-----------------------------------------------------------------------------
(* The inductive invariant.                                                *)

PCs == {"allocate", "head", "tail", "inflate", "locate", "gop", "mode", "free", "size",
        "buffer", "map", "unmap", "leave", "remap", "again", "failed", "exit", "enter",
        "kernel"}

TypeInv ==
    /\ mem \in [Pages -> Types]
    /\ key \in Nat /\ events \in Nat
    /\ phase \in {"boot", "closing", "exited"}
    /\ handles \in Seq(Gops)
    /\ pc \in PCs
    /\ want \in [pages : Nat \ {0}, align : Nat \ {0}, type : {"LOADER_DATA", "LOADER_CODE"}]
    /\ addr \in Nat \cup {NONE}
    /\ boot_params \in Nat \cup {NONE} /\ ukernel_addr \in Nat \cup {NONE}
    /\ gop_handles \in Pages \cup {NONE}
    /\ i \in Nat \ {0}
    /\ memmap.at \in Pages \cup {NONE}
    /\ memmap = [at |-> memmap.at, room |-> memmap.room, map |-> memmap.map, key |-> memmap.key]

\* Which of its allocations the stub has at which step.
HoldsInv ==
    /\ boot_params = NONE <=>
          pc \in {"allocate", "head", "tail", "exit"} /\ want.type = "LOADER_DATA"
    /\ want.type = "LOADER_DATA" => pc \in {"allocate", "head", "tail", "exit"}
    /\ pc \in {"allocate", "head", "tail"} => ukernel_addr = NONE
    /\ pc = "exit" /\ boot_params = NONE => ukernel_addr = NONE
    /\ pc \notin {"allocate", "head", "tail", "exit"} => ukernel_addr # NONE
    /\ pc \in {"head", "tail"} => addr # NONE
    /\ gop_handles # NONE <=> pc \in {"gop", "mode", "free"}
    /\ pc \in {"map", "unmap", "leave", "remap", "again", "enter", "kernel"} => memmap.at # NONE
    /\ memmap.at # NONE =>
          pc \in {"map", "unmap", "leave", "remap", "again", "enter", "kernel", "failed", "exit"}
    /\ want = IF want.type = "LOADER_DATA" THEN Want(PARAMS_PAGES, 1, "LOADER_DATA")
              ELSE Want(KernelPages, KernelAlign, "LOADER_CODE")
    /\ ukernel_addr # NONE => want.type = "LOADER_CODE" /\ ukernel_addr % KernelAlign = 0

\* The pages of efi_allocate_pages while it trims them.
InWork == CASE pc = "head" -> Block(addr, want.pages + Extra)
            [] pc = "tail" -> Block(AlignUp(addr), want.pages + TailPages)
            [] OTHER -> {}

ParamsHeld == IF boot_params = NONE THEN {} ELSE Params
KernelHeld == IF ukernel_addr = NONE THEN {} ELSE Kernel
Buffers == {gop_handles, memmap.at} \ {NONE}

\* The stub owns what it has allocated and no more, by type.
OwnsInv ==
    /\ {p \in Pages : mem[p] = "LOADER_CODE"} =
          KernelHeld \cup (IF want.type = "LOADER_CODE" THEN InWork ELSE {})
    /\ {p \in Pages : mem[p] = "LOADER_DATA"} =
          ParamsHeld \cup Buffers \cup (IF want.type = "LOADER_DATA" THEN InWork ELSE {})
    /\ ParamsHeld \cap Buffers = {}

MemInv == HoldsInv /\ OwnsInv

\* A map key that is not stale came with the map of this moment.
KeyInv ==
    /\ memmap.key = NONE \/ memmap.key \in 0 .. key
    /\ memmap.key = key => memmap.map = mem
    /\ phase = "exited" <=> pc \in {"enter", "kernel"}
    /\ phase = "exited" => memmap.key = key
    /\ phase = "closing" => pc \in {"remap", "again", "failed", "exit"}
    /\ pc \in {"remap", "again"} => phase = "closing"

LateInv ==
    /\ phase = "boot" => late = <<>>
    /\ phase = "exited" => late \in {<<>>, TryAgain}
    /\ phase = "closing" =>
          CASE pc = "remap" -> late = <<>>
            [] pc = "again" -> late = LookAgain
            [] pc = "failed" -> late \in {LookAgain, TryAgain}
            [] OTHER -> late \in {LookAgain \o GiveUp, TryAgain \o GiveUp}
    /\ pc \in {"unmap", "failed", "exit"} => status # SUCCESS

-----------------------------------------------------------------------------
(* The screen.                                                             *)

\* h is the first of the usable devices up to and including n.
FirstUsable(h, n) == /\ h \in 1 .. n /\ Usable(handles[h])
                     /\ \A x \in 1 .. n : Usable(handles[x]) => h <= x
FirstConsole(h) == /\ h \in DOMAIN handles /\ Usable(handles[h]) /\ handles[h].console
                   /\ \A x \in DOMAIN handles : Usable(handles[x]) /\ handles[x].console => h <= x
NoConsole(n) == \A x \in 1 .. n : ~(Usable(handles[x]) /\ handles[x].console)

\* The device efi_find_gop ends with.
Best(h) == FirstConsole(h) \/ (NoConsole(Len(handles)) /\ FirstUsable(h, Len(handles)))

\* What the search has found in the handles before i.
Searched ==
    \/ i = Len(handles) + 1 /\ FirstConsole(gop)
    \/ /\ i <= Len(handles) + 1 /\ NoConsole(i - 1)
       /\ \/ gop = NONE /\ \A x \in 1 .. i - 1 : ~Usable(handles[x])
          \/ FirstUsable(gop, i - 1)

ScreenInv ==
    /\ pc \in {"allocate", "head", "tail", "inflate", "locate", "gop", "mode"} => si = <<>>
    /\ pc \in {"allocate", "head", "tail", "inflate", "locate"} => gop = NONE
    /\ pc \in {"allocate", "head", "tail", "inflate", "locate", "gop", "mode"} =>
          mode = [h \in DOMAIN handles |-> handles[h].mode]
    /\ pc = "gop" => Searched
    /\ pc = "mode" => /\ Best(gop)
                      /\ next_mode \in DOMAIN handles[gop].area
                      /\ Area(next_mode) # NONE
                      /\ i <= Len(handles[gop].area) + 1
                      /\ \A y \in 1 .. i - 1 : Area(y) = NONE \/ Area(next_mode) <= Area(y)
                      /\ i > 0
    /\ pc = "free" /\ si = <<>> => \A x \in DOMAIN handles : ~Usable(handles[x])
    /\ si # <<>> => /\ si = <<si[1], si[2]>>
                    /\ Best(si[1])
                    /\ si[2] = mode[si[1]]
                    /\ Minimal(handles[si[1]], si[2]) \/ si[2] = handles[si[1]].mode

-----------------------------------------------------------------------------
(* Arithmetic.                                                             *)

\* A multiple leaves no rest.
LEMMA MultipleMod == ASSUME NEW q \in Nat, NEW al \in Nat \ {0} PROVE (q * al) % al = 0
OBVIOUS

\* Rounding up: to the address itself, or past it by what the rest lacks.
LEMMA RoundUpIs ==
    ASSUME NEW a \in Nat, NEW al \in Nat \ {0}
    PROVE  /\ ((a + al - 1) \div al) * al \in Nat
           /\ (((a + al - 1) \div al) * al) % al = 0
           /\ a % al \in 0 .. al - 1
           /\ a % al = 0 => ((a + al - 1) \div al) * al = a
           /\ a % al # 0 => ((a + al - 1) \div al) * al = a + al - (a % al)
<1> DEFINE q == a \div al  r == a % al  u == (a + al - 1) \div al
<1>1. q \in Nat /\ r \in 0 .. al - 1 /\ a = q * al + r
  OBVIOUS
<1>2. u \in Nat
  OBVIOUS
<1>3. r = 0 => u = q
  OBVIOUS
<1>4. r # 0 => u = q + 1
  OBVIOUS
<1>5. (u * al) % al = 0
  BY <1>2, MultipleMod
<1> HIDE DEF q, r, u
<1>6. u * al \in Nat /\ (r = 0 => u * al = a) /\ (r # 0 => u * al = a + al - r)
  BY <1>1, <1>2, <1>3, <1>4
<1> QED BY <1>1, <1>5, <1>6 DEF q, r, u

\* The two ends that efi_allocate_pages gives back leave an aligned block.
LEMMA Trimmed ==
    ASSUME TypeInv, addr # NONE
    PROVE  /\ Extra \in Nat /\ Misaligned \in 0 .. Extra /\ TailPages \in 0 .. Extra
           /\ AlignUp(addr) \in Nat /\ AlignUp(addr) % want.align = 0
           /\ AlignUp(addr) = IF Misaligned = 0 THEN addr ELSE addr + (Extra - Misaligned + 1)
           /\ AlignUp(addr) + want.pages + TailPages = addr + want.pages + Extra
<1>1. addr \in Nat /\ want.align \in Nat \ {0} /\ want.pages \in Nat \ {0}
  BY DEF TypeInv
<1> DEFINE al == want.align  r == addr % al  u == ((addr + al - 1) \div al) * al
<1>2. /\ u \in Nat /\ u % al = 0 /\ r \in 0 .. al - 1
      /\ r = 0 => u = addr
      /\ r # 0 => u = addr + al - r
  BY <1>1, RoundUpIs
<1>3. Extra = al - 1 /\ Misaligned = r /\ AlignUp(addr) = u
      /\ TailPages = IF r # 0 THEN r - 1 ELSE al - 1
  BY DEF Extra, Misaligned, AlignUp, TailPages
<1> HIDE DEF r, u
<1> QED BY <1>1, <1>2, <1>3

-----------------------------------------------------------------------------
(* Types.                                                                  *)

\* Memory keeps its type when the firmware takes or frees a block.
LEMMA SetType ==
    ASSUME TypeInv, NEW a, NEW m, NEW t \in Types, Set(a, m, t)
    PROVE  mem' \in [Pages -> Types] /\ key' \in Nat /\ key' = key + 1
BY DEF Set, TypeInv

\* Types are kept by every step.
LEMMA TypeStep == ASSUME TypeInv, HoldsInv, [Next]_vars PROVE TypeInv'
<1> USE DEF TypeInv, PCs
<1>0. Pages \subseteq Nat /\ NONE \notin Nat
  BY DEF Pages, NONE
<1>t. {"CONVENTIONAL", "LOADER_DATA", "LOADER_CODE", "FIRMWARE"} \subseteq Types
  BY DEF Types
<1>1. CASE AllocatePages
  <2>1. CASE Blocks(want.pages + Extra) = {}
    BY <1>1, <2>1 DEF AllocatePages, screen
  <2>2. CASE Blocks(want.pages + Extra) # {}
    <3>1. PICK a \in Blocks(want.pages + Extra) :
             /\ Set(a, want.pages + Extra, want.type)
             /\ addr' = a /\ pc' = "head" /\ UNCHANGED status
      BY <1>1, <2>2 DEF AllocatePages
    <3>2. a \in Nat
      BY <1>0 DEF Blocks
    <3>3. mem' \in [Pages -> Types] /\ key' \in Nat
      BY <3>1, <1>t, SetType
    <3> QED BY <1>1, <3>1, <3>2, <3>3 DEF AllocatePages, screen
  <2> QED BY <2>1, <2>2
<1>2. CASE FreeHead
  <2>1. mem' \in [Pages -> Types] /\ key' \in Nat
    BY <1>2, <1>t, SetType DEF FreeHead
  <2> QED BY <1>2, <2>1 DEF FreeHead, screen
<1>3. CASE FreeTail
  <2>1. mem' \in [Pages -> Types] /\ key' \in Nat
    BY <1>3, <1>t, SetType DEF FreeTail
  <2>2. AlignUp(addr) \in Nat
    BY <1>3, Trimmed DEF HoldsInv, FreeTail
  <2>3. want' \in [pages : Nat \ {0}, align : Nat \ {0}, type : {"LOADER_DATA", "LOADER_CODE"}]
    BY <1>3, EfiBootAssumption DEF FreeTail, Want
  <2> QED BY <1>3, <2>1, <2>2, <2>3 DEF FreeTail, screen
<1>4. CASE LocateHandleBuffer
  <2>1. CASE handles = <<>> \/ Blocks(1) = {}
    BY <1>4, <2>1 DEF LocateHandleBuffer
  <2>2. CASE ~(handles = <<>> \/ Blocks(1) = {})
    <3>1. PICK a \in Blocks(1) : /\ Set(a, 1, "LOADER_DATA")
                                 /\ gop_handles' = a
                                 /\ i' = 1 /\ pc' = "gop"
      BY <1>4, <2>2 DEF LocateHandleBuffer
    <3>2. a \in Pages
      BY DEF Blocks
    <3>3. mem' \in [Pages -> Types] /\ key' \in Nat
      BY <3>1, <1>t, SetType
    <3> QED BY <1>4, <3>1, <3>2, <3>3 DEF LocateHandleBuffer
  <2> QED BY <2>1, <2>2
<1>5. CASE FreeHandles
  <2>1. mem' \in [Pages -> Types] /\ key' \in Nat
    BY <1>5, <1>t, SetType DEF FreeHandles
  <2> QED BY <1>5, <2>1 DEF FreeHandles
<1>6. CASE MapBuffer
  <2>1. CASE Blocks(1) = {}
    BY <1>6, <2>1 DEF MapBuffer, screen
  <2>2. CASE Blocks(1) # {}
    <3>1. PICK a \in Blocks(1) : /\ Set(a, 1, "LOADER_DATA")
                                 /\ memmap' = [memmap EXCEPT !.at = a]
                                 /\ pc' = "map" /\ UNCHANGED status
      BY <1>6, <2>2 DEF MapBuffer
    <3>2. a \in Pages
      BY DEF Blocks
    <3>3. mem' \in [Pages -> Types] /\ key' \in Nat
      BY <3>1, <1>t, SetType
    <3> QED BY <1>6, <3>1, <3>2, <3>3 DEF MapBuffer, screen
  <2> QED BY <2>1, <2>2
<1>7. CASE FreeMap
  <2>1. mem' \in [Pages -> Types] /\ key' \in Nat
    BY <1>7, <1>t, SetType DEF FreeMap
  <2> QED BY <1>7, <2>1 DEF FreeMap, NoMap, screen
<1>8. CASE Event
  <2>1. mem' \in [Pages -> Types] /\ key' \in Nat
    BY <1>8, <1>t, SetType DEF Event
  <2> QED BY <1>8, <2>1, EfiBootAssumption DEF Event, screen
<1>9. CASE MapSize \/ GetMap \/ GetMapAgain
  BY <1>9 DEF MapSize, GetMap, GetMapAgain, Read, RemapFailed, firmware, screen
<1>10. CASE FindGop \/ FindGopDone \/ QueryMode \/ SetMode
  BY <1>10 DEF FindGop, FindGopDone, QueryMode, SetMode, firmware
<1>11. CASE ExitBootServices \/ ExitBootServicesAgain
  BY <1>11 DEF ExitBootServices, ExitBootServicesAgain, Exited, screen
<1>12. CASE Decompress \/ Failed \/ enter_kernel
  BY <1>12 DEF Decompress, Failed, enter_kernel, firmware, screen
<1>13. CASE UNCHANGED vars
  BY <1>13 DEF vars, firmware, screen
<1> QED BY <1>1, <1>2, <1>3, <1>4, <1>5, <1>6, <1>7, <1>8, <1>9, <1>10, <1>11, <1>12, <1>13
        DEF Next, Step

-----------------------------------------------------------------------------
(* Which memory is the stub's.                                             *)

\* Steps keep the correspondence between the program counter and what is held.
LEMMA HoldsStep == ASSUME TypeInv, HoldsInv, [Next]_vars PROVE HoldsInv'
<1> USE DEF HoldsInv
<1>0. \A p \in Nat \cup Pages : p # NONE
  BY DEF Pages, NONE
<1>w. want.pages \in Nat \ {0} /\ want.align \in Nat \ {0}
      /\ want.type \in {"LOADER_DATA", "LOADER_CODE"} /\ pc \in PCs
  BY DEF TypeInv
<1>1. CASE AllocatePages
  <2>1. CASE Blocks(want.pages + Extra) = {}
    BY <1>1, <2>1 DEF AllocatePages, screen
  <2>2. CASE Blocks(want.pages + Extra) # {}
    <3>1. addr' \in Pages /\ pc' = "head"
      BY <1>1, <2>2 DEF AllocatePages, Blocks
    <3> QED BY <1>1, <3>1, <1>0 DEF AllocatePages, screen
  <2> QED BY <2>1, <2>2
<1>2. CASE FreeHead
  BY <1>2 DEF FreeHead, screen
<1>3. CASE FreeTail
  <2>1. AlignUp(addr) \in Nat /\ AlignUp(addr) % want.align = 0
    BY <1>3, Trimmed DEF FreeTail
  <2>2. CASE boot_params = NONE
    BY <1>3, <2>1, <2>2, <1>0 DEF FreeTail, screen, Want
  <2>3. CASE boot_params # NONE
    <3>1. want = Want(KernelPages, KernelAlign, "LOADER_CODE") /\ want.align = KernelAlign
      BY <1>3, <2>3, <1>w DEF FreeTail, Want
    <3>2. /\ ukernel_addr' = AlignUp(addr) /\ pc' = "inflate" /\ want' = want
          /\ boot_params' = boot_params /\ addr' = addr /\ gop_handles' = gop_handles
          /\ memmap' = memmap
      BY <1>3, <2>3 DEF FreeTail, screen
    <3> QED BY <1>3, <3>1, <3>2, <2>1, <2>3, <1>0 DEF FreeTail, Want
  <2> QED BY <2>2, <2>3
<1>4. CASE LocateHandleBuffer
  <2>1. CASE handles = <<>> \/ Blocks(1) = {}
    BY <1>4, <2>1 DEF LocateHandleBuffer
  <2>2. CASE ~(handles = <<>> \/ Blocks(1) = {})
    <3>1. gop_handles' \in Pages /\ pc' = "gop"
      BY <1>4, <2>2 DEF LocateHandleBuffer, Blocks
    <3> QED BY <1>4, <3>1, <1>0 DEF LocateHandleBuffer
  <2> QED BY <2>1, <2>2
<1>5. CASE FreeHandles
  BY <1>5 DEF FreeHandles
<1>6. CASE MapBuffer
  <2>1. CASE Blocks(1) = {}
    BY <1>6, <2>1 DEF MapBuffer, screen
  <2>2. CASE Blocks(1) # {}
    <3>1. PICK a \in Blocks(1) : memmap' = [memmap EXCEPT !.at = a] /\ pc' = "map"
      BY <1>6, <2>2 DEF MapBuffer
    <3>2. memmap'.at = a /\ a \in Pages
      BY <3>1 DEF Blocks, TypeInv
    <3> QED BY <1>6, <3>1, <3>2, <1>0 DEF MapBuffer, screen
  <2> QED BY <2>1, <2>2
<1>7. CASE FreeMap
  BY <1>7 DEF FreeMap, NoMap, screen
<1>8. CASE Event
  BY <1>8 DEF Event, screen
<1>9. CASE MapSize \/ GetMap \/ GetMapAgain
  <2>1. memmap'.at = memmap.at
    BY <1>9 DEF MapSize, GetMap, GetMapAgain, Read, TypeInv
  <2> QED BY <1>9, <2>1 DEF MapSize, GetMap, GetMapAgain, RemapFailed, firmware, screen
<1>10. CASE FindGop \/ FindGopDone \/ QueryMode \/ SetMode
  BY <1>10 DEF FindGop, FindGopDone, QueryMode, SetMode, firmware
<1>11. CASE ExitBootServices \/ ExitBootServicesAgain
  BY <1>11 DEF ExitBootServices, ExitBootServicesAgain, Exited, screen
<1>12. CASE Decompress \/ Failed \/ enter_kernel
  BY <1>12 DEF Decompress, Failed, enter_kernel, firmware, screen
<1>13. CASE UNCHANGED vars
  BY <1>13 DEF vars, firmware, screen
<1> QED BY <1>1, <1>2, <1>3, <1>4, <1>5, <1>6, <1>7, <1>8, <1>9, <1>10, <1>11, <1>12, <1>13
        DEF Next, Step

\* The pages of a type after the firmware has taken or freed a block.
LEMMA SetOf ==
    ASSUME TypeInv, NEW a, NEW m, NEW t, Set(a, m, t), NEW x
    PROVE  {p \in Pages : mem'[p] = x} =
              IF x = t THEN {p \in Pages : mem[p] = x} \cup (Block(a, m) \cap Pages)
              ELSE {p \in Pages : mem[p] = x} \ Block(a, m)
BY DEF Set, TypeInv

\* A block that is free belongs to nobody.
LEMMA FreeOf ==
    ASSUME NEW a, NEW m, Free(a, m), NEW x \in {"LOADER_DATA", "LOADER_CODE"}
    PROVE  {p \in Pages : mem[p] = x} \ Block(a, m) = {p \in Pages : mem[p] = x}
           /\ Block(a, m) \cap Pages = Block(a, m)
           /\ {p \in Pages : mem[p] = x} \cap Block(a, m) = {}
BY DEF Free

\* Nothing changes hands in a step that leaves memory alone.
LEMMA OwnsFrame ==
    ASSUME OwnsInv, UNCHANGED <<mem, want, boot_params, ukernel_addr, gop_handles>>,
           memmap'.at = memmap.at,
           pc \notin {"head", "tail"}, pc' \notin {"head", "tail"}
    PROVE  OwnsInv'
BY DEF OwnsInv, ParamsHeld, KernelHeld, Buffers, InWork, Params, Kernel, Block

\* A block of one page is that page.
LEMMA OnePage == ASSUME NEW a \in Int PROVE Block(a, 1) = {a}
BY DEF Block

\* Every step leaves the stub with what it has allocated.
LEMMA OwnsStep == ASSUME TypeInv, HoldsInv, OwnsInv, [Next]_vars PROVE OwnsInv'
<1>0. Pages \subseteq Int /\ Pages \subseteq Nat /\ NONE \notin Nat
  BY DEF Pages, NONE
<1>w. want.pages \in Nat \ {0} /\ want.align \in Nat \ {0}
      /\ want.type \in {"LOADER_DATA", "LOADER_CODE"}
  BY DEF TypeInv
<1>1. CASE AllocatePages
  <2>1. CASE Blocks(want.pages + Extra) = {}
    BY <1>1, <2>1, OwnsFrame DEF AllocatePages, screen
  <2>2. CASE Blocks(want.pages + Extra) # {}
    <3> DEFINE m == want.pages + Extra
    <3>1. PICK a \in Blocks(m) : Set(a, m, want.type) /\ addr' = a /\ pc' = "head"
      BY <1>1, <2>2 DEF AllocatePages
    <3>2. Free(a, m) /\ a \in Pages
      BY DEF Blocks
    <3> HIDE DEF m
    <3>3. /\ pc = "allocate" /\ pc' = "head" /\ want' = want /\ boot_params' = boot_params
          /\ ukernel_addr' = ukernel_addr /\ gop_handles' = gop_handles /\ memmap' = memmap
      BY <1>1, <3>1 DEF AllocatePages, screen
    <3>4. InWork = {} /\ InWork' = Block(a, m)
      BY <3>3, <3>1 DEF InWork, m, Extra
    <3>5. /\ ParamsHeld' = ParamsHeld /\ KernelHeld' = KernelHeld /\ Buffers' = Buffers
      BY <3>3 DEF ParamsHeld, KernelHeld, Buffers, Params, Kernel
    <3>6. ASSUME NEW x \in {"LOADER_DATA", "LOADER_CODE"}
          PROVE  {p \in Pages : mem'[p] = x} =
                   IF x = want.type THEN {p \in Pages : mem[p] = x} \cup Block(a, m)
                   ELSE {p \in Pages : mem[p] = x}
      BY <3>1, <3>2, SetOf, FreeOf
    <3> QED BY <3>3, <3>4, <3>5, <3>6, <1>w DEF OwnsInv
  <2> QED BY <2>1, <2>2
<1>2. CASE FreeHead
  <2>1. /\ pc = "head" /\ pc' = "tail" /\ want' = want /\ boot_params' = boot_params
        /\ ukernel_addr' = ukernel_addr /\ gop_handles' = gop_handles /\ memmap' = memmap
        /\ addr' = addr
    BY <1>2 DEF FreeHead, screen
  <2>2. ParamsHeld' = ParamsHeld /\ KernelHeld' = KernelHeld /\ Buffers' = Buffers
    BY <2>1 DEF ParamsHeld, KernelHeld, Buffers, Params, Kernel
  <2>3. addr # NONE /\ addr \in Nat
    BY <2>1 DEF HoldsInv, TypeInv
  <2>4. /\ Extra \in Nat /\ Misaligned \in 0 .. Extra /\ TailPages \in 0 .. Extra
        /\ AlignUp(addr) \in Nat
        /\ AlignUp(addr) = IF Misaligned = 0 THEN addr ELSE addr + (Extra - Misaligned + 1)
        /\ AlignUp(addr) + want.pages + TailPages = addr + want.pages + Extra
    BY <2>3, Trimmed
  <2> DEFINE head == Block(addr, Extra - Misaligned + 1)
  <2>5. InWork = Block(addr, want.pages + Extra)
    BY <2>1 DEF InWork
  <2>6. InWork' = Block(AlignUp(addr), want.pages + TailPages)
    BY <2>1 DEF InWork, AlignUp, TailPages, Extra, Misaligned
  <2>7. InWork' = IF Misaligned = 0 THEN InWork ELSE InWork \ head
    <3>1. CASE Misaligned = 0
      <4>1. want.pages + TailPages = want.pages + Extra
        BY <3>1, <2>4, <2>3, <1>w
      <4> QED BY <3>1, <4>1, <2>4, <2>5, <2>6
    <3>2. CASE Misaligned # 0
      <4> DEFINE up == AlignUp(addr)  x == Extra - Misaligned + 1
                 low == want.pages + Extra  high == want.pages + TailPages
      <4>1. /\ up = addr + x /\ x \in Nat /\ low \in Nat /\ high \in Nat /\ up \in Nat
            /\ up + high = addr + low
        BY <3>2, <2>4, <2>3, <1>w
      <4> HIDE DEF up, x, low, high
      <4>2. Block(up, high) = Block(addr, low) \ Block(addr, x)
        BY <4>1, <2>3 DEF Block
      <4> QED BY <4>2, <3>2, <2>5, <2>6 DEF up, x, low, high
    <3> QED BY <3>1, <3>2
  <2>8. Misaligned # 0 => head \subseteq InWork
    BY <2>4, <2>5, <1>w, <2>3 DEF Block
  <2>10. KernelHeld = {} /\ Buffers = {} /\ (want.type = "LOADER_DATA" => ParamsHeld = {})
    BY <2>1, <1>w DEF KernelHeld, Buffers, ParamsHeld, HoldsInv
  <2>11. CASE Misaligned # 0
    <3>1. Set(addr, Extra - Misaligned + 1, "CONVENTIONAL")
      BY <1>2, <2>11 DEF FreeHead
    <3>2. ASSUME NEW x \in {"LOADER_DATA", "LOADER_CODE"}
          PROVE  {p \in Pages : mem'[p] = x} = {p \in Pages : mem[p] = x} \ head
      BY <3>1, SetOf
    <3>3. {p \in Pages : mem[p] = "LOADER_CODE"} \cap {p \in Pages : mem[p] = "LOADER_DATA"} = {}
      OBVIOUS
    <3> HIDE DEF head
    <3> QED BY <3>2, <3>3, <2>1, <2>2, <2>7, <2>8, <2>10, <2>11, <1>w DEF OwnsInv
  <2>12. CASE Misaligned = 0
    <3>1. mem' = mem
      BY <1>2, <2>12 DEF FreeHead
    <3> QED BY <3>1, <2>1, <2>2, <2>7, <2>12 DEF OwnsInv
  <2> QED BY <2>11, <2>12
<1>3. CASE FreeTail
  <2>1. /\ pc = "tail" /\ pc' \in {"allocate", "inflate"}
        /\ gop_handles' = gop_handles /\ memmap' = memmap /\ addr' = addr
    BY <1>3 DEF FreeTail, screen
  <2>3. addr # NONE /\ addr \in Nat
    BY <2>1 DEF HoldsInv, TypeInv
  <2>4. AlignUp(addr) \in Nat /\ TailPages \in Nat
    BY <2>3, Trimmed
  <2> DEFINE tail == Block(AlignUp(addr) + want.pages, TailPages)
             kept == Block(AlignUp(addr), want.pages)
  <2>5. InWork = Block(AlignUp(addr), want.pages + TailPages) /\ InWork' = {}
    BY <2>1 DEF InWork
  <2>6. InWork = kept \cup tail /\ kept \cap tail = {} /\ (TailPages = 0 => tail = {})
    BY <2>5, <2>4, <1>w DEF Block
  <2>7. ASSUME NEW x \in {"LOADER_DATA", "LOADER_CODE"}
        PROVE  {p \in Pages : mem'[p] = x} = {p \in Pages : mem[p] = x} \ tail
    <3>1. CASE TailPages > 0
      <4>1. Set(AlignUp(addr) + want.pages, TailPages, "CONVENTIONAL")
        BY <1>3, <3>1 DEF FreeTail
      <4> QED BY <4>1, SetOf
    <3>2. CASE ~(TailPages > 0)
      <4>1. mem' = mem /\ tail = {}
        BY <1>3, <3>2, <2>4, <2>6 DEF FreeTail
      <4> HIDE DEF tail
      <4> QED BY <4>1
    <3> QED BY <3>1, <3>2
  <2>8. KernelHeld = {} /\ Buffers = {} /\ Buffers' = {} /\ ukernel_addr = NONE
    BY <2>1, <1>w DEF KernelHeld, Buffers, HoldsInv
  <2>9. CASE boot_params = NONE
    <3>1. /\ want.type = "LOADER_DATA" /\ want.pages = PARAMS_PAGES
          /\ boot_params' = AlignUp(addr) /\ ukernel_addr' = NONE
      BY <1>3, <2>9, <2>8, <2>1, <1>w DEF HoldsInv, FreeTail, Want
    <3>2. ParamsHeld' = kept /\ KernelHeld' = {} /\ ParamsHeld = {}
      BY <3>1, <2>4, <1>0, <2>9 DEF ParamsHeld, KernelHeld, Params, Block
    <3> HIDE DEF tail, kept
    <3> QED BY <3>1, <3>2, <2>5, <2>6, <2>7, <2>8 DEF OwnsInv
  <2>10. CASE boot_params # NONE
    <3>1. /\ want.type = "LOADER_CODE" /\ want.pages = KernelPages /\ want' = want
          /\ ukernel_addr' = AlignUp(addr) /\ boot_params' = boot_params
      BY <1>3, <2>10, <2>1, <1>w DEF HoldsInv, FreeTail, Want
    <3>2. KernelHeld' = kept /\ ParamsHeld' = ParamsHeld
      BY <3>1, <2>4, <1>0, <2>10 DEF ParamsHeld, KernelHeld, Params, Kernel, Block
    <3>3. {p \in Pages : mem[p] = "LOADER_CODE"} \cap {p \in Pages : mem[p] = "LOADER_DATA"} = {}
      OBVIOUS
    <3> HIDE DEF tail, kept
    <3> QED BY <3>1, <3>2, <3>3, <2>5, <2>6, <2>7, <2>8 DEF OwnsInv
  <2> QED BY <2>9, <2>10
<1>4. CASE LocateHandleBuffer
  <2>1. CASE handles = <<>> \/ Blocks(1) = {}
    BY <1>4, <2>1, OwnsFrame DEF LocateHandleBuffer
  <2>2. CASE ~(handles = <<>> \/ Blocks(1) = {})
    <3>1. PICK a \in Blocks(1) : Set(a, 1, "LOADER_DATA") /\ gop_handles' = a /\ pc' = "gop"
      BY <1>4, <2>2 DEF LocateHandleBuffer
    <3>2. /\ pc = "locate" /\ want' = want /\ boot_params' = boot_params
          /\ ukernel_addr' = ukernel_addr /\ memmap' = memmap
      BY <1>4 DEF LocateHandleBuffer
    <3>3. InWork = {} /\ InWork' = {}
      BY <3>1, <3>2 DEF InWork
    <3>4. ParamsHeld' = ParamsHeld /\ KernelHeld' = KernelHeld
      BY <3>2 DEF ParamsHeld, KernelHeld, Params, Kernel
    <3>5. a \in Pages /\ Free(a, 1) /\ Block(a, 1) = {a} /\ a # NONE
      BY <1>0, OnePage DEF Blocks
    <3>6. Buffers = {} /\ Buffers' = {a}
      BY <3>1, <3>2, <3>5 DEF Buffers, HoldsInv
    <3>7. ASSUME NEW x \in {"LOADER_DATA", "LOADER_CODE"}
          PROVE  {p \in Pages : mem'[p] = x} =
                   IF x = "LOADER_DATA" THEN {p \in Pages : mem[p] = x} \cup {a}
                   ELSE {p \in Pages : mem[p] = x}
      BY <3>1, <3>5, SetOf, FreeOf
    <3>8. {p \in Pages : mem[p] = "LOADER_DATA"} \cap {a} = {}
      BY <3>5, FreeOf
    <3> QED BY <3>2, <3>3, <3>4, <3>6, <3>7, <3>8 DEF OwnsInv
  <2> QED BY <2>1, <2>2
<1>5. CASE FreeHandles
  <2>1. /\ pc = "free" /\ pc' = "size" /\ want' = want /\ boot_params' = boot_params
        /\ ukernel_addr' = ukernel_addr /\ memmap' = memmap /\ gop_handles' = NONE
        /\ Set(gop_handles, 1, "CONVENTIONAL")
    BY <1>5 DEF FreeHandles
  <2>2. InWork = {} /\ InWork' = {}
    BY <2>1 DEF InWork
  <2>3. ParamsHeld' = ParamsHeld /\ KernelHeld' = KernelHeld
    BY <2>1 DEF ParamsHeld, KernelHeld, Params, Kernel
  <2>4. gop_handles \in Int /\ Block(gop_handles, 1) = {gop_handles}
    BY OnePage, <1>0 DEF TypeInv, NONE
  <2>5. Buffers = {gop_handles} /\ Buffers' = {}
    BY <2>1 DEF Buffers, HoldsInv
  <2>6. ASSUME NEW x \in {"LOADER_DATA", "LOADER_CODE"}
        PROVE  {p \in Pages : mem'[p] = x} = {p \in Pages : mem[p] = x} \ {gop_handles}
    BY <2>1, <2>4, SetOf
  <2>7. {p \in Pages : mem[p] = "LOADER_CODE"} \cap {p \in Pages : mem[p] = "LOADER_DATA"} = {}
    OBVIOUS
  <2> QED BY <2>1, <2>2, <2>3, <2>5, <2>6, <2>7 DEF OwnsInv
<1>6. CASE MapBuffer
  <2>1. CASE Blocks(1) = {}
    BY <1>6, <2>1, OwnsFrame DEF MapBuffer, screen
  <2>2. CASE Blocks(1) # {}
    <3>1. PICK a \in Blocks(1) : /\ Set(a, 1, "LOADER_DATA")
                                 /\ memmap' = [memmap EXCEPT !.at = a] /\ pc' = "map"
      BY <1>6, <2>2 DEF MapBuffer
    <3>2. /\ pc = "buffer" /\ want' = want /\ boot_params' = boot_params
          /\ ukernel_addr' = ukernel_addr /\ gop_handles' = gop_handles /\ memmap'.at = a
      BY <1>6, <3>1 DEF MapBuffer, screen, TypeInv
    <3>3. InWork = {} /\ InWork' = {}
      BY <3>1, <3>2 DEF InWork
    <3>4. ParamsHeld' = ParamsHeld /\ KernelHeld' = KernelHeld
      BY <3>2 DEF ParamsHeld, KernelHeld, Params, Kernel
    <3>5. a \in Pages /\ Free(a, 1) /\ Block(a, 1) = {a} /\ a # NONE
      BY <1>0, OnePage DEF Blocks
    <3>6. Buffers = {} /\ Buffers' = {a}
      BY <3>1, <3>2, <3>5 DEF Buffers, HoldsInv
    <3>7. ASSUME NEW x \in {"LOADER_DATA", "LOADER_CODE"}
          PROVE  {p \in Pages : mem'[p] = x} =
                   IF x = "LOADER_DATA" THEN {p \in Pages : mem[p] = x} \cup {a}
                   ELSE {p \in Pages : mem[p] = x}
      BY <3>1, <3>5, SetOf, FreeOf
    <3>8. {p \in Pages : mem[p] = "LOADER_DATA"} \cap {a} = {}
      BY <3>5, FreeOf
    <3> QED BY <3>2, <3>3, <3>4, <3>6, <3>7, <3>8 DEF OwnsInv
  <2> QED BY <2>1, <2>2
<1>7. CASE FreeMap
  <2>1. /\ pc = "unmap" /\ pc' = "failed" /\ want' = want /\ boot_params' = boot_params
        /\ ukernel_addr' = ukernel_addr /\ gop_handles' = gop_handles /\ memmap'.at = NONE
        /\ Set(memmap.at, 1, "CONVENTIONAL")
    BY <1>7 DEF FreeMap, screen, NoMap
  <2>2. InWork = {} /\ InWork' = {}
    BY <2>1 DEF InWork
  <2>3. ParamsHeld' = ParamsHeld /\ KernelHeld' = KernelHeld
    BY <2>1 DEF ParamsHeld, KernelHeld, Params, Kernel
  <2>4. memmap.at \in Int /\ Block(memmap.at, 1) = {memmap.at}
    BY OnePage, <1>0 DEF TypeInv, NONE
  <2>5. Buffers = {memmap.at} /\ Buffers' = {}
    BY <2>1 DEF Buffers, HoldsInv
  <2>6. ASSUME NEW x \in {"LOADER_DATA", "LOADER_CODE"}
        PROVE  {p \in Pages : mem'[p] = x} = {p \in Pages : mem[p] = x} \ {memmap.at}
    BY <2>1, <2>4, SetOf
  <2>7. {p \in Pages : mem[p] = "LOADER_CODE"} \cap {p \in Pages : mem[p] = "LOADER_DATA"} = {}
    OBVIOUS
  <2> QED BY <2>1, <2>2, <2>3, <2>5, <2>6, <2>7 DEF OwnsInv
<1>8. CASE Event
  <2>1. ASSUME NEW x \in {"LOADER_DATA", "LOADER_CODE"}
        PROVE  {p \in Pages : mem'[p] = x} = {p \in Pages : mem[p] = x}
    <3>1. PICK p \in Pages : /\ mem[p] \in {"CONVENTIONAL", "FIRMWARE"}
                             /\ \/ Set(p, 1, "FIRMWARE")
                                \/ Set(p, 1, "CONVENTIONAL")
      BY <1>8 DEF Event
    <3>2. Block(p, 1) = {p}
      BY <1>0, OnePage
    <3>3. {q \in Pages : mem'[q] = x} = {q \in Pages : mem[q] = x} \ {p}
      BY <3>1, <3>2, SetOf
    <3> QED BY <3>1, <3>3
  <2>2. UNCHANGED <<pc, want, addr, boot_params, ukernel_addr, gop_handles, memmap>>
    BY <1>8 DEF Event, screen
  <2>3. /\ ParamsHeld' = ParamsHeld /\ KernelHeld' = KernelHeld
        /\ Buffers' = Buffers /\ InWork' = InWork
    BY <2>2 DEF ParamsHeld, KernelHeld, Params, Kernel, Buffers, InWork, AlignUp, TailPages,
                Extra, Misaligned
  <2> QED BY <2>1, <2>2, <2>3 DEF OwnsInv
<1>9. CASE MapSize \/ GetMap \/ GetMapAgain
  <2>1. memmap'.at = memmap.at
    BY <1>9 DEF MapSize, GetMap, GetMapAgain, Read, TypeInv
  <2> QED BY <1>9, <2>1, OwnsFrame
          DEF MapSize, GetMap, GetMapAgain, RemapFailed, firmware, screen
<1>10. CASE FindGop \/ FindGopDone \/ QueryMode \/ SetMode
  BY <1>10, OwnsFrame DEF FindGop, FindGopDone, QueryMode, SetMode, firmware
<1>11. CASE ExitBootServices \/ ExitBootServicesAgain
  BY <1>11, OwnsFrame DEF ExitBootServices, ExitBootServicesAgain, Exited, screen
<1>12. CASE Decompress \/ Failed \/ enter_kernel
  BY <1>12, OwnsFrame DEF Decompress, Failed, enter_kernel, firmware, screen
<1>13. CASE UNCHANGED vars
  <2>1. UNCHANGED <<mem, pc, want, addr, boot_params, ukernel_addr, gop_handles, memmap>>
    BY <1>13 DEF vars, firmware, screen
  <2>3. /\ ParamsHeld' = ParamsHeld /\ KernelHeld' = KernelHeld
        /\ Buffers' = Buffers /\ InWork' = InWork
    BY <2>1 DEF ParamsHeld, KernelHeld, Params, Kernel, Buffers, InWork, AlignUp, TailPages,
                Extra, Misaligned
  <2> QED BY <2>1, <2>3 DEF OwnsInv
<1> QED BY <1>1, <1>2, <1>3, <1>4, <1>5, <1>6, <1>7, <1>8, <1>9, <1>10, <1>11, <1>12, <1>13
        DEF Next, Step

-----------------------------------------------------------------------------
(* Map keys and the moment the firmware lets go.                           *)

\* Memory does not change without the key.
LEMMA KeyStep == ASSUME TypeInv, HoldsInv, KeyInv, [Next]_vars PROVE KeyInv'
<1> USE DEF KeyInv
<1>0. key \in Nat /\ pc \in PCs /\ NONE \notin Nat
  BY DEF TypeInv, NONE
<1>1. ASSUME key' = key + 1, memmap'.key = memmap.key, phase' = phase,
             pc \notin {"enter", "kernel", "remap", "again"},
             pc' \notin {"enter", "kernel", "remap", "again"}, phase = "closing" => pc' = pc
      PROVE  KeyInv'
  <2>1. memmap.key # key + 1
    BY <1>0
  <2> QED BY <1>1, <2>1, <1>0
<1>2. CASE AllocatePages
  BY <1>2, <1>0, <1>1 DEF AllocatePages, Set
<1>3. CASE FreeHead \/ FreeTail
  BY <1>3, <1>0, <1>1 DEF FreeHead, FreeTail, Set
<1>4. CASE LocateHandleBuffer
  BY <1>4, <1>0, <1>1 DEF LocateHandleBuffer, Set
<1>5. CASE FreeHandles
  BY <1>5, <1>0, <1>1 DEF FreeHandles, Set
<1>6. CASE MapBuffer
  <2>1. memmap'.key = memmap.key
    BY <1>6 DEF MapBuffer, TypeInv
  <2> QED BY <1>6, <2>1, <1>0, <1>1 DEF MapBuffer, Set
<1>7. CASE FreeMap
  <2>1. phase = "boot" /\ key' = key + 1 /\ memmap'.key = NONE /\ pc' = "failed" /\ phase' = phase
    BY <1>7 DEF FreeMap, Set, NoMap, TypeInv
  <2> QED BY <2>1, <1>0 DEF NONE
<1>8. CASE Event
  <2>1. key' = key + 1
    BY <1>8 DEF Event, Set
  <2> QED BY <1>8, <2>1, <1>0, <1>1 DEF Event
<1>9. CASE MapSize
  <2>1. memmap'.key = memmap.key /\ memmap'.map = memmap.map
    BY <1>9 DEF MapSize, TypeInv
  <2> QED BY <1>9, <2>1 DEF MapSize, firmware
<1>10. CASE GetMap \/ GetMapAgain
  <2>1. CASE Read
    <3>1. memmap'.key = key /\ memmap'.map = mem
      BY <2>1 DEF Read, TypeInv
    <3> QED BY <1>10, <3>1, <1>0 DEF GetMap, GetMapAgain, RemapFailed, firmware
  <2>2. CASE ~Read
    BY <1>10, <2>2 DEF GetMap, GetMapAgain, RemapFailed, firmware
  <2> QED BY <2>1, <2>2
<1>11. CASE ExitBootServices \/ ExitBootServicesAgain
  BY <1>11 DEF ExitBootServices, ExitBootServicesAgain, Exited
<1>12. CASE FindGop \/ FindGopDone \/ QueryMode \/ SetMode
  BY <1>12 DEF FindGop, FindGopDone, QueryMode, SetMode, firmware
<1>13. CASE Decompress \/ Failed \/ enter_kernel
  BY <1>13 DEF Decompress, Failed, enter_kernel, firmware
<1>14. CASE UNCHANGED vars
  BY <1>14 DEF vars, firmware
<1> QED BY <1>2, <1>3, <1>4, <1>5, <1>6, <1>7, <1>8, <1>9, <1>10, <1>11, <1>12, <1>13, <1>14
        DEF Next, Step

\* What the second try, and giving up, add to the services called.
LEMMA LateSequences ==
    /\ Append(<<>>, "get_memory_map") = LookAgain
    /\ Append(LookAgain, "exit_boot_services") = TryAgain
    /\ <<"output_string", "exit">> = GiveUp
  BY DEF LookAgain, TryAgain, GiveUp

\* After ExitBootServices was first called the stub calls little, and after it
\* succeeded nothing.
LEMMA LateStep == ASSUME TypeInv, KeyInv, LateInv, [Next]_vars PROVE LateInv'
<1>0. phase \in {"boot", "closing", "exited"}
  BY DEF TypeInv
<1>1. CASE AllocatePages \/ Decompress \/ MapBuffer \/ GetMap
  <2>1. phase = "boot" /\ phase' = phase /\ late' = late
    BY <1>1, <1>0 DEF KeyInv, Service, AllocatePages, Decompress, MapBuffer, GetMap, firmware
  <2>2. status' # SUCCESS \/ pc' \notin {"unmap", "failed", "exit"}
    BY <1>1 DEF AllocatePages, Decompress, MapBuffer, GetMap, SUCCESS, OUT_OF_RESOURCES,
       LOAD_ERROR, BUFFER_TOO_SMALL
  <2> QED BY <2>1, <2>2 DEF LateInv
<1>2. CASE FreeHead \/ FreeTail \/ LocateHandleBuffer \/ FindGop \/ FreeHandles \/ MapSize
           \/ FindGopDone \/ QueryMode \/ SetMode
  <2>1. phase = "boot" /\ phase' = phase /\ late' = late
    BY <1>2, <1>0 DEF KeyInv, Service, FreeHead, FreeTail, LocateHandleBuffer, FindGop,
       FreeHandles, MapSize, FindGopDone, QueryMode, SetMode, firmware
  <2>2. pc' \notin {"unmap", "failed", "exit"}
    BY <1>2 DEF FreeHead, FreeTail, LocateHandleBuffer, FindGop, FreeHandles, MapSize,
       FindGopDone, QueryMode, SetMode
  <2> QED BY <2>1, <2>2 DEF LateInv
<1>3. CASE FreeMap
  <2>1. phase = "boot" /\ phase' = phase /\ late' = late /\ pc = "unmap" /\ status' = status
    BY <1>3, <1>0 DEF KeyInv, Service, FreeMap, firmware
  <2> QED BY <2>1 DEF LateInv
<1>4. CASE GetMapAgain
  <2>1. phase = "closing" /\ phase' = phase /\ pc = "remap"
    BY <1>4 DEF GetMapAgain, KeyInv, firmware
  <2>2. late' = LookAgain
    BY <2>1, <1>4, LateSequences DEF GetMapAgain, Service, LateInv
  <2>3. pc' = "again" \/ (pc' = "failed" /\ status' # SUCCESS)
    BY <1>4 DEF GetMapAgain, RemapFailed, SUCCESS, BUFFER_TOO_SMALL
  <2> QED BY <2>1, <2>2, <2>3 DEF LateInv
<1>5. CASE ExitBootServices
  <2>1. phase = "boot" /\ phase' \in {"exited", "closing"} /\ late' = <<>>
    BY <1>5, <1>0 DEF ExitBootServices, Service, KeyInv, Exited, LateInv
  <2>2. IF phase' = "exited" THEN pc' = "enter" ELSE pc' = "remap"
    BY <1>5 DEF ExitBootServices
  <2> QED BY <2>1, <2>2 DEF LateInv
<1>6. CASE ExitBootServicesAgain
  <2>1. phase = "closing" /\ phase' \in {"exited", "closing"} /\ pc = "again"
    BY <1>6 DEF ExitBootServicesAgain, KeyInv, Exited
  <2>2. late' = TryAgain
    BY <2>1, <1>6, LateSequences DEF ExitBootServicesAgain, Service, LateInv
  <2>3. IF phase' = "exited" THEN pc' = "enter" ELSE pc' = "failed" /\ status' # SUCCESS
    BY <1>6 DEF ExitBootServicesAgain, SUCCESS, INVALID_PARAMETER
  <2> QED BY <2>1, <2>2, <2>3 DEF LateInv
<1>7. CASE Failed
  <2>1. /\ pc = "failed" /\ pc' = "exit" /\ phase \in {"boot", "closing"} /\ phase' = phase
        /\ late' = IF phase = "boot" THEN late ELSE late \o GiveUp
        /\ status' = status
    BY <1>7, <1>0, LateSequences DEF Failed, KeyInv, firmware
  <2> QED BY <2>1 DEF LateInv
<1>8. CASE enter_kernel
  BY <1>8 DEF enter_kernel, firmware, KeyInv, LateInv
<1>9. CASE Event
  BY <1>9 DEF Event, LateInv
<1>10. CASE UNCHANGED vars
  BY <1>10 DEF vars, firmware, LateInv
<1> QED BY <1>1, <1>2, <1>3, <1>4, <1>5, <1>6, <1>7, <1>8, <1>9, <1>10 DEF Next, Step

-----------------------------------------------------------------------------
(* The screen.                                                             *)

\* What a device is.
LEMMA GopTypes ==
    ASSUME TypeInv, NEW h \in DOMAIN handles
    PROVE  /\ handles[h].area \in Seq(Nat \cup {NONE})
           /\ DOMAIN handles[h].area = 1 .. Len(handles[h].area)
           /\ handles[h].mode \in DOMAIN handles[h].area
           /\ handles[h].area[handles[h].mode] # NONE
           /\ Len(handles[h].area) \in Nat
<1>1. handles[h] \in Gops
  BY DEF TypeInv
<1>2. /\ handles[h].area \in Seq(Nat \cup {NONE})
      /\ handles[h].mode \in DOMAIN handles[h].area
      /\ handles[h].area[handles[h].mode] # NONE
  BY <1>1, EfiBootAssumption
<1> QED BY <1>2

\* The devices in a list are numbered from one.
LEMMA HandlesDomain ==
    ASSUME TypeInv PROVE DOMAIN handles = 1 .. Len(handles) /\ Len(handles) \in Nat
BY DEF TypeInv

\* efi_find_gop keeps what it promises of the handles it has seen.
LEMMA FindGopStep ==
    ASSUME TypeInv, ScreenInv, FindGop
    PROVE  ScreenInv'
<1> USE HandlesDomain
<1>0. i \in Nat \ {0} /\ i \in DOMAIN handles /\ NONE \notin Nat
  BY DEF FindGop, TypeInv, NONE
<1>1. /\ pc = "gop" /\ pc' = "gop" /\ handles' = handles /\ mode' = mode /\ si' = si
      /\ si = <<>>
  BY DEF FindGop, firmware, ScreenInv
<1>2. /\ NoConsole(i - 1)
      /\ \/ gop = NONE /\ \A x \in 1 .. i - 1 : ~Usable(handles[x])
         \/ FirstUsable(gop, i - 1)
  BY <1>0, <1>1 DEF ScreenInv, Searched, FindGop
<1>3. Searched'
  <2>1. CASE Usable(handles[i]) /\ handles[i].console
    <3>1. gop' = i /\ i' = Len(handles) + 1
      BY <2>1 DEF FindGop
    <3>2. FirstConsole(i)
      BY <2>1, <1>0, <1>2 DEF FirstConsole, NoConsole
    <3>3. FirstConsole(gop)'
      BY <3>1, <3>2, <1>1 DEF FirstConsole, Usable
    <3> QED BY <3>1, <3>3, <1>1 DEF Searched
  <2>2. CASE ~(Usable(handles[i]) /\ handles[i].console)
    <3>1. /\ i' = i + 1 /\ i' - 1 = i /\ i' <= Len(handles) + 1
          /\ gop' = IF Usable(handles[i]) THEN Prefer(i) ELSE gop
      BY <2>2, <1>0 DEF FindGop
    <3>2. NoConsole(i)
      BY <2>2, <1>0, <1>2 DEF NoConsole
    <3>3. \/ gop' = NONE /\ \A x \in 1 .. i : ~Usable(handles[x])
          \/ FirstUsable(gop', i)
      <4>1. CASE gop = NONE /\ \A x \in 1 .. i - 1 : ~Usable(handles[x])
        BY <4>1, <3>1, <1>0 DEF FirstUsable, Prefer
      <4>2. CASE FirstUsable(gop, i - 1)
        <5>1. gop # NONE /\ gop' = gop
          BY <4>2, <3>1, <1>0 DEF FirstUsable, Prefer
        <5> QED BY <5>1, <4>2, <1>0 DEF FirstUsable
      <4> QED BY <4>1, <4>2, <1>2
    <3> QED BY <3>1, <3>2, <3>3, <1>1 DEF Searched, NoConsole, FirstUsable, Usable
  <2> QED BY <2>1, <2>2
<1> QED BY <1>1, <1>3 DEF ScreenInv

\* efi_set_mode starts with the device found, if there is one.
LEMMA FindGopDoneStep ==
    ASSUME TypeInv, ScreenInv, FindGopDone
    PROVE  ScreenInv'
<1> USE HandlesDomain
<1>0. i \in Nat \ {0} /\ NONE \notin Nat
  BY DEF TypeInv, NONE
<1>1. /\ pc = "gop" /\ handles' = handles /\ mode' = mode /\ si' = si /\ gop' = gop
      /\ si = <<>> /\ mode = [h \in DOMAIN handles |-> handles[h].mode]
  BY DEF FindGopDone, firmware, ScreenInv
<1>2. i = Len(handles) + 1 /\ i - 1 = Len(handles)
  BY <1>0, <1>1 DEF ScreenInv, Searched, FindGopDone
<1>3. CASE gop = NONE
  <2>1. \A x \in DOMAIN handles : ~Usable(handles[x])
    BY <1>0, <1>1, <1>2, <1>3 DEF ScreenInv, Searched, FirstUsable, FirstConsole
  <2>2. pc' = "free"
    BY <1>3 DEF FindGopDone
  <2> QED BY <2>1, <2>2, <1>1 DEF ScreenInv, Usable
<1>4. CASE gop # NONE
  <2>1. pc' = "mode" /\ i' = 1 /\ next_mode' = mode[gop]
    BY <1>4 DEF FindGopDone
  <2>2. Best(gop) /\ gop \in DOMAIN handles
    BY <1>1, <1>2, <1>4 DEF ScreenInv, Searched, Best, FirstUsable, FirstConsole
  <2>3. next_mode' = handles[gop].mode
    BY <2>1, <2>2, <1>1
  <2>4. Best(gop)'
    BY <2>2, <1>1 DEF Best, FirstConsole, NoConsole, FirstUsable, Usable
  <2>5. /\ next_mode' \in DOMAIN handles[gop].area /\ handles[gop].area[next_mode'] # NONE
        /\ Len(handles[gop].area) \in Nat
    BY <2>3, <2>2, GopTypes
  <2> QED BY <2>1, <2>2, <2>4, <2>5, <1>1 DEF ScreenInv, Area
<1> QED BY <1>3, <1>4

\* efi_set_mode keeps the smallest of the modes it has seen.
LEMMA QueryModeStep ==
    ASSUME TypeInv, ScreenInv, QueryMode
    PROVE  ScreenInv'
<1> USE HandlesDomain
<1>1. /\ pc = "mode" /\ pc' = "mode" /\ handles' = handles /\ mode' = mode /\ si' = si
      /\ gop' = gop /\ i' = i + 1 /\ i \in Nat \ {0} /\ i <= Len(handles[gop].area)
      /\ next_mode' = IF Area(i) # NONE /\ Area(i) < Area(next_mode) THEN i ELSE next_mode
  BY DEF QueryMode, firmware, TypeInv
<1>2. /\ Best(gop) /\ next_mode \in DOMAIN handles[gop].area /\ Area(next_mode) # NONE
      /\ \A y \in 1 .. i - 1 : Area(y) = NONE \/ Area(next_mode) <= Area(y)
  BY <1>1 DEF ScreenInv
<1>3. gop \in DOMAIN handles
  BY <1>2 DEF Best, FirstConsole, FirstUsable
<1>4. /\ DOMAIN handles[gop].area = 1 .. Len(handles[gop].area)
      /\ \A x \in DOMAIN handles[gop].area : Area(x) \in Nat \cup {NONE}
      /\ Len(handles[gop].area) \in Nat
  BY <1>3, GopTypes DEF Area
<1>5. i \in DOMAIN handles[gop].area
  BY <1>1, <1>4
<1>6. Best(gop)'
  BY <1>1, <1>2 DEF Best, FirstConsole, NoConsole, FirstUsable, Usable
<1>7. next_mode' \in DOMAIN handles[gop].area /\ Area(next_mode') # NONE
  BY <1>1, <1>2, <1>5
<1>8. ASSUME NEW y \in 1 .. i PROVE Area(y) = NONE \/ Area(next_mode') <= Area(y)
  <2>1. Area(y) \in Nat \cup {NONE} /\ Area(i) \in Nat \cup {NONE} /\ Area(next_mode) \in Nat
    BY <1>1, <1>2, <1>4, <1>5
  <2>2. CASE y = i
    BY <2>1, <2>2, <1>1
  <2>3. CASE y # i
    <3>1. Area(y) = NONE \/ Area(next_mode) <= Area(y)
      BY <2>3, <1>1, <1>2
    <3> QED BY <3>1, <2>1, <1>1
  <2> QED BY <2>2, <2>3
<1>9. \A y : Area(y)' = Area(y)
  BY <1>1 DEF Area
<1>10. i' - 1 = i /\ i' <= Len(handles[gop].area) + 1 /\ i' > 0
  BY <1>1, <1>4
<1>11. Area(next_mode)' = Area(next_mode')
  BY <1>1 DEF Area
<1> QED BY <1>1, <1>6, <1>7, <1>8, <1>9, <1>10, <1>11 DEF ScreenInv

\* screen_info is filled from the mode the device really is in.
LEMMA SetModeStep ==
    ASSUME TypeInv, ScreenInv, SetMode
    PROVE  ScreenInv'
<1> USE HandlesDomain
<1>1. /\ pc = "mode" /\ pc' = "free" /\ handles' = handles /\ i \in Nat
      /\ si' = <<gop, mode'[gop]>> /\ i > Len(handles[gop].area)
      /\ mode' = [mode EXCEPT ![gop] = next_mode] \/ mode' = mode
  BY DEF SetMode, firmware, TypeInv
<1>2. /\ Best(gop) /\ next_mode \in DOMAIN handles[gop].area /\ Area(next_mode) # NONE
      /\ \A y \in 1 .. i - 1 : Area(y) = NONE \/ Area(next_mode) <= Area(y)
      /\ mode = [h \in DOMAIN handles |-> handles[h].mode]
  BY <1>1 DEF ScreenInv
<1>3. gop \in DOMAIN handles
  BY <1>2 DEF Best, FirstConsole, FirstUsable
<1>4. DOMAIN handles[gop].area = 1 .. Len(handles[gop].area) /\ Len(handles[gop].area) \in Nat
  BY <1>3, GopTypes
<1>5. Minimal(handles[gop], next_mode)
  BY <1>1, <1>2, <1>4 DEF Minimal, Area
<1>6. mode'[gop] \in {next_mode, handles[gop].mode}
  BY <1>1, <1>2, <1>3
<1>7. si'[1] = gop /\ si'[2] = mode'[gop]
  BY <1>1
<1>8. Best(si[1])'
  BY <1>1, <1>2, <1>7 DEF Best, FirstConsole, NoConsole, FirstUsable, Usable
<1>9. (Minimal(handles[si[1]], si[2]) \/ si[2] = handles[si[1]].mode)'
  BY <1>1, <1>5, <1>6, <1>7 DEF Minimal
<1>10. si' = <<si'[1], si'[2]>> /\ si'[2] = mode'[si'[1]] /\ si' # <<>>
  BY <1>1, <1>7
<1> QED BY <1>1, <1>8, <1>9, <1>10 DEF ScreenInv

\* The other steps leave the screen alone.
LEMMA ScreenStep == ASSUME TypeInv, HoldsInv, ScreenInv, [Next]_vars PROVE ScreenInv'
<1>1. CASE FindGop
  BY <1>1, FindGopStep
<1>2. CASE FindGopDone
  BY <1>2, FindGopDoneStep
<1>3. CASE QueryMode
  BY <1>3, QueryModeStep
<1>4. CASE SetMode
  BY <1>4, SetModeStep
<1>5. CASE LocateHandleBuffer
  <2>1. pc = "locate" /\ UNCHANGED <<handles, gop, next_mode, mode, si>>
    BY <1>5 DEF LocateHandleBuffer
  <2>2. CASE pc' = "size"
    BY <2>1, <2>2 DEF ScreenInv
  <2>3. CASE pc' # "size"
    <3>1. pc' = "gop" /\ i' = 1
      BY <1>5, <2>3 DEF LocateHandleBuffer
    <3>2. gop = NONE /\ Len(handles) \in Nat
      BY <2>1, HandlesDomain DEF ScreenInv
    <3>3. Searched'
      BY <2>1, <3>1, <3>2 DEF Searched, NoConsole
    <3> QED BY <2>1, <3>1, <3>3 DEF ScreenInv
  <2> QED BY <2>2, <2>3
<1>6. ASSUME UNCHANGED <<handles, gop, mode, si>>,
             pc' \notin {"gop", "mode"},
             pc' = "free" => pc = "free",
             pc' \in {"allocate", "head", "tail", "inflate", "locate"} =>
                pc \in {"allocate", "head", "tail", "inflate", "locate"}
      PROVE  ScreenInv'
  <2>1. si' # <<>> => Best(si[1])'
    BY <1>6 DEF ScreenInv, Best, FirstConsole, NoConsole, FirstUsable, Usable
  <2>2. si' # <<>> => (Minimal(handles[si[1]], si[2]) \/ si[2] = handles[si[1]].mode)'
    BY <1>6 DEF ScreenInv, Minimal
  <2> QED BY <1>6, <2>1, <2>2 DEF ScreenInv, Usable
<1>7. CASE AllocatePages \/ FreeHead \/ FreeTail \/ Decompress
  BY <1>7, <1>6 DEF AllocatePages, FreeHead, FreeTail, Decompress, screen, firmware
<1>8. CASE FreeHandles \/ MapSize \/ MapBuffer \/ GetMap \/ FreeMap \/ GetMapAgain
  BY <1>8, <1>6 DEF FreeHandles, MapSize, MapBuffer, GetMap, FreeMap, GetMapAgain, RemapFailed,
     screen, firmware
<1>9. CASE ExitBootServices \/ ExitBootServicesAgain \/ Failed \/ enter_kernel
  BY <1>9, <1>6 DEF ExitBootServices, ExitBootServicesAgain, Failed, enter_kernel, screen, firmware
<1>10. ASSUME UNCHANGED <<handles, screen, pc>> PROVE ScreenInv'
  BY <1>10 DEF ScreenInv, screen, Best, FirstConsole, NoConsole, FirstUsable, Usable, Searched,
     Minimal, Area
<1>11. CASE Event
  BY <1>11, <1>10 DEF Event
<1>12. CASE UNCHANGED vars
  BY <1>12, <1>10 DEF vars, firmware
<1> QED BY <1>1, <1>2, <1>3, <1>4, <1>5, <1>7, <1>8, <1>9, <1>11, <1>12 DEF Next, Step

-----------------------------------------------------------------------------
(* The theorems.                                                           *)

EfiInv == TypeInv /\ HoldsInv /\ OwnsInv /\ KeyInv /\ LateInv /\ ScreenInv

\* The invariant holds when the firmware starts the stub.
LEMMA InvInit == ASSUME Init PROVE EfiInv
<1> USE DEF Init
<1>1. handles \in Seq(Gops) /\ DOMAIN handles = 1 .. Len(handles)
  <2>1. PICK m \in 0 .. MaxHandles : handles \in [1 .. m -> Gops]
    OBVIOUS
  <2>2. m \in Nat
    BY EfiBootAssumption
  <2> QED BY <2>1, <2>2
<1>2. \A p \in Pages : mem[p] \in {"CONVENTIONAL", "FIRMWARE"}
  BY EfiBootAssumption
<1>3. mem \in [Pages -> Types]
  BY EfiBootAssumption DEF Types
<1>4. TypeInv
  <2>1. want \in [pages : Nat \ {0}, align : Nat \ {0}, type : {"LOADER_DATA", "LOADER_CODE"}]
    BY EfiBootAssumption DEF Want
  <2>2. /\ memmap = [at |-> memmap.at, room |-> memmap.room, map |-> memmap.map, key |-> memmap.key]
        /\ memmap.at = NONE
    BY DEF NoMap
  <2> QED BY <1>1, <1>3, <2>1, <2>2 DEF TypeInv, PCs
<1>5. HoldsInv
  BY DEF HoldsInv, Want, NoMap
<1>6. OwnsInv
  BY <1>2 DEF OwnsInv, InWork, ParamsHeld, KernelHeld, Buffers, NoMap
<1>7. KeyInv /\ LateInv
  BY DEF KeyInv, LateInv, NoMap, NONE
<1>8. ScreenInv
  BY DEF ScreenInv
<1> QED BY <1>4, <1>5, <1>6, <1>7, <1>8 DEF EfiInv

\* The invariant holds at every step of every boot.
LEMMA InvAlways == Spec => []EfiInv
<1>1. Init => EfiInv
  BY InvInit
<1>2. EfiInv /\ [Next]_vars => EfiInv'
  BY TypeStep, HoldsStep, OwnsStep, KeyStep, LateStep, ScreenStep DEF EfiInv
<1> QED BY <1>1, <1>2, PTL DEF Spec

\* NothingLost, for every size and alignment: the extra pages an aligned
\* allocation takes and the buffers of handles and map are given back on every
\* path, whatever the firmware does with its memory in between.
THEOREM MemoryGivenBack == Spec => []NothingLost
<1>1. EfiInv => NothingLost
  <2> SUFFICES ASSUME EfiInv, pc \notin {"head", "tail"}
               PROVE  Owned = UNION {ParamsHeld, KernelHeld, Buffers}
    BY DEF NothingLost, ParamsHeld, KernelHeld, Buffers
  <2>1. InWork = {}
    BY DEF InWork
  <2>2. Owned = {p \in Pages : mem[p] = "LOADER_CODE"} \cup {p \in Pages : mem[p] = "LOADER_DATA"}
    BY DEF Owned
  <2> QED BY <2>1, <2>2 DEF EfiInv, OwnsInv
<1> QED BY <1>1, InvAlways, PTL

\* HandOver, for every memory, list of devices and sequence of events: the map
\* the kernel is given is the one of the moment the firmware let go, the kernel,
\* its parameters and the map lie in pages of their own, and screen_info
\* describes the device and mode that efi_find_gop and efi_set_mode promise.
THEOREM HandOverRight == Spec => []HandOver
<1>1. EfiInv => HandOver
  <2> SUFFICES ASSUME EfiInv PROVE HandOver
    OBVIOUS
  <2> USE DEF EfiInv
  <2>1. ASSUME pc = "kernel"
        PROVE  /\ phase = "exited" /\ memmap.map = mem
               /\ ukernel_addr % KernelAlign = 0
               /\ \A p \in Kernel : mem[p] = "LOADER_CODE"
               /\ \A p \in Params \cup {memmap.at} : mem[p] = "LOADER_DATA"
               /\ Params \cap {memmap.at} = {}
    <3>1. phase = "exited" /\ memmap.map = mem
      BY <2>1 DEF KeyInv
    <3>2. ukernel_addr # NONE /\ ukernel_addr % KernelAlign = 0 /\ boot_params # NONE
          /\ memmap.at # NONE
      BY <2>1 DEF HoldsInv
    <3>3. KernelHeld = Kernel /\ ParamsHeld = Params /\ memmap.at \in Buffers
      BY <3>2 DEF KernelHeld, ParamsHeld, Buffers
    <3> QED BY <3>1, <3>2, <3>3 DEF OwnsInv
  <2>2. ASSUME pc \in {"free", "kernel"}, si # <<>> \/ gop_handles # NONE
        PROVE  LET usable == {h \in DOMAIN handles : Usable(handles[h])}
                   console == {h \in usable : handles[h].console}
                   best == IF console # {} THEN console ELSE usable
               IN  IF usable = {} THEN si = <<>>
                   ELSE /\ si[1] \in best /\ \A h \in best : si[1] <= h
                        /\ si[2] = mode[si[1]]
                        /\ Minimal(handles[si[1]], si[2]) \/ si[2] = handles[si[1]].mode
    <3> DEFINE usable == {h \in DOMAIN handles : Usable(handles[h])}
               console == {h \in usable : handles[h].console}
               best == IF console # {} THEN console ELSE usable
    <3>0. DOMAIN handles = 1 .. Len(handles)
      BY HandlesDomain
    <3>1. CASE si = <<>>
      <4>1. pc = "free"
        BY <3>1, <2>2 DEF HoldsInv
      <4>2. usable = {}
        BY <4>1, <3>1 DEF ScreenInv
      <4> QED BY <4>2, <3>1
    <3>2. CASE si # <<>>
      <4>1. /\ Best(si[1]) /\ si[2] = mode[si[1]]
            /\ Minimal(handles[si[1]], si[2]) \/ si[2] = handles[si[1]].mode
        BY <3>2 DEF ScreenInv
      <4>2. si[1] \in usable
        BY <4>1, <3>0 DEF Best, FirstConsole, FirstUsable
      <4>3. si[1] \in best /\ \A h \in best : si[1] <= h
        <5>1. CASE FirstConsole(si[1])
          BY <5>1, <4>2 DEF FirstConsole
        <5>2. CASE NoConsole(Len(handles)) /\ FirstUsable(si[1], Len(handles))
          BY <5>2, <4>2, <3>0 DEF NoConsole, FirstUsable
        <5> QED BY <5>1, <5>2, <4>1 DEF Best
      <4> QED BY <4>1, <4>2, <4>3
    <3> QED BY <3>1, <3>2
  <2> QED BY <2>1, <2>2 DEF HandOver
<1> QED BY <1>1, InvAlways, PTL

\* NoLateService: whatever the firmware answers and whenever its events change
\* memory, a refused ExitBootServices is followed by one look at the map and one
\* more try, and on the paths that fail by the message and the exit with the
\* error, in this order and by nothing else; a granted one by nothing at all.
THEOREM NothingCalledLate == Spec => []NoLateService
<1>1. EfiInv => NoLateService
  <2> SUFFICES ASSUME TypeInv, KeyInv, LateInv PROVE NoLateService
    BY DEF EfiInv
  <2>1. phase \in {"boot", "closing", "exited"}
    BY DEF TypeInv
  <2>2. phase = "exited" => late \in {<<>>, TryAgain} /\ pc \in {"enter", "kernel"}
    BY DEF LateInv, KeyInv
  <2>3. phase = "closing" => pc \in {"remap", "again", "failed", "exit"}
    BY DEF KeyInv
  <2> QED BY <2>1, <2>2, <2>3 DEF LateInv, NoLateService
<1> QED BY <1>1, InvAlways, PTL
=============================================================================
