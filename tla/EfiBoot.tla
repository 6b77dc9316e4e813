------------------------------ MODULE EfiBoot ------------------------------
(***************************************************************************)
(* The EFI boot stub (efi-boot/efi.c): it allocates memory for the boot    *)
(* parameters and the kernel, sets up a screen, takes the final memory map *)
(* and leaves the firmware with ExitBootServices.                          *)
(*                                                                         *)
(* The firmware is the other actor.  Until ExitBootServices is first       *)
(* called its own events may allocate and free memory at any moment; every *)
(* change of memory makes earlier map keys stale.  Memory is counted in    *)
(* pages and the memory map has one descriptor for each run of pages of a  *)
(* type.  The fields of boot_params that are constant or only copied from  *)
(* the firmware's tables (ramdisk, command line, RSDP) are left out.       *)
(***************************************************************************)
EXTENDS Integers, Sequences, FiniteSets

CONSTANTS
    NPages,                   \* pages of memory
    Memories,                 \* memory as the firmware starts the stub
    PARAMS_PAGES,             \* BOOT_PARAMS_SIZE
    KernelPages, KernelAlign, \* ukernel_size, CONFIG_PHYSICAL_ALIGN, in pages
    Slack,                    \* EFI_MMAP_NR_SLACK_SLOTS
    MaxEvents,                \* bound of the firmware's own changes of memory
    Gops, MaxHandles          \* graphics devices, and how many there may be

Pages == 0 .. NPages - 1
Types == {"CONVENTIONAL", "LOADER_DATA", "LOADER_CODE", "FIRMWARE"}
NONE == -1
SUCCESS == 0
OUT_OF_RESOURCES == 9
LOAD_ERROR == 1
INVALID_PARAMETER == 2
BUFFER_TOO_SMALL == 5

\* The pages the stub itself was loaded to are the firmware's, like all it did
\* not allocate.  A device: whether the protocol opens, whether its pixels can
\* be written, whether the console is on it, its mode, and the area of the
\* screen in each mode (NONE if the mode cannot be queried).
ASSUME EfiBootAssumption ==
    /\ NPages \in Nat \ {0}
    /\ Memories \subseteq [Pages -> {"CONVENTIONAL", "FIRMWARE"}]
    /\ PARAMS_PAGES \in Nat \ {0} /\ KernelPages \in Nat \ {0} /\ KernelAlign \in Nat \ {0}
    /\ Slack \in Nat /\ MaxEvents \in Nat /\ MaxHandles \in Nat
    /\ \A g \in Gops : /\ g \in [opens : BOOLEAN, linear : BOOLEAN, console : BOOLEAN,
                                 mode : Nat, area : Seq(Nat \cup {NONE})]
                       /\ g.mode \in DOMAIN g.area /\ g.area[g.mode] # NONE

VARIABLES
    mem,          \* the firmware's memory
    key,          \* changes of it so far, the map key
    phase,        \* "boot"; "closing" after a failed ExitBootServices; "exited"
    events,
    handles,      \* the graphics devices, as LocateHandleBuffer lists them
    pc,
    want,         \* the allocation of pages in progress
    addr,         \* what AllocatePages returned for it
    boot_params, ukernel_addr,
    gop_handles,  \* the page of the buffer of handles, or NONE
    i, gop,       \* the handle or mode in work, and the device found so far
    next_mode,
    mode,         \* the mode of each device
    si,           \* screen_info: device and mode, or <<>> if framebuffer is 0
    memmap,       \* the buffer of the map: its page, room, and map and key read
    status,
    late          \* the services called after ExitBootServices was first called

firmware == <<mem, key, phase, events, handles>>
screen == <<gop_handles, i, gop, next_mode, mode, si>>
vars == <<firmware, pc, want, addr, boot_params, ukernel_addr, screen, memmap, status, late>>

NoMap == [at |-> NONE, room |-> 0, map |-> <<>>, key |-> NONE]
Want(n, a, t) == [pages |-> n, align |-> a, type |-> t]

Init ==
    /\ mem \in Memories
    /\ key = 0 /\ phase = "boot" /\ events = 0
    /\ handles \in UNION {[1 .. n -> Gops] : n \in 0 .. MaxHandles}
    /\ pc = "allocate" /\ want = Want(PARAMS_PAGES, 1, "LOADER_DATA") /\ addr = NONE
    /\ boot_params = NONE /\ ukernel_addr = NONE
    /\ gop_handles = NONE /\ i = 1 /\ gop = NONE /\ next_mode = NONE
    /\ mode = [h \in DOMAIN handles |-> handles[h].mode]
    /\ si = <<>>
    /\ memmap = NoMap /\ status = SUCCESS /\ late = <<>>

-----------------------------------------------------------------------------
(* The firmware.                                                           *)

Block(a, n) == a .. a + n - 1
Free(a, n) == Block(a, n) \subseteq Pages /\ \A p \in Block(a, n) : mem[p] = "CONVENTIONAL"
Blocks(n) == {a \in Pages : Free(a, n)}

Set(a, n, t) ==
    /\ mem' = [p \in Pages |-> IF p \in Block(a, n) THEN t ELSE mem[p]]
    /\ key' = key + 1

\* The descriptors of the memory map: a run of pages of one type is one.
Descriptors == Cardinality({p \in Pages : p = 0 \/ mem[p] # mem[p - 1]})

\* A boot service is called; 'late' remembers when.
Service(s) == late' = IF phase = "boot" THEN late ELSE Append(late, s)

\* An event of the firmware takes or gives back a page.
Event ==
    /\ phase = "boot" /\ pc \notin {"kernel", "exit"} /\ events < MaxEvents
    /\ \E p \in Pages :
          \/ mem[p] = "CONVENTIONAL" /\ Set(p, 1, "FIRMWARE")
          \/ mem[p] = "FIRMWARE" /\ Set(p, 1, "CONVENTIONAL")
    /\ events' = events + 1
    /\ UNCHANGED <<phase, handles, pc, want, addr, boot_params, ukernel_addr, screen,
                   memmap, status, late>>

-----------------------------------------------------------------------------
(* efi_allocate_pages: more pages than needed, then the ends given back.   *)

Extra == want.align - 1
Misaligned == addr % want.align

\* PTR_ALIGN(addr, align)
AlignUp(a) == ((a + want.align - 1) \div want.align) * want.align

AllocatePages ==
    /\ pc = "allocate"
    /\ Service("allocate_pages")
    /\ IF Blocks(want.pages + Extra) = {}
       THEN /\ status' = OUT_OF_RESOURCES /\ pc' = "exit"
            /\ UNCHANGED <<mem, key, addr>>
       ELSE \E a \in Blocks(want.pages + Extra) :
            /\ Set(a, want.pages + Extra, want.type)
            /\ addr' = a
            /\ pc' = "head" /\ UNCHANGED status
    /\ UNCHANGED <<phase, events, handles, want, boot_params, ukernel_addr, screen, memmap>>

\* The pages before the boundary.
FreeHead ==
    /\ pc = "head"
    /\ IF Misaligned # 0
       THEN Set(addr, Extra - Misaligned + 1, "CONVENTIONAL") /\ Service("free_pages")
       ELSE UNCHANGED <<mem, key, late>>
    /\ pc' = "tail"
    /\ UNCHANGED <<phase, events, handles, want, addr, boot_params, ukernel_addr, screen,
                   memmap, status>>

\* (Mutant of TailPages: as many as if nothing had been freed before.)
TailPagesAll == Extra

\* The rest of the extra pages, behind.
TailPages == IF Misaligned # 0 THEN Misaligned - 1 ELSE Extra

FreeTail ==
    /\ pc = "tail"
    /\ IF TailPages > 0
       THEN Set(AlignUp(addr) + want.pages, TailPages, "CONVENTIONAL") /\ Service("free_pages")
       ELSE UNCHANGED <<mem, key, late>>
    /\ IF boot_params = NONE
       THEN /\ boot_params' = AlignUp(addr)
            /\ want' = Want(KernelPages, KernelAlign, "LOADER_CODE")
            /\ pc' = "allocate"
            /\ UNCHANGED ukernel_addr
       ELSE /\ ukernel_addr' = AlignUp(addr)
            /\ pc' = "inflate"
            /\ UNCHANGED <<boot_params, want>>
    /\ UNCHANGED <<phase, events, handles, addr, screen, memmap, status>>

\* decompress_gzip succeeds or not.
Decompress ==
    /\ pc = "inflate"
    /\ Service("output_string")
    /\ \/ pc' = "locate" /\ UNCHANGED status
       \/ pc' = "exit" /\ status' = LOAD_ERROR
    /\ UNCHANGED <<firmware, want, addr, boot_params, ukernel_addr, screen, memmap>>

-----------------------------------------------------------------------------
(* setup_graphics: an error here is reported, and the boot goes on.        *)

\* LocateHandleBuffer allocates the buffer it returns.
LocateHandleBuffer ==
    /\ pc = "locate"
    /\ Service("locate_handle_buffer")
    /\ IF handles = <<>> \/ Blocks(1) = {}
       THEN pc' = "size" /\ UNCHANGED <<mem, key, gop_handles, i>>
       ELSE \E a \in Blocks(1) : /\ Set(a, 1, "LOADER_DATA")
                                 /\ gop_handles' = a
                                 /\ i' = 1 /\ pc' = "gop"
    /\ UNCHANGED <<phase, events, handles, want, addr, boot_params, ukernel_addr, gop,
                   next_mode, mode, si, memmap, status>>

Usable(g) == g.opens /\ g.linear

\* The first usable device is kept.
Prefer(h) == IF gop = NONE THEN h ELSE gop

\* efi_find_gop, one handle: a usable device with the console ends the search.
FindGop ==
    /\ pc = "gop" /\ i <= Len(handles)
    /\ Service("handle_protocol")
    /\ IF Usable(handles[i])
       THEN IF handles[i].console
            THEN gop' = i /\ i' = Len(handles) + 1
            ELSE gop' = Prefer(i) /\ i' = i + 1
       ELSE i' = i + 1 /\ UNCHANGED gop
    /\ UNCHANGED <<firmware, pc, want, addr, boot_params, ukernel_addr, gop_handles,
                   next_mode, mode, si, memmap, status>>

FindGopDone ==
    /\ pc = "gop" /\ i > Len(handles)
    /\ IF gop = NONE
       THEN pc' = "free" /\ UNCHANGED <<i, next_mode>>
       ELSE pc' = "mode" /\ i' = 1 /\ next_mode' = mode[gop]
    /\ UNCHANGED <<firmware, want, addr, boot_params, ukernel_addr, gop_handles, gop, mode,
                   si, memmap, status, late>>

Area(x) == handles[gop].area[x]

\* efi_set_mode, one mode.  (query_mode's buffer is the firmware's, an Event.)
QueryMode ==
    /\ pc = "mode" /\ i <= Len(handles[gop].area)
    /\ next_mode' = IF Area(i) # NONE /\ Area(i) < Area(next_mode) THEN i ELSE next_mode
    /\ i' = i + 1
    /\ UNCHANGED <<firmware, pc, want, addr, boot_params, ukernel_addr, gop_handles, gop,
                   mode, si, memmap, status, late>>

\* The mode is set, which may fail unnoticed; then screen_info is filled from
\* what is now current.
SetMode ==
    /\ pc = "mode" /\ i > Len(handles[gop].area)
    /\ \/ mode' = [mode EXCEPT ![gop] = next_mode]
       \/ UNCHANGED mode
    /\ si' = <<gop, mode'[gop]>>
    /\ pc' = "free"
    /\ UNCHANGED <<firmware, want, addr, boot_params, ukernel_addr, gop_handles, i, gop,
                   next_mode, memmap, status, late>>

FreeHandles ==
    /\ pc = "free"
    /\ Set(gop_handles, 1, "CONVENTIONAL") /\ Service("free_pool")
    /\ gop_handles' = NONE
    /\ pc' = "size"
    /\ UNCHANGED <<phase, events, handles, want, addr, boot_params, ukernel_addr, i, gop,
                   next_mode, mode, si, memmap, status>>

-----------------------------------------------------------------------------
(* efi_exit_boot_services.                                                 *)

\* The map is asked for with no room, for its size.
MapSize ==
    /\ pc = "size"
    /\ Service("get_memory_map")
    /\ memmap' = [memmap EXCEPT !.room = Descriptors + Slack]
    /\ pc' = "buffer"
    /\ UNCHANGED <<firmware, want, addr, boot_params, ukernel_addr, screen, status>>

MapBuffer ==
    /\ pc = "buffer"
    /\ Service("allocate_pool")
    /\ IF Blocks(1) = {}
       THEN /\ status' = OUT_OF_RESOURCES /\ pc' = "failed"
            /\ UNCHANGED <<mem, key, memmap>>
       ELSE \E a \in Blocks(1) : /\ Set(a, 1, "LOADER_DATA")
                                 /\ memmap' = [memmap EXCEPT !.at = a]
                                 /\ pc' = "map" /\ UNCHANGED status
    /\ UNCHANGED <<phase, events, handles, want, addr, boot_params, ukernel_addr, screen>>

Fits == Descriptors <= memmap.room

\* (Mutant of Read: the second time only the key is read.)
ReadKey ==
    memmap' = [memmap EXCEPT !.map = IF memmap.key = NONE THEN mem ELSE @, !.key = key]

Read == memmap' = [memmap EXCEPT !.map = mem, !.key = key]

\* A map that has grown past the slack: the buffer is freed.
GetMap ==
    /\ pc = "map"
    /\ Service("get_memory_map")
    /\ IF Fits
       THEN Read /\ pc' = "leave" /\ UNCHANGED status
       ELSE pc' = "unmap" /\ status' = BUFFER_TOO_SMALL /\ UNCHANGED memmap
    /\ UNCHANGED <<firmware, want, addr, boot_params, ukernel_addr, screen>>

FreeMap ==
    /\ pc = "unmap"
    /\ Set(memmap.at, 1, "CONVENTIONAL") /\ Service("free_pool")
    /\ memmap' = NoMap
    /\ pc' = "failed"
    /\ UNCHANGED <<phase, events, handles, want, addr, boot_params, ukernel_addr, screen, status>>

\* ExitBootServices: a stale key is refused.
Exited == phase' = IF memmap.key = key THEN "exited" ELSE "closing"

ExitBootServices ==
    /\ pc = "leave"
    /\ Service("exit_boot_services")
    /\ Exited
    /\ pc' = IF phase' = "exited" THEN "enter" ELSE "remap"
    /\ UNCHANGED <<mem, key, events, handles, want, addr, boot_params, ukernel_addr, screen,
                   memmap, status>>

\* (Mutant of RemapFailed: the buffer is freed, as the first time.)
RemapFailedFrees == "unmap"

\* 'exit_boot_services' already called, cannot call 'efi_free'.
RemapFailed == "failed"

GetMapAgain ==
    /\ pc = "remap"
    /\ Service("get_memory_map")
    /\ IF Fits
       THEN Read /\ pc' = "again" /\ UNCHANGED status
       ELSE pc' = RemapFailed /\ status' = BUFFER_TOO_SMALL /\ UNCHANGED memmap
    /\ UNCHANGED <<firmware, want, addr, boot_params, ukernel_addr, screen>>

ExitBootServicesAgain ==
    /\ pc = "again"
    /\ Service("exit_boot_services")
    /\ Exited
    /\ IF phase' = "exited"
       THEN pc' = "enter" /\ UNCHANGED status
       ELSE pc' = "failed" /\ status' = INVALID_PARAMETER
    /\ UNCHANGED <<mem, key, events, handles, want, addr, boot_params, ukernel_addr, screen,
                   memmap>>

\* The message, then efi_exit.
Failed ==
    /\ pc = "failed"
    /\ late' = IF phase = "boot" THEN late ELSE late \o <<"output_string", "exit">>
    /\ pc' = "exit"
    /\ UNCHANGED <<firmware, want, addr, boot_params, ukernel_addr, screen, memmap, status>>

\* efi_info is filled and the kernel entered.
enter_kernel ==
    /\ pc = "enter"
    /\ pc' = "kernel"
    /\ UNCHANGED <<firmware, want, addr, boot_params, ukernel_addr, screen, memmap, status, late>>

Step ==
    \/ AllocatePages \/ FreeHead \/ FreeTail \/ Decompress
    \/ LocateHandleBuffer \/ FindGop \/ FindGopDone \/ QueryMode \/ SetMode \/ FreeHandles
    \/ MapSize \/ MapBuffer \/ GetMap \/ FreeMap
    \/ ExitBootServices \/ GetMapAgain \/ ExitBootServicesAgain \/ Failed
    \/ enter_kernel

Next == Step \/ Event

Spec == Init /\ [][Next]_vars

-----------------------------------------------------------------------------
(* Properties.                                                             *)

Kernel == Block(ukernel_addr, KernelPages)
Params == Block(boot_params, PARAMS_PAGES)
Owned == {p \in Pages : mem[p] \in {"LOADER_CODE", "LOADER_DATA"}}

\* Whenever no service is in the middle of its work, what the stub holds of
\* the firmware's memory is exactly what it still uses: the extra pages of an
\* aligned allocation and the buffers are given back on every path.
NothingLost ==
    pc \notin {"head", "tail"} =>
        Owned = UNION {IF boot_params = NONE THEN {} ELSE Params,
                       IF ukernel_addr = NONE THEN {} ELSE Kernel,
                       {gop_handles, memmap.at} \ {NONE}}

Minimal(g, x) == \A y \in DOMAIN g.area : g.area[y] = NONE \/ g.area[x] <= g.area[y]

\* When the kernel is entered, the memory map it is given is that of the very
\* moment the firmware let go, however often events changed memory before; and
\* the kernel, at its alignment, the boot parameters and the map itself are in
\* pages of their own which that map says belong to the loader.  The screen it
\* is told of is a usable device, the first with the console on it or, without
\* such a one, the first; in the mode it is really in, which is one of the
\* smallest or the one the firmware left it in; none only if no device is usable.
HandOver ==
    /\ pc = "kernel" =>
        /\ phase = "exited" /\ memmap.map = mem
        /\ ukernel_addr % KernelAlign = 0
        /\ \A p \in Kernel : mem[p] = "LOADER_CODE"
        /\ \A p \in Params \cup {memmap.at} : mem[p] = "LOADER_DATA"
        /\ Params \cap {memmap.at} = {}
    /\ pc \in {"free", "kernel"} /\ (si # <<>> \/ gop_handles # NONE) =>
        LET usable == {h \in DOMAIN handles : Usable(handles[h])}
            console == {h \in usable : handles[h].console}
            best == IF console # {} THEN console ELSE usable
        IN  IF usable = {} THEN si = <<>>
            ELSE /\ si[1] \in best /\ \A h \in best : si[1] <= h
                 /\ si[2] = mode[si[1]]
                 /\ Minimal(handles[si[1]], si[2]) \/ si[2] = handles[si[1]].mode

LookAgain == <<"get_memory_map">>
TryAgain == LookAgain \o <<"exit_boot_services">>
GiveUp == <<"output_string", "exit">>

\* After a refused ExitBootServices the stub reads the map once more and tries
\* once more, in this order, and either enters the kernel or prints its message
\* and exits with the error: no memory is asked for or given back and no device
\* touched, on the paths that fail either.  Once the firmware has let go nothing
\* is called any more.
NoLateService ==
    /\ late \in IF pc = "exit"
                THEN {<<>>, LookAgain \o GiveUp, TryAgain \o GiveUp}
                ELSE {<<>>, LookAgain, TryAgain}
    /\ phase = "exited" => late \in {<<>>, TryAgain} /\ pc \in {"enter", "kernel"}
    /\ pc = "exit" => status # SUCCESS
=============================================================================
