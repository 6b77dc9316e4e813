# Verification of the Cyanea micro-kernel

TLA+ models of the Cyanea micro-kernel (x86-64), checked with TLC on small
instances and, where it says so, proved with TLAPS for every value of the
constants.  Paths are relative to the repository's root, `src/`.

## The system

Cyanea boots from EFI.  One processor runs, with interrupts off, from the
firmware to `start_kernel` and through `setup_arch`; the parts below run one
after the other on that thread and share state through C globals.  What is hard
here is therefore not threads but *long sequences of calls on small fixed
tables*: arrays edited in place by loops that move their own index, ranges
rounded in two directions, limits reached in the middle of an operation, and
the actors that really are concurrent: the processor's own page walk and TLB, and
before the kernel starts the firmware's events.

| Component | State it keeps | Operations | Talks to |
|---|---|---|---|
| memblock (`ukernel/memblock.c`) | array of regions with flag and node, count, total size | add, remove, reserve, free, set_node, alloc, iterate | everybody who needs memory |
| direct mapping (`arch/x86/ukernel/mm.c`) | four levels of page tables, pages taken from the brk, highest mapped page | init_mem_mapping | iterates over memblock, reserves in it |
| fixmap, ioremap (`arch/x86/ukernel/ioremap.c`) | two page tables, lengths of the ranges handed out | ioremap, memremap, iounmap, memunmap, set_fixmap | used by EFI, ACPI, framebuffer, APIC |
| early page tables (`arch/x86/__head_64.c`, `head_64.S`) | tables of the boot mapping, next free table | __startup_64, purge_ident_mapping, page fault handler | everything before init_mem_mapping; hands over to mm.c |
| e820 and EFI memory map (`e820.c`, `efi.c`) | at most 128 typed ranges | range_add, update_table, memblock_setup | fills memblock |
| boot sequence, per-CPU areas (`setup.c`, `setup_percpu.c`, `init/main.c`) | order of initialisation, per-CPU offsets | setup_arch, setup_per_cpu_areas | all of the above |
| CPU state (`cpu.c`, `tlb.h`, `cache.c`, `idt.c`, `cpuinfo.c`) | CR4 shadow, PAT tables, IDT, CPUID data | cr4_set_bits, cache_bp_init, ... | page table code |
| ACPI (`drivers/acpi`, `arch/x86/ukernel/acpi`) | table of tables | init, table walk, MADT handlers | ioremap, APIC |
| APIC, IO-APIC (`arch/x86/ukernel/apic`) | processor and IO-APIC numbers | register_apic_id, mp_register_ioapic | fixmap |
| console, UART, framebuffer, log (`drivers`, `ukernel/ulog.c`) | list of consoles, ports, cursor | register, write | io_buffer |
| io_buffer, vsnprintf, strtox, strings (`uklib`) | cursor in a buffer | formatted output, number parsing | log, parameters |
| parameters (`ukernel/params.c`) | none (a state machine over the command line) | param_get_option | init |
| EFI boot stub, deflate (`efi-boot`) | loaded image, memory map, decompression state | entry, exit_boot_services, decompress | firmware |

What makes each correct: memblock's array is a faithful, sorted map from bytes
to (flag, node), and every call changes exactly its range; the direct map is the
identity on memory and undefined elsewhere; a held temporary mapping translates
to what was asked for and no slot is handed out twice; e820 loses no memory; the
MADT assigns distinct numbers; a parse returns what is on the command line; no
boot service is called after ExitBootServices; every translation the processor can
use, cached or not, is right at every step from the firmware's tables to the
kernel's own; CR4 and its shadow agree; a format prints the field it describes and
a number is read as what it means; decompression gives back the data and refuses
a damaged file.

## Modules

| Module | What it is |
|---|---|
| `Memblock` | `memblock.c`, one action for each iteration of each loop |
| `MemblockAbs` | what the interface promises: a function from bytes to cells, and atomic calls |
| `MemblockRefinement` | the mapping under which `Memblock` implements `MemblockAbs` |
| `MemblockProofs` | theorems about `Memblock`, in three parts: types, order, room and stale entries; what the array says of memory; that `Memblock` implements `MemblockAbs` |
| `DirectMap` | `init_mem_mapping` on a layout of regions as memblock hands it over |
| `Fixmap` | `ioremap.c` with the TLB |
| `EarlyMap` | the page tables of the boot with the processor's CR3, CR4 and TLB, from `startup_64` to the per-CPU areas |
| `CacheModes` | `cache.c`: PAT, MTRRs and the two translation tables; `EarlyMap` takes its steps |
| `Paging` | `EarlyMap` and `DirectMap` together |
| `PagingProofs` | theorems about `Paging`, in two parts: `EarlyMap` with `CacheModes`; `DirectMap` |
| `FixmapProofs`, `EfiBootProofs`, `BootProofs` | theorems about `Fixmap`, `EfiBoot` and `Boot` |
| `Acpi` | `drivers/acpi/acpi.c`: the table of ACPI tables and the search in it |
| `Madt` | the passes over the MADT, processor numbers, IO-APIC table |
| `AcpiProofs`, `MadtProofs` | theorems about `Acpi` and `Madt` |
| `Params` | the command line parser and the loop over the options |
| `Format` | `iob_vsnprintf`, one step for each character of the format |
| `Strtox` | `strtoull` and `strtoll` with the reading side of io_buffer |
| `Text` | `Params`, `Format` and `Strtox`, and a number printed and read again |
| `EfiBoot` | the EFI stub and the firmware, up to the jump into the kernel |
| `Deflate` | `deflate.c`, with the code's own tables and sizes |
| `Gzip` | an encoder, written from the format: the reference `Deflate` is checked against |
| `Loader` | `EfiBoot` and `Deflate` together |
| `Console` | the choice of a console, the log's line buffer, serial ports and framebuffer |
| `ConsoleProofs` | theorems about `Console`: the choice, the log up to the console, and what the devices show |
| `Boot` | firmware memory map to per-CPU areas, in the order of `setup_arch`; calls `MemblockAbs` |
| `MCMemblock`, `MCPaging`, `MCFixmap`, `MCAcpi`, `MCMadt`, `MCText`, `MCLoader`, `MCConsole`, `MCBoot` | small instances for TLC |

A definition `XMutated` preceded by "(Mutant of X: ...)" is a deliberately wrong
version of `X`; the runs are shown to notice it.  No specification uses one.

### Memblock

`regions`, `n`, `size` are `struct memblock memory`; the entries from `n` on keep
what earlier moves left in them, because `merge_regions` reads one.  `pc` names
the loop a call is in ("add", "isolate", "set", "remove", "merge", and "find",
"retry", "entry" around them), `base`, `end`, `i`, `start`, `stop`, `nid` are the
C locals.  `"halt"` is the failed assertion of `insert_region`; `"fault"` is a
`memmove` whose unsigned length is negative: a call that never returns.
`MemblockAbs` allows neither: its `Stop` is the assertion, in an add only, and
its `Spec` has every call answered.  `ImplementsAbs` is therefore about a kernel
that does not call `memblock_remove`, as this one does not; `NeverWrong` says of
one that does that memory is changed only as promised, up to such a call.  The
bytes behind a full array are
unknown to the code: `BeyondMayMatch` says whether they may look like the next
region.  `memblock_dump` only prints; `memblock_phys_mem_size` returns `size`.
Ranges do not wrap around 2^64 and flags are the two values of
`enum memblock_flags`.

### DirectMap

The four levels of tables are functions from entry numbers to none, a table or
a page; `PTRS` entries to a table.  The five nested loops of
`physical_mapping_init` and below it become one step for each leaf entry, with
the tables that had to be allocated on the way.  The layout of regions is chosen
in the initial state.  `"overlap"`, `"clash"` and `"nomem"` are the three kinds
of assertion.  Not modelled: the clamp to `[0, -1)`, which changes nothing.

`__PAGE_OFFSET` is the address of the last entry of the top table, so the direct
map has 512 GiB and `__va` of more wraps to low addresses (`Wrap`).  A partial
mapping that begins below 512 GiB and ends there or above compares a high address
with a low one: it maps nothing, passes the assertion, and is counted as mapped
all the same (`mm.c:309`).  One that ends between the kernel's image
(`KernelMap`) and 512 GiB fails the assertion.  One wholly above 512 GiB is mapped
where the wrapped `__va` says.  `Lost` names the pages left out, `AllMapped` says
that they are all there are.

### EarlyMap, CacheModes and Paging

`at` is the next step of the boot; `tab` holds the entries of every table, the
static ones and the pages of `early_pages`; addresses count large pages, so a
load address is aligned, as the stub makes it.  The last entry of the top table
covers the direct map, the image and the fixmap, and the identity mapping lies in
the entries before it.  The processor is the other actor: `Fill` walks the tables
CR3 points to and caches a translation of any address in use, `Evict` forgets one,
both at any moment; MOV to CR3 keeps global entries, MOV to CR4 drops everything
if PGE or PCIDE changes.  The firmware's tables are the identity, with global pages
or not.  `Touch` is the kernel's next access to `__va(page)` and may come before
any step of the boot; it goes through (`Access`), is resolved by `do_early_map`, or
halts.  `area` is the per-CPU section and its copies, `gs` the one in use.

In `CacheModes` a mapping is a mode and the bits it got; mappings are made by a
constructor before the PAT is programmed (`con_setup` of the framebuffer) and by
drivers after it.  `pat_bp_init` changes the tables, and two flushes of the TLB lie
between it and the MSR.  The PAT and the MTRRs are as the firmware left them: if it
is not the PAT of a reset, a mapping made before `pat_cpu_init` may have another
mode until then, and `ModesAgree` claims it only from then on.  `mtrr_cpu_init`
clears the default type with the enable bits, which makes all memory UC
(`EffectiveModes`); only WC in the PAT overrides that.

Building the direct map is one step for each PUD entry in `EarlyMap`, and
`DirectMap` in detail; `Paging` runs either.  The processor's caches of upper-level
entries are left out: every switch that matters here writes CR3 or flips PGE,
which drops them with the TLB.  So are the fixmap's own page tables
(module `Fixmap`).

### Fixmap

Slots are numbered by virtual page.  `mapping` is the array of the same name,
`level1` the two page tables, `held` what callers have and have not given back.
`iounmap` does nothing unless the size it is given makes as many pages as
`mapping` records; the model lets callers pass any size.
Setting an entry and flushing it are two steps, and `TlbLoad` may happen at any
point, also between them.  `Beyond` is the set of values the word behind
`mapping[]` may have, since `find_free_range` reads it.

### Acpi

The firmware's XSDT is chosen in the initial state: its length in pages, its
checksum, and entries that may be null or repeat.  `mapping` is the array of
`ioremap.c`, with `Window` slots, and `slot` says where each address is mapped; a
header takes one page or two (`HeadPages`), and a table may begin inside a page
(`Inside`).  A mapping takes the first run of free slots.  If there is none,
`Unmapped` says what the scan of `find_free_range` makes of the word behind the
array, `Beyond`: NULL, the assertion of `__set_fixmap`, or no end.  `acpi_unmap`
leaves a mapping that begins inside the page of the last slot.  Acquiring a table
(map the header, read the length, unmap, map the whole, check) is one action for
each mapping, shared by the XSDT and the tables it lists; a table that cannot be
acquired is passed over, an XSDT that cannot stops the kernel.  `acpi_get_table`
and `acpi_put_table` come in any order after initialisation.

`NothingLeftMapped` says which slot may be lost and when: the last one, if the
XSDT takes all others and it lists a table that begins inside a page and whose
header lies in one page.  `Usable`, on which `TablesFaithful` rests, leaves out
the tables that then find no room.

### Madt

The MADT is any sequence of entries of the given kinds, in which an enabled
processor is listed once.  Each pass of `boot.c` walks all of it, one action for
each subtable (`acpi_subtable_parse` with the pass's handler).  `err` is not
initialised in the code: the test of it when no entry matched is a
nondeterministic choice.  In x2APIC mode the kernel reads the APIC through an
entry it has not mapped; that is `"fault"`.  A read of an IO-APIC's register
beside the IO-APIC gives some value of `ReadElsewhere`.

### Params

Characters are members of a small set; cells of the buffer that nothing was
written to hold `JUNK`.  One buffer serves all options, as `do_param` has it, so
what one option leaves is there for the next.  A line of `SIZE` characters has no
terminating NUL.  The options are the early ones, in the order of `.init.setup`;
what their functions do with the value is not modelled.

### Format, Strtox and Text

`Format` keeps the parser's locals (`fstate`, `flags`, `width`, `precision`,
`rank`); `ap` is the arguments left.  Flags are the bit mask of the code because
`%p` passes them for a base.  A write in front of `t_str` or a read behind the
digits is `"fault"`.  `FormatRight` compares with a field built from a description
of the item, not from the format; `Supported` names what the code does not do right
(see below).  After each item the format goes on with `%%` and a plain `%u`, so that
what a directive leaves behind would show.

`Strtox` reads through a scratch buffer that is filled anew when it is empty;
putting a character back at its start is refused silently, as in the code.
`ParseRight` defines the number by its figures, and says where the stream stands
afterwards.  The width of `long long` is a constant.  `Text` adds the round trip.

### Boot

`mem`, `st`, `req`, `res` are the variables of `MemblockAbs`, of which this module
is the client: a step either makes a call or lets `MemblockAbs` answer it.
`descs` is the firmware's memory map, `e820` the table made of it, `mapped` the
pages of the direct mapping, `brk` the pages its tables take.  An allocation is
refused if there is no block for it, and any call with a size if memblock's array
has no two spare entries; such a refusal leaves the number of entries as it is, so
from then on (`full`) every later call with a size is refused too.  Nobody looks at a refused
reservation, but the per-CPU areas are not handed out either, and the kernel stops
at their assertion (`setup_percpu.c:47`).  An add may find the array full as well
(`AddHalts`).  The loader puts kernel and ramdisk into memory, apart, and the kernel
above the first MiB.  In the run the ramdisk begins on a page; one that does not
shares a page with free memory, which is then not mapped (`memblock.c:280`).

### EfiBoot

Two actors: the stub (`pc`, one action for each call of a boot service) and the
firmware (`mem`, `key`, `phase`), whose `Event` takes or gives back a page at any
moment before ExitBootServices is first called; after a refused call the
firmware's timers are off, so memory no longer changes by itself.  Every change
makes map keys stale.  The firmware puts an allocation anywhere it fits and fails
only when nothing does; ExitBootServices succeeds or answers
EFI_INVALID_PARAMETER.  A pool buffer takes a page.  `late` collects the services
called after ExitBootServices.  Decompression succeeds or fails here and is
modelled in `Deflate`; the search for
the RSDP only reads.  The buffers `query_mode` returns belong to the firmware here:
the stub does not give them back (`efi.c:271`).

### Deflate, Gzip and Loader

A bit reader is a record that every operator returns anew, with the error the code
keeps in `d->error`.  One step is a block's header, a symbol of the code lengths, or
a symbol of the data.  The checksum is computed with the code's table of sixteen
words.  An index outside an array, a shift by 127 and a copy from before the output
are `"fault"`; the size of the destination is not known to the code and not
modelled.  `Gzip` makes files from descriptions of blocks, with code lengths given
for each symbol and the choice of run lengths; the checksum of its trailer is
computed bit by bit.  `Loader` runs either the stub or the decompression.
What `InflateRight` says of damaged files is about those of the run, those that end in
`"fault"` left out; the code does not look at the size in the trailer, nor does the
property.

### Console

`console_setup` runs first, then the constructors of the two consoles in either
order (both have the same priority), then the log is used.  Entries of `pcs` have
a name, an index and the I/O port of `uart,io,<addr>`; the strings are parsed
already.  A port that does not exist is not refused by `8250.c`: the model
ends there (`"wild"`), and `ActiveReady` says when that may happen.  `ulog` hands
one piece to `__iob_write` (the formatter makes several calls); the piece is split
behind its last newline, and the buffer filled, flushed or bypassed.  The screen
is an array of pixels with a pitch; a pixel is the set of what has been drawn
there, since drawing clears nothing.  Width, height and pitch are what the firmware
says and need not be multiples of a character's: the last column and row may be
there in part.  What is drawn beyond the right edge lands in the rest of the line
or at the start of the next, and what is drawn below the last line lands behind it
while the framebuffer lasts.  Where it no longer does, the character hits something
else, which is `EmitFault` and ends the model, or nothing, as in the rest of the
framebuffer's last page.  A screen is at least as high as a
character, as `efifb_scroll_screen` subtracts without a look.  `out` and `sent` are
histories for the properties.

## Runs

Passing runs; each property has a mutant that violates it.

| Run | Instance | Properties |
|---|---|---|
| `memblock` | 3 entries, 4 bytes, nodes -1 and 0, alignment 2 | `TypeOK`, `Sorted`, `Merged`, `NoFault`, `SizeIsCoverage`, `IsolationExact`, `IsolateHasRoom`, `ImplementsAbs` |
| `memblock_alloc` | 6 entries, 4 bytes, alignments 1 and 2 | `AllocFailsOnlyWhenFull` |
| `memblock_remove` | 4 entries, 3 bytes, one remove, any bytes behind the array | `NeverWrong` |
| `fixmap` | 4 slots, pages of 2 bytes, two addresses, sizes 0, 1, 3, 9 | `Translates`, `TlbCoherent`, `NoSlotLost`, `Terminates` |
| `paging` | direct map: 11 pages of 2 bytes, 2 entries to a table, wrap at page 8, all layouts of 1 or 2 regions; boot: 6 entries to a table, 4 early pages, an image of 2 large pages, 3 machines, 5 pages touched, 1 TLB entry, 2 CPUs | `OnlyMemory`, `AllMapped`, `LargestPages`, `EarlyTranslates`, `EarlyPagesReused`, `ShadowAgrees`, `ModesAgree`, `FaultResolved` |
| `acpi` | XSDT of up to 4 entries over 6 tables, 3 table slots, window of 3 pages, the word behind it -1, 0 or 1 | `NothingLeftMapped`, `TablesFaithful`, `AnswerRight` |
| `madt` | MADT of up to 4 of 10 entries in any order, 2 CPUs, 2 IO-APICs | `CpuNumbers`, `IoApicsFaithful` |
| `text` | command lines of up to 7 of 4 characters, options `ab` and `a`, 3 cells; 8 sets of flags by 5 widths by 5 precisions for every conversion, with a `long long` of 8 bits; strings of up to 4 of 8 characters in bases 0, 2, 10, 16 | `LastValueWins`, `FormatRight`, `ParseRight`, `ReadsBack` |
| `boot` | 6 pages of 2 bytes, up to 4 descriptors, 3 e820 entries, 2 CPUs, an array that is full from any call on | `MemoryFromFirmware`, `OwnersApart` |
| `loader` | 7 pages, kernel of 1 page aligned to 3, 2 events, up to 2 of 4 graphics devices; some 200 files, good and damaged | `HandOver`, `NothingLost`, `NoLateService`, `InflateRight` |
| `console` | 2 slots for 3 ports, 7 settings of `console=`, 5 characters in pieces of up to 3, buffer of 2, screen of 3 by 3 pixels with characters of 2 by 2 | `ActiveReady`, `LogFaithful`, `DeviceShows` |

Why the bounds are enough.  A cut, an insertion and a merge involve at most
three neighbouring entries; three entries, an array that overflows, and four
bytes give every relation of a range to them: before, touching, crossing either
end, inside, around.  For `AllocFailsOnlyWhenFull`, which excuses a full array, six
entries hold the four regions four bytes can make and the two spare ones, so it
excuses nothing there.  `memblock_remove` has an array that holds three bytes' regions
and one entry more.  There is no bound on the number of calls,
except of `memblock_remove`, which is not called in the kernel.  In `DirectMap`,
two entries to a table make a large page 2, a huge page 4 and the direct map's top entry 8
pages, so eleven pages hold two aligned huge pages before the wrap, three pages
behind it, and regions across it; with pages of
two bytes every region boundary is tried aligned and unaligned.  Four slots in
`Fixmap` allow two holes around a held range, and requests of zero, one, two and
more pages than there are.

An XSDT of four entries overflows the table of three and has room for null,
damaged, empty, oversized and repeated entries; a window of three pages makes
every mapping fail somewhere, and an XSDT of two pages leaves the last slot alone.  Four MADT entries hold three processors, one more
than there are numbers, with the boot processor at every place, or a processor and
one IO-APIC too many, or two overrides around another entry.  Seven characters hold an option with a value that
overflows the buffer, or the same option twice, or one option and the other one that
begins with it.  Six pages are the first MiB, kernel, brk, and two pages over
which ramdisk, holes and per-CPU areas compete; four descriptors overflow the e820
table of three.

An alignment of three pages puts an allocation at every distance from its
boundary.  One slack descriptor and two events make a map stale, make it grow past
its buffer, and do both around the first ExitBootServices.  Pieces of up to three
characters are shorter than, as long as and longer than the buffer, with a newline
at every place.  Three pixels a side are a character and a half; five characters
fill such a screen of two columns and two rows, wrap and scroll it.  Screens of
whole characters and with pixels beside them are a simpler case, and included in
the proof.

The boot instance has an image inside one table and one across two, so that the
identity mapping takes two or three of the four early pages and they must come
back; the pages touched lie in the image's own large pages, elsewhere in memory
and, for tables of the firmware, outside it, in four different PUD entries, one
more than there are pages left for.  One TLB entry is enough to be wrong: what is
cached is not constrained by what else is, and every address gets its turn.  The
machines differ in INVPCID, in the firmware's global pages and in the load address.
A `long long` of 8 bits makes the least and the greatest number of each of four
widths print and read; four characters hold a sign, a prefix and figures, or a
number that overflows.  The files use every kind of block alone, after and before
another, every code length from 1 to 15, both ends of the classes of lengths and
of distances up to 256, runs of code lengths across both alphabets, and every
combination of header fields; they are cut at several places and changed in the
header, the data and the checksum.

Deadlock is not checked, because these systems really stop: at an assertion, and
all but `Memblock`, `Fixmap` and `Acpi` also when they are done.

Fairness.  Weak fairness of the steps of a call in progress (`Step` in
`Memblock` and `Fixmap`): a processor that runs one thread with interrupts off
executes the next instruction.  New calls are not assumed to come.  In `Paging`
weak fairness of the access in progress: an instruction that faults is executed
again when the handler returns, and goes through, faults or halts; the boot is not
assumed to go on.

A run that ends in a violation, a disagreement between the code and what the
repository says of it (`findings` in `PROJECT.json` quotes the lines):

* `madt_redir`: the number of redirection entries of an IO-APIC that does not
  begin a page is read beside its registers.

Other places where the models follow the code against its comments or against
what one would expect, and the properties say so:

* `find_free_range` gives up one slot too late (`ioremap.c:72`): it reads the word
  behind `mapping[]`, and at a full window that word may make it count a slot that
  is not there, at which the assertion of `__set_fixmap` stops the kernel
  (`ioremap.c:56`) where NULL should be the answer (`Fixmap`, and `Unmapped` in
  `Acpi`).
* a boolean option's function is given whatever the buffer held before
  (`params.c:63`); `LastValueWins` is about options with a value.
* the command line's index of a serial port is not checked (`8250.c:143`), and an
  address that matches no port leaves the index -1 (`8250.c:185`).
* after a refused ExitBootServices the error path still prints and exits through
  the firmware (`efi.c:398`); `NoLateService` allows these two calls, in this order,
  after the retry has failed, and no other.
* `merge_regions` is entered with a range whose last entry is one past the end
  (`memblock.c:80`, comment in line 68); `NoFault` is why that is harmless.
* `remove_region` subtracts the size of the entry behind the one it removes
  (`memblock.c:61`), so `SizeIsCoverage` is checked without removes.
* a mapping that begins in the last slot at an offset into the page is never
  unmapped (`ioremap.c:143`); `NoSlotLost` leaves that slot out, and
  `NothingLeftMapped` says when the ACPI code loses it.
* part of the memory at the wrap of `__va` is left out of the direct map without a
  halt (`mm.c:174`; comment in `mm.c:67`), and counted (`mm.c:309`): `Lost`, which
  `AllMapped` and `LargestPages` name.
* with the MTRRs off memory is not of the type the PAT says, as the comment in
  `cache.c:195` has it, but uncached, write-combining aside: `ModesAgree` says so.
* no resolution is refused (`efifb.c:96`): a partial last row is drawn below the
  screen, and outside the framebuffer if that has no room for it.
* a page shared by two regions is not mapped (`memblock.c:280`); `AllMapped` is
  about pages inside one region.
* a pass over the MADT that finds no entry tests an uninitialised `err`
  (`acpi.c:274`) and may report a failure that did not happen.
* the boot processor's own entry uses up a number (`apic.c:40`), so one of
  `NR_CPUS` processors may be dropped; `CpuNumbers` says which.
* in x2APIC mode the APIC ID is read through an unmapped entry (`apic.c:57`).
* `%p` is right only without flags: base and flags are passed in each other's place
  (`vsnprintf.c:327`); a negative `char` or `short` prints as a positive number
  (`vsnprintf.c:133`); a precision above 64 writes in front of `t_str`
  (`vsnprintf.c:109`).
* `strtoll` of an empty string succeeds and leaves the result unset (`strtox.c:87`).
* `decompress_gzip` takes a damaged file's word for code lengths and distances
  (`deflate.c:267`, `deflate.c:348`): the model ends in `"fault"` there.
* `IS_ALIGNED` in `__startup_64` is given a shift for a size (`__head_64.c:261`), and
  `__get_free_page` has no bound (`__head_64.c:207`).
* a fault in a hole of the image or of the fixmap would be mapped by `do_early_map`
  as if it were one of the direct map (`__head_64.c:144`).
* `strncpy` clears `SIZE_MAX` bytes when the source fills the buffer
  (`string.c:140`; `console.c:62` calls it with a word of the command line), and
  `memcmp` stops at the first byte that is equal (`string.c:194`, no caller).  The
  string functions are not modelled.
* ranges that wrap around 2^64 (`memblock.c:110`) and regions that share a page
  (`memblock.c:280`) have no meaning in the code; a layout that needs more pages
  than the brk has ends in `"nomem"` (`mm.c:48`).
* a value at the end of the command line is counted one longer than the same value
  elsewhere (`params.c:79`); nobody uses the size.

In `fixmap` the word behind `mapping[]` is -1 or positive.  With 0 the scan would
not end at a full window (`Terminates` fails), and with other negative numbers it
would go back into ranges that are in use; both are consequences of the same
line.

## Proofs

Each theorem holds for every value of the constants that satisfies the module's
`ASSUME`, which says that the constants have their types and the few things about
them that the code or the hardware guarantees; a further hypothesis is part of the
theorem's statement.  Every inductive invariant below was checked with TLC on the
instance of its run before it was proved.

`MemblockProofs`, from `MemblockAssumption` (sizes are not zero).  The first part:

* `TypeCorrect`: `TypeOK`.  Inductive with `IndexInv`, which bounds the locals of
  each loop by `n`, as an index is only inside the array while the entries it
  was computed from are still there.
* `SortedAlways`: `Sorted`.  Inductive with `AddInv`: while `add_range` is in its
  loop, the entries before `i` end at or before the part still to be added.  The
  argument is about four edits of a sorted array (`InsertInOrder`,
  `DropInOrder`, `SplitInOrder`, `JoinInOrder`).
* `IsolateNeverHalts`: `IsolateHasRoom`.  Inductive with `RoomInv`: as many spare
  entries are left as boundaries of the range still lie inside an entry; a
  boundary lies inside at most one entry of a sorted array, and cutting there
  removes the crossing (`SplitCrosses`).
* `KernelNeverFaults`: `NoFault`, assuming `MaxRemoves = 0` and
  `~BeyondMayMatch`.  Inductive with `StaleInv`: an entry past the end begins
  before the end of the last live entry, so it never looks like its
  continuation.

Its second part, what the array says of memory, on top of these:

* `RangeIsolated`: `IsolationExact`.  `IsolateInv` is the loop invariant of
  `isolate_range`: entries passed lie before the range, or inside it and between
  `start` and `stop`; a second entry that crosses `base` cannot come after one that
  lies inside.
* `NeighboursMerged`: `Merged`.  `MergeInv` names, for each loop, the entries that
  may continue in the next one (`Loose`): next to the inserted entries in
  `add_range`, at the two cuts in `isolate_range`, the isolated range and the entry
  before it in the loops that change entries, and what `merge_regions` has not
  reached.  No hypothesis about removals is needed: behind the last removed entry
  there is a gap.
* `SizeRight`: `SizeIsCoverage`, assuming `MaxRemoves = 0`, because
  `remove_region` subtracts the wrong size (see the list above).  An inserted entry adds
  bytes nobody has; a cut, a join and a change of flags cover the same bytes.
* `AllocComplete`: `AllocFailsOnlyWhenFull`.  A block whose bytes are alike lies
  inside one entry, or the byte at which the first entry ends would begin a second
  one that `MergeInv` excludes (`BlockInOneEntry`); so the search entry by entry is
  complete (`FindComplete`), and the array does not change between a failed search
  and the answer.

Its third part, the refinement, on top of both:

* `MemblockImplementsAbs`: `NeverWrong`, that is, `Spec => Abs!Safety`, with removals
  and any bytes behind the array; `ImplementsAbs` has fairness besides.  `Shape` says what the mapping shows of a byte: the entry that holds it,
  which is one because the array is sorted, as the loop in progress will leave it.
  Inserting, cutting, joining, updating and dropping an entry then show every byte
  as before (`InsertUnseen`, `SplitUnseen`, `JoinUnseen`, `SetUnseen`,
  `RemoveUnseen`), and a call takes effect in one step, at the end of
  `isolate_range` (`EffectSeen`), which needs `IsolateInv`.  `FoundInv` is why a
  block may still be handed out at that step: `find_in_range_node` found it free
  (`FindSound`), found nothing on the node asked for if it is on another
  (`AllocInv`, `BlockSeen`), and no step since then showed a byte differently.
  `RoomInv` excludes the assertion of `insert_region` inside `isolate_range`.
  `Boot` is a client of `MemblockAbs`, so this is what lets its theorems speak of
  the allocator there is.

`FixmapProofs`, from `FixmapAssumption`:

* `TlbAlwaysCoherent`: `TlbCoherent`, whatever the word behind `mapping[]` holds.
* `MappingsTranslate` and `SlotsNeverLost`: `Translates` and `NoSlotLost`, assuming
  that word is not below -1.  The hypothesis is needed: the scan of
  `find_free_range` adds the word to its index, and a smaller one takes it back
  into a range that is in use.  `MapInv` says that the lengths in `mapping[]`
  describe disjoint ranges, that the scan's index is never inside one, and which
  entries of the tables each half-finished call has written.

`EfiBootProofs`, from `EfiBootAssumption` (pages the stub itself lies in count as
the firmware's):

* `MemoryGivenBack`: `NothingLost`; `HandOverRight`: `HandOver`;
  `NothingCalledLate`: `NoLateService`.  The inductive invariant `EfiInv` says what
  the stub holds at each step and that these pages are disjoint (`HoldsInv`,
  `OwnsInv`), that the key it keeps names the map it keeps (`KeyInv`), which
  services were called since the last refusal (`LateInv`), and what was chosen for
  the screen (`ScreenInv`).

`PagingProofs`, about `PagingSpec`.  Its first part, from `EarlyAssumption`:

* `BootTranslates`: `EarlyTranslates`; `ShadowRight`: `ShadowAgrees`; `ModesKept`:
  `ModesAgree`; `PagesReused`: `EarlyPagesReused`.  They share one inductive
  invariant, `EarlyInv`: the contents of each table at each step of the boot
  (`TabInv`), that a cached translation is one the tables hold or one that a later
  flush removes before its address is used otherwise (`TlbInv`), and the CR4 shadow
  and PAT tables step by step.  `PagesReused` counts pages with a bijection between
  the early pages in use and the entries of the direct map.

Its second part, from `DirectMapAssumption` (a table has at least two entries, and
`init_mem_mapping` is handed sorted regions that end below `MaxPages`; their order
is what `SortedAlways` proves of memblock's array):

* `OnlyMemoryMapped`: `OnlyMemory`; `AllMemoryMapped`: `AllMapped`;
  `LargestPagesUsed`: `LargestPages`.  They share `DirectInvariant`, which says page by
  page which table entries lead to it, that the regions before the one in work are
  mapped and nothing behind the point reached is, which phase a page falls
  into (small pages up to a 2 MiB boundary, 2 MiB pages up to a 1 GiB boundary,
  1 GiB pages, and down again), and the largest page each level may hold.  The
  arithmetic of rounding up and down to multiples of a table's span is a section of
  lemmas of its own, from `DivisionIs` to `PagesInOrder`.  `LostInv` follows what
  the wrap of `__va` leaves out, region by region: of the five partial mappings of a
  region that reaches it, one may end behind it and is lost, those before it are
  mapped below the wrap and those after it above.

`BootProofs`, from `BootAssumption` and `LayoutAssumption` (the linker script, the
real-mode blob, the firmware's descriptors and the ramdisk begin and end on pages,
as `ukernel.lds.S`, `realmode/init.c` and EFI make them):

* `OwnersNeverMeet`: `OwnersApart`; `FirmwareMemoryKnown`: `MemoryFromFirmware`.
  Refusals are included: once `full`, no call with a size has an effect, so what was
  reserved stays apart and nothing more is handed out.  `BootInv` relates the e820 table
  to the descriptors read so far, memblock to the table, and every owner to the
  bytes it reserved before anything could be allocated over it.

`ConsoleProofs`, from `ConsoleAssumption`:

* `ConsoleReady`: `ActiveReady`.  `ChoiceInv` says that the console being tried is
  not the one that is active and has not been set up yet (`Order`), so
  `ExitActive` never names the port just enabled; and that no entry the search has
  passed over asks for a port there is (`NoneExists`), because such an entry suits
  the serial console (`ExistingSuits`).  A port that was never registered is only
  reached by an entry that asks for it (`WildEntry`).
* `LogKept`: `LogFaithful`.  `LogInv` says that what was logged is, in order, what was
  written, what the console's write holds, the buffer, the rest of the lines and the
  part behind them (`Conserved`), and where an end of line can be (`LogPhase`).
* `DevicesShowOutput`: `DeviceShows`.  `DeviceInv` gives the cursor as the row and column
  of the character to come (`CursorIs`), and every pixel as what the characters in the
  last rows have put there, those included that stick out of a line or of the screen
  (`Shown`, `StuckOut`).  A character changes the place of none before it
  (`PlaceKept`), adds itself to the pixels it covers (`ShownMore`), and scrolling makes
  every pixel the one a row of characters below (`RowBelow`, `ShownScrolled`), whatever
  the pitch is.  Columns are counted from the last end of line and rows by the breaks
  before, without recursion.

`AcpiProofs`, from `AcpiAssumption`:

* `NothingStaysMapped`: `NothingLeftMapped`.  `WindowInv` says which slots are taken at every step
  of the table walk and of a search: the XSDT first, the table in work behind it, and
  the last slot once it is lost (`Blocks`).
* `ArrayFaithful`: `TablesFaithful`.  `ArrayInv` gives the array after the first i - 1
  entries of the XSDT: each usable table asked for is in the slot that counts the usable
  ones before it (`RankReached`), until the array is full.
* `AnswersRight`: `AnswerRight`.  A search begins with nothing mapped but a lost last slot and looks only at
  tables that were usable when they were recorded, so mapping them cannot fail
  (`WorkInv`), and the instance it stops at is the one that was counted.

`MadtProofs`, from `MadtAssumption` (an entry has the fields of its type); the tables of
`Init` list an enabled processor once:

* `CpusNumbered`: `CpuNumbers`; `IoApicsKept`: `IoApicsFaithful`.  `MadtInvariant` says for
  each pass what the entries before the current one have left (`WalkInv`): the
  processors seen so far have their place in the table as their number, but the boot
  processor, whose entry takes a place too, has 0, until `NR_CPUS` is reached (`LapicInv`, `CpusInv`); the
  IO-APICs seen so far fill the slots in order, and the APIC's address is that of the
  last override (`IosInv`).

The reference of these properties is a count: the n-th of the elements a loop keeps is
the one with n - 1 such elements before it (`UsableAmong`, `Place`, `IoAmong`).
Together with the number of elements kept this says what a filter of the sequence
would, in a form the provers can add an element to.

Only model-checked:

* liveness (`Terminates`, `FaultResolved`, the fairness half of `ImplementsAbs`):
  fairness and ENABLED are outside the prover;
* `LastValueWins` of `Params`, `FormatRight` of `Format`, `ParseRight` of `Strtox` and
  `ReadsBack` of `Text`, whose references read a text word by word or a number digit by
  digit: that needs induction over data;
* `InflateRight`: `Deflate` and `Gzip` use RECURSIVE operators.

## Plan

1. Done: memblock with its abstract specification, direct map, fixmap; `Acpi` and
   `Madt`; `Boot` with the e820 table; `EfiBoot` and `Deflate`; `Console`; `Params`,
   `Format` and `Strtox`; `EarlyMap` with the CR4 shadow, and `CacheModes`.
2. Proofs: done for `Memblock` with its refinement, `Fixmap`, `EfiBoot`, `Paging`
   (`EarlyMap`, `CacheModes` and `DirectMap`), `Boot`, `Console`, `Acpi` and `Madt`.
   Next: `LastValueWins` of `Params`.
3. If the code grows: application processors (`trampoline_64.S`, `startup_64_smp`),
   user tasks and interrupts, of which only the beginnings exist.

## Not modelled

The gates of the IDT and the entry code (constants and assembly), the parts of
CPUID that are only printed, the real mode trampoline, the RSDP search, the string
functions (loops over bytes; the models compare and copy sequences), single
register accesses of the UART, the font, host tools (`relocs.c`) and the build
system.  None keeps state of the kind these models are about.
