-------------------------------- MODULE Acpi --------------------------------
(***************************************************************************)
(* The table of ACPI tables (drivers/acpi/acpi.c): found through the RSDP  *)
(* and the XSDT at boot, searched by signature afterwards.  Firmware       *)
(* memory is only reachable through temporary mappings of memremap, from a *)
(* window of Window pages; every function here maps what it reads and must *)
(* unmap it again on every way out.  What ioremap.c makes of a window that *)
(* is full, and of its last slot, is part of the module.                   *)
(***************************************************************************)
EXTENDS Integers, Sequences, FiniteSets

CONSTANTS
    Tables,        \* physical addresses of tables
    HeadPages,     \* pages the header at an address takes when it is mapped
    Pages,         \* pages a table takes when it is mapped; 0: its length is 0
    Inside,        \* addresses that are not the first of a page
    Valid,         \* its checksum is right
    Sig,           \* its signature
    Sigs,          \* signatures looked for
    XsdtPages,     \* lengths of the XSDT to try, in pages
    MaxEntries,    \* bound of the number of XSDT entries
    MaxInstance,   \* bound of 'instance'
    ACPI_MAX_INIT_TABLES,
    Window,        \* TOTAL_FIX_BITMAPS
    Beyond         \* what the word behind mapping[] may hold

NULL == 0
NONE == -1
XSDT == 1
Slots == 0 .. Window - 1
Addrs == Tables \cup {XSDT}

ASSUME AcpiAssumption ==
    /\ Tables \subseteq Nat \ {NULL, XSDT}
    /\ HeadPages \in [Addrs -> 1 .. 2]
    /\ Pages \in [Tables -> Nat]
    /\ Valid \in [Tables -> BOOLEAN]
    /\ Sig \in [Tables -> STRING]
    /\ Sigs \subseteq STRING
    /\ XsdtPages \subseteq Nat
    /\ MaxEntries \in Nat /\ MaxInstance \in Nat
    /\ ACPI_MAX_INIT_TABLES \in Nat \ {0}
    /\ Window \in Nat \ {0, 1}
    /\ Beyond \subseteq Nat \cup {NONE}

VARIABLES
    rsdp,          \* boot_params.acpi_rsdp_addr, and the revision found there
    xsdt,          \* the XSDT in memory: its pages, checksum and entries
    mapping,       \* pages of the range that starts at a slot, or NONE
    slot,          \* where an address is mapped, as the code holds it
    acpi_tables,   \* the addresses recorded, in order
    pc,
    cur,           \* the table being acquired
    i,             \* index of the XSDT entry in work
    table,         \* the table handed out by acpi_get_table, or NULL
    req            \* signature and instance asked for

firmware == <<rsdp, xsdt>>
window == <<mapping, slot>>
vars == <<firmware, window, acpi_tables, pc, cur, i, table, req>>

NoReq == [sig |-> "", instance |-> 0]

Init ==
    /\ rsdp \in [found : BOOLEAN, revision : {0, 2}]
    /\ xsdt \in [pages : XsdtPages, valid : BOOLEAN,
                 entry : UNION {[1 .. k -> Tables \cup {NULL}] : k \in 0 .. MaxEntries}]
    /\ mapping = [s \in Slots |-> NONE]
    /\ slot = [a \in Addrs |-> NONE]
    /\ acpi_tables = <<>>
    /\ pc = "init" /\ cur = XSDT /\ i = 1
    /\ table = NULL /\ req = NoReq

PagesAt(a) == IF a = XSDT THEN xsdt.pages ELSE Pages[a]
ValidAt(a) == IF a = XSDT THEN xsdt.valid ELSE Valid[a]

First(S) == CHOOSE j \in S : \A h \in S : j <= h

Reserved == UNION {s .. s + mapping[s] - 1 : s \in {s \in Slots : mapping[s] # NONE}}

\* Where p pages are free in a row; find_free_range takes the first such slot.
Runs(p) == {s \in Slots : s + p <= Window /\ (s .. s + p - 1) \cap Reserved = {}}
CanMap(p) == p > 0 /\ Runs(p) # {}

acpi_mmap(a, p) ==
    /\ mapping' = [mapping EXCEPT ![First(Runs(p))] = p]
    /\ slot' = [slot EXCEPT ![a] = First(Runs(p))]

\* The last p - 1 slots are free.
OneShort(p) == (Window - p + 1 .. Window - 1) \cap Reserved = {}

\* How memremap ends when it does not map p pages.  A search reads the word
\* behind mapping[] before it gives up: 0 there keeps it at that word for
\* good, and a free mark completes a range that is one slot short, whose last
\* page fails the assertion of __set_fixmap.
Unmapped(p) ==
    IF p \in 1 .. Window
    THEN {IF b = 0 THEN "spin" ELSE IF b = NONE /\ OneShort(p) THEN "assert" ELSE "NULL" : b \in Beyond}
    ELSE {"NULL"}

Null(p) == ~CanMap(p) /\ "NULL" \in Unmapped(p) /\ UNCHANGED window
Stops(p) == ~CanMap(p) /\ pc' \in Unmapped(p) \ {"NULL"} /\ UNCHANGED window

\* iounmap takes an address behind the start of the last slot for one outside
\* the window and leaves it mapped.
acpi_unmap(a) ==
    /\ mapping' = IF slot[a] = Window - 1 /\ a \in Inside THEN mapping
                  ELSE [mapping EXCEPT ![slot[a]] = NONE]
    /\ slot' = [slot EXCEPT ![a] = NONE]

-----------------------------------------------------------------------------
(* acpi_table_init, acpi_parse_root_table.                                 *)

\* The assertion of acpi_boot_table_init stops the kernel.
Fail == pc' = "halt"

\* The RSDP is mapped, read and unmapped at once: the window is still empty.
acpi_table_init ==
    /\ pc = "init"
    /\ IF rsdp.found /\ rsdp.revision = 2
       THEN pc' = "header" /\ cur' = XSDT
       ELSE Fail /\ UNCHANGED cur
    /\ UNCHANGED <<firmware, window, acpi_tables, i, table, req>>

-----------------------------------------------------------------------------
(* acpi__acquire_table: the header is mapped for the length, then the      *)
(* whole table, then its checksum is taken.                                *)

Acquired ==
    pc' = IF cur = XSDT THEN "entries" ELSE "add"

\* A table that is not acquired is passed over, except the XSDT.
NotAcquired ==
    IF cur = XSDT THEN Fail /\ UNCHANGED i
                  ELSE pc' = "entries" /\ i' = i + 1

MapHeader ==
    /\ pc = "header"
    /\ \/ CanMap(HeadPages[cur]) /\ acpi_mmap(cur, HeadPages[cur]) /\ pc' = "length" /\ UNCHANGED i
       \/ Null(HeadPages[cur]) /\ NotAcquired
       \/ Stops(HeadPages[cur]) /\ UNCHANGED i
    /\ UNCHANGED <<firmware, acpi_tables, cur, table, req>>

UnmapHeader ==
    /\ pc = "length"
    /\ acpi_unmap(cur)
    /\ pc' = "map"
    /\ UNCHANGED <<firmware, acpi_tables, cur, i, table, req>>

MapTable ==
    /\ pc = "map"
    /\ \/ CanMap(PagesAt(cur)) /\ acpi_mmap(cur, PagesAt(cur)) /\ pc' = "validate" /\ UNCHANGED i
       \/ Null(PagesAt(cur)) /\ NotAcquired
       \/ Stops(PagesAt(cur)) /\ UNCHANGED i
    /\ UNCHANGED <<firmware, acpi_tables, cur, table, req>>

\* (Mutant of Validate: a table with a wrong checksum stays mapped.)
ValidateHeld ==
    /\ pc = "validate"
    /\ IF ValidAt(cur) THEN Acquired /\ UNCHANGED i ELSE NotAcquired
    /\ UNCHANGED <<firmware, window, acpi_tables, cur, table, req>>

Validate ==
    /\ pc = "validate"
    /\ IF ValidAt(cur)
       THEN Acquired /\ UNCHANGED <<window, i>>
       ELSE NotAcquired /\ acpi_unmap(cur)
    /\ UNCHANGED <<firmware, acpi_tables, cur, table, req>>

-----------------------------------------------------------------------------
(* The loop over the entries of the XSDT, which stays mapped, and          *)
(* acpi_add_table; the __cleanup attribute releases 'table' on both ways   *)
(* out, and 'table_header' at the end.                                     *)

\* (Mutant of NextEntry: the loop ends at an empty entry.)
NextEntryStops ==
    /\ pc = "entries" /\ i <= Len(xsdt.entry)
    /\ IF xsdt.entry[i] = NULL
       THEN i' = Len(xsdt.entry) + 1 /\ UNCHANGED <<pc, cur>>
       ELSE pc' = "header" /\ cur' = xsdt.entry[i] /\ UNCHANGED i
    /\ UNCHANGED <<firmware, window, acpi_tables, table, req>>

NextEntry ==
    /\ pc = "entries" /\ i <= Len(xsdt.entry)
    /\ IF xsdt.entry[i] = NULL
       THEN i' = i + 1 /\ UNCHANGED <<pc, cur>>
       ELSE pc' = "header" /\ cur' = xsdt.entry[i] /\ UNCHANGED i
    /\ UNCHANGED <<firmware, window, acpi_tables, table, req>>

HasSpace == Len(acpi_tables) # ACPI_MAX_INIT_TABLES

acpi_add_table ==
    /\ pc = "add"
    /\ acpi_tables' = IF HasSpace THEN Append(acpi_tables, cur) ELSE acpi_tables
    /\ acpi_unmap(cur)
    /\ i' = i + 1
    /\ pc' = "entries"
    /\ UNCHANGED <<firmware, cur, table, req>>

EntriesDone ==
    /\ pc = "entries" /\ i > Len(xsdt.entry)
    /\ acpi_unmap(XSDT)
    /\ pc' = "idle"
    /\ UNCHANGED <<firmware, acpi_tables, cur, i, table, req>>

-----------------------------------------------------------------------------
(* acpi_get_table and acpi_put_table; acpi_table_parse asks for instance 1 *)
(* and runs its handler in between.                                        *)

\* The indices the loop does not pass over: matches not before 'instance'.
Matches(s, k) ==
    {j \in 1 .. Len(acpi_tables) :
        /\ Sig[acpi_tables[j]] = s
        /\ k <= Cardinality({h \in 1 .. j : Sig[acpi_tables[h]] = s})}

\* (Mutant of acpi_get_table: the last match is taken.)
acpi_get_tableLast(s, k) ==
    /\ pc = "idle"
    /\ req' = [sig |-> s, instance |-> k]
    /\ IF Matches(s, k) = {}
       THEN pc' = "failed" /\ UNCHANGED <<window, table>>
       ELSE LET t == acpi_tables[CHOOSE j \in Matches(s, k) : \A h \in Matches(s, k) : h <= j]
            IN  \/ CanMap(Pages[t]) /\ acpi_mmap(t, Pages[t]) /\ pc' = "handler" /\ table' = t
                \/ Null(Pages[t]) /\ pc' = "failed" /\ UNCHANGED table
                \/ Stops(Pages[t]) /\ UNCHANGED table
    /\ UNCHANGED <<firmware, acpi_tables, cur, i>>

acpi_get_table(s, k) ==
    /\ pc = "idle"
    /\ req' = [sig |-> s, instance |-> k]
    /\ IF Matches(s, k) = {}
       THEN pc' = "failed" /\ UNCHANGED <<window, table>>
       ELSE LET t == acpi_tables[First(Matches(s, k))]
            IN  \/ CanMap(Pages[t]) /\ acpi_mmap(t, Pages[t]) /\ pc' = "handler" /\ table' = t
                \/ Null(Pages[t]) /\ pc' = "failed" /\ UNCHANGED table
                \/ Stops(Pages[t]) /\ UNCHANGED table
    /\ UNCHANGED <<firmware, acpi_tables, cur, i>>

acpi_put_table ==
    /\ pc = "handler"
    /\ acpi_unmap(table)
    /\ table' = NULL /\ req' = NoReq
    /\ pc' = "idle"
    /\ UNCHANGED <<firmware, acpi_tables, cur, i>>

\* acpi_table_parse returns -ENODEV whatever the reason.
NotFound ==
    /\ pc = "failed"
    /\ req' = NoReq
    /\ pc' = "idle"
    /\ UNCHANGED <<firmware, window, acpi_tables, cur, i, table>>

-----------------------------------------------------------------------------
Step ==
    \/ acpi_table_init
    \/ MapHeader \/ UnmapHeader \/ MapTable \/ Validate
    \/ NextEntry \/ acpi_add_table \/ EntriesDone
    \/ acpi_put_table \/ NotFound

Next ==
    \/ Step
    \/ \E s \in Sigs, k \in 1 .. MaxInstance : acpi_get_table(s, k)

Spec == Init /\ [][Next]_vars

-----------------------------------------------------------------------------
(* Properties.                                                             *)

\* The header of a table stays mapped, in the last slot, if the XSDT fills
\* the rest of the window and the table begins inside a page: iounmap refuses
\* that address (ioremap.c:142).
Leaks(k) ==
    LET t == xsdt.entry[k]
    IN  t # NULL /\ t \in Inside /\ HeadPages[t] = 1

\* One of the first n entries has left its header mapped.
Leaked(n) == xsdt.pages = Window - 1 /\ \E k \in 1 .. n : Leaks(k)

\* Whenever no call is in progress, and when the boot is given up, nothing
\* is left mapped but the last slot, and that only as above: every early
\* return of acpi__acquire_table and acpi_add_table gives back what it took.
NothingLeftMapped ==
    /\ pc = "halt" => Reserved = {}
    /\ pc = "idle" => Reserved = IF Leaked(Len(xsdt.entry)) THEN {Window - 1} ELSE {}

\* The k-th entry of the XSDT is a table that can be mapped beside the XSDT,
\* its header first, and has a right checksum.
Usable(k) ==
    LET t == xsdt.entry[k]
    IN  /\ t # NULL /\ Valid[t] /\ Pages[t] > 0
        /\ xsdt.pages + HeadPages[t] <= Window /\ xsdt.pages + Pages[t] <= Window
        /\ ~Leaked(k)

\* How many of the first n entries of the XSDT are usable.
UsableAmong(n) == Cardinality({k \in 1 .. n : Usable(k)})

\* After the boot the array holds exactly the usable tables of the XSDT, in
\* its order, up to the array's length, however many empty, damaged or
\* oversized tables are between them.
TablesFaithful ==
    pc = "idle" =>
        LET n == UsableAmong(Len(xsdt.entry))
        IN  /\ Len(acpi_tables) = IF n < ACPI_MAX_INIT_TABLES THEN n ELSE ACPI_MAX_INIT_TABLES
            /\ \A k \in DOMAIN xsdt.entry :
                  Usable(k) /\ UsableAmong(k) <= ACPI_MAX_INIT_TABLES =>
                     acpi_tables[UsableAmong(k)] = xsdt.entry[k]

\* How many of the first n tables have the signature asked for.
AskedAmong(n) == Cardinality({j \in 1 .. n : Sig[acpi_tables[j]] = req.sig})

\* The answer is the table asked for: -ENODEV means there is none in the
\* array ("Return SUCCESS if table found"), because what could be mapped
\* beside the XSDT can still be mapped; a table that is found is that instance
\* of its signature, and is mapped whole while the handler reads it.
AnswerRight ==
    /\ pc = "failed" => AskedAmong(Len(acpi_tables)) < req.instance
    /\ pc = "handler" => /\ \E j \in DOMAIN acpi_tables :
                              /\ table = acpi_tables[j]
                              /\ Sig[table] = req.sig /\ AskedAmong(j) = req.instance
                         /\ mapping[slot[table]] = Pages[table]
=============================================================================
