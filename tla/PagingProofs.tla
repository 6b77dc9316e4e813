---------------------------- MODULE PagingProofs ----------------------------
(***************************************************************************)
(* Theorems about the kernel's page tables, in two parts.  The first is    *)
(* about EarlyMap and CacheModes, for every size of the tables, every      *)
(* place the kernel may be loaded to, every processor and every            *)
(* interleaving of the boot with page faults and with the TLB.  The second *)
(* is about DirectMap, for every size of a page and of a table, and every  *)
(* array of memory regions memblock may hand over.                         *)
(***************************************************************************)
EXTENDS Paging, FiniteSetTheorems, TLAPS

-----------------------------------------------------------------------------
(* EarlyMap: the inductive invariant.                                      *)

OnFirmware == {"startup", "image"}
WithIdentity == {"startup", "image", "global", "shadow", "purge"}
NoHandler == WithIdentity \cup {"idt"}
BeforeTop == {"ctors", "cpuinfo", "pat", "mtrr", "patcpu", "inittop"}
FaultHandler == {"drivers", "percpu", "done"}
OwnTop == {"flush", "idtpf"} \cup FaultHandler
Places == NoHandler \cup BeforeTop \cup {"pcide", "direct"} \cup OwnTop \cup {"halt"}

Index == 0 .. NPTRS - 1
DirectIndex == 0 .. NPTRS - 3     \* the PUD entries of the direct map

Entries == [kind : {"none", "table", "page", "direct"}, to : Int, global : BOOLEAN]

\* A function from the per-CPU areas to their variables.
Area(f) == f = [a \in Areas |-> [cr4 |-> f[a].cr4, caps |-> f[a].caps]]

EarlyType ==
    /\ at \in Places
    /\ tab \in [Tables -> [Index -> Entries]]
    /\ load \in 0 .. (NPTRS - 2) * NPTRS - 1
    /\ img \in Nat /\ early_next \in 0 .. EARLY_FREE_PAGES
    /\ touching \in Touched \cup {NoPage}
    /\ gs \in Areas
    /\ Area(area)

\* Which tables and which handler are in use, by step of the boot.  Only the
\* early handler ever stops the boot, and only without a page left.
ControlInv ==
    /\ cr3 = IF at \in OnFirmware THEN FirmwareTables
             ELSE IF at \in OwnTop THEN init_top_pgt ELSE early_top_pgt
    /\ at \in NoHandler => handler = "none" /\ touching = NoPage
    /\ at \notin NoHandler => handler = IF at \in FaultHandler THEN "pf" ELSE "early"
    /\ touching # NoPage /\ cr3 = init_top_pgt => touching \in Memory
    /\ at = "halt" => early_next = EARLY_FREE_PAGES

\* The image, in the tables both top tables share.
ImageInv ==
    /\ at = "startup" => img = 0 /\ early_next = 0 /\ tab = [t \in Tables |-> EmptyTable]
    /\ at # "startup" =>
          /\ tab[early_top_pgt][NPTRS - 1] = TableAt(0)
          /\ tab[0][NPTRS - 2] = TableAt(level2_kernel_pgt)
          /\ \A k \in Image : tab[level2_kernel_pgt][TextOffset + k] = LargePage(load + k, TRUE)

\* The identity mapping: a PUD in page 1, a PMD for the first 'img' pages of
\* the image in page 2 and, if they reach into the next entry, in page 3.
FirstPud == load \div NPTRS
LastPud == (load + img - 1) \div NPTRS
IdentEntry(p) == IF p \in load .. load + img - 1 THEN LargePage(p, FALSE) ELSE Empty

IdentInv ==
    at \in WithIdentity \ {"startup"} =>
        /\ img \in 0 .. ImagePages /\ (at # "image" => img = ImagePages)
        /\ tab[early_top_pgt][0] = IF img = 0 THEN Empty ELSE TableAt(1)
        /\ early_next = IF img = 0 THEN 1 ELSE 3 + (LastPud - FirstPud)
        /\ \A k \in DirectIndex : tab[0][k] = Empty
        /\ \A k \in Index :
              tab[1][k] = IF img > 0 /\ k \in FirstPud .. LastPud THEN TableAt(2 + (k - FirstPud))
                          ELSE Empty
        /\ \A c \in Index : /\ tab[2][c] = IdentEntry(FirstPud * NPTRS + c)
                            /\ tab[3][c] = IdentEntry((FirstPud + 1) * NPTRS + c)

\* The tables of the direct map that do_early_map builds: each page it took is
\* the table of one entry of the boot PUD, and maps what that entry covers.
DirectInv ==
    at \notin WithIdentity =>
        /\ tab[early_top_pgt][0] = Empty
        /\ early_next \in 1 .. EARLY_FREE_PAGES
        /\ \A k \in DirectIndex :
              tab[0][k] # Empty =>
                 \E t \in 1 .. early_next - 1 :
                    /\ tab[0][k] = TableAt(t)
                    /\ \A c \in Index : tab[t][c] \in {Empty, LargePage(k * NPTRS + c, FALSE)}
        /\ \A k, l \in DirectIndex : tab[0][k] # Empty /\ tab[0][k] = tab[0][l] => k = l
        /\ \A t \in 1 .. early_next - 1 : \E k \in DirectIndex : tab[0][k] = TableAt(t)

\* The kernel's own top table.
TopInv ==
    /\ at \in {"pcide", "direct"} \cup OwnTop =>
          /\ tab[init_top_pgt][NPTRS - 1] = TableAt(level3_kernel_pgt)
          /\ tab[level3_kernel_pgt][NPTRS - 2] = TableAt(level2_kernel_pgt)
    /\ tab[init_top_pgt][0] = Empty
    /\ \A k \in DirectIndex : tab[level3_kernel_pgt][k] \in {Empty, DirectTables}
    /\ at \in NoHandler \cup BeforeTop \cup {"pcide"} =>
          \A k \in DirectIndex : tab[level3_kernel_pgt][k] = Empty
    /\ at \in OwnTop => \A p \in Memory : tab[level3_kernel_pgt][p \div NPTRS] = DirectTables

\* Every cached translation is one the tables are meant to give, and no global
\* one of the identity mapping outlives the flip of PGE.
TlbInv ==
    \A e \in tlb :
        /\ e = [va |-> e.va, pa |-> e.pa, global |-> e.global]
        /\ e.va \in Addresses /\ e.pa \in Meant(e.va)
        /\ e.va < PAGE_OFFSET /\ e.global => at \in {"startup", "image", "global"}

\* The shadow of CR4, in the area in use and in those copied from it.
ShadowInv ==
    /\ at \notin {"startup", "image", "global", "shadow"} => area[gs].cr4 = cr4
    /\ at \notin {"percpu", "done", "halt"} => gs = BootArea
    /\ at = "drivers" => img = 0
    /\ at = "percpu" => /\ img \in 0 .. NrCpus - 1
                        /\ gs = IF img = 0 THEN BootArea ELSE 0
                        /\ \A c \in 0 .. img - 1 : area[c] = area[BootArea]
    /\ at = "done" => gs = 0 /\ \A c \in 0 .. NrCpus - 1 : area[c] = area[BootArea]
    /\ at \in {"direct"} \cup OwnTop => "PCIDE" \in cr4
    /\ tab[level3_kernel_pgt][0] # Empty => "PCIDE" \in cr4

\* The three states of the cache modes: the tables of a reset, those of
\* pat_bp_init, and these with the PAT programmed.
ResetModes == [m \in CacheMode |-> CASE m = "WB" -> BitsOf(0) [] m = "WT" -> BitsOf(1)
                                     [] m = "UC" -> BitsOf(3) [] OTHER -> BitsOf(2)]
NewModes == [m \in CacheMode |-> CASE m = "WB" -> BitsOf(4) [] m = "WC" -> BitsOf(1)
                                   [] m = "UC-" -> BitsOf(6) [] m = "UC" -> BitsOf(3)
                                   [] m = "WP" -> BitsOf(5) [] m = "WT" -> BitsOf(7)]
Mapped(m, k) == [mode |-> m, bits |-> BitsOf(k)]

ModesReset == /\ cachemode_to_pte = ResetModes /\ pat_idx_to_cachemode = ResetPat
              /\ mappings \subseteq {Mapped("UC-", 2), Mapped("UC", 3)}
ModesKnown == /\ cachemode_to_pte = NewModes /\ pat_idx_to_cachemode = PatMsrVal
              /\ mappings \subseteq {Mapped("UC-", 2), Mapped("UC", 3)}
ModesProgrammed == /\ cachemode_to_pte = NewModes /\ pat_idx_to_cachemode = PatMsrVal
                   /\ pat = PatMsrVal /\ ~mtrr
                   /\ mappings \subseteq {Mapped("UC-", 2), Mapped("UC-", 6), Mapped("UC", 3)}

CacheInv ==
    /\ at \in NoHandler \cup {"ctors", "cpuinfo", "pat"} => ModesReset
    /\ at \in {"mtrr", "patcpu"} => ModesKnown
    /\ at = "patcpu" => ~mtrr
    /\ at \in CachesSet => ModesProgrammed
    /\ ModesReset \/ ModesKnown \/ ModesProgrammed

-----------------------------------------------------------------------------
(* Addresses.                                                              *)

\* Quotient and rest are what division gives.
LEMMA DivMod ==
    ASSUME NEW q \in Nat, NEW n \in Nat \ {0}, NEW r \in 0 .. n - 1
    PROVE  (q * n + r) \div n = q /\ (q * n + r) % n = r
OBVIOUS

\* The indices of an address made of three of them.
LEMMA Indices ==
    ASSUME NEW a \in Nat, NEW b \in Index, NEW c \in Index
    PROVE  LET v == a * (NPTRS * NPTRS) + (b * NPTRS + c)
           IN  pgd_index(v) = a /\ pud_index(v) = b /\ pmd_index(v) = c
<1> DEFINE m == NPTRS * NPTRS  r == b * NPTRS + c  v == a * m + r
<1>1. NPTRS \in Nat \ {0} /\ b \in Nat /\ c \in 0 .. NPTRS - 1 /\ b <= NPTRS - 1
  BY EarlyAssumption DEF Index
<1>2. b * NPTRS <= (NPTRS - 1) * NPTRS
  BY <1>1
<1>3. (NPTRS - 1) * NPTRS = m - NPTRS
  BY <1>1
<1>4. m \in Nat \ {0} /\ b * NPTRS \in Nat
  BY <1>1
<1>5. r \in 0 .. m - 1
  <2> HIDE DEF m
  <2> QED BY <1>1, <1>2, <1>3, <1>4
<1>6. v \div m = a
  <2> HIDE DEF m, r
  <2> QED BY <1>4, <1>5, DivMod
<1>7. v = (a * NPTRS + b) * NPTRS + c
  BY <1>1
<1>8. a * NPTRS + b \in Nat
  BY <1>1
<1>9. v \div NPTRS = a * NPTRS + b /\ v % NPTRS = c
  <2> DEFINE q == a * NPTRS + b
  <2> HIDE DEF v, q
  <2> QED BY <1>1, <1>7, <1>8, DivMod DEF q
<1>10. (a * NPTRS + b) % NPTRS = b
  BY <1>1, DivMod DEF Index
<1> HIDE DEF v
<1> QED BY <1>6, <1>9, <1>10 DEF pgd_index, pud_index, pmd_index, v, m, r

\* A page below the entries of the kernel has its two indices.
LEMMA PageIndices ==
    ASSUME NEW p \in 0 .. (NPTRS - 1) * NPTRS - 1
    PROVE  /\ p \div NPTRS \in 0 .. NPTRS - 2 /\ p % NPTRS \in Index
           /\ p = (p \div NPTRS) * NPTRS + (p % NPTRS)
           /\ pgd_index(p) = 0 /\ pud_index(p) = p \div NPTRS /\ pmd_index(p) = p % NPTRS
<1>1. NPTRS \in Nat \ {0} /\ p \in Nat /\ p < (NPTRS - 1) * NPTRS
  BY EarlyAssumption
<1> DEFINE q == p \div NPTRS  r == p % NPTRS
<1>2. q \in Nat /\ r \in 0 .. NPTRS - 1 /\ p = q * NPTRS + r
  BY <1>1
<1>3. q <= NPTRS - 2
  <2>1. CASE q >= NPTRS - 1
    <3>1. q * NPTRS >= (NPTRS - 1) * NPTRS
      BY <1>1, <1>2, <2>1
    <3> HIDE DEF q, r
    <3> QED BY <3>1, <1>1, <1>2
  <2> HIDE DEF q, r
  <2> QED BY <2>1, <1>1, <1>2
<1> HIDE DEF q, r
<1>4. q \in Index /\ r \in Index
  BY <1>2, <1>3, <1>1 DEF Index
<1>5. p = 0 * (NPTRS * NPTRS) + (q * NPTRS + r)
  BY <1>2, <1>1
<1>6. pgd_index(p) = 0 /\ pud_index(p) = q /\ pmd_index(p) = r
  BY <1>4, <1>5, Indices
<1> QED BY <1>1, <1>2, <1>3, <1>4, <1>6 DEF q, r

\* A page the kernel touches through __va, and its entry.
LEMMA DirectIndices ==
    ASSUME NEW p \in 0 .. (NPTRS - 2) * NPTRS - 1
    PROVE  /\ p \div NPTRS \in DirectIndex /\ p % NPTRS \in Index
           /\ p = (p \div NPTRS) * NPTRS + (p % NPTRS)
           /\ pgd_index(va(p)) = NPTRS - 1
           /\ pud_index(va(p)) = p \div NPTRS
           /\ pmd_index(va(p)) = p % NPTRS
           /\ va(p) >= PAGE_OFFSET /\ va(p) < START_KERNEL_map /\ va(p) - PAGE_OFFSET = p
<1>1. NPTRS \in Nat \ {0} /\ NPTRS >= 4 /\ p \in Nat /\ p < (NPTRS - 2) * NPTRS
  BY EarlyAssumption
<1>2. (NPTRS - 2) * NPTRS \in Nat /\ (NPTRS - 2) * NPTRS <= (NPTRS - 1) * NPTRS
  BY <1>1
<1> DEFINE q == p \div NPTRS  r == p % NPTRS
<1>3. q \in 0 .. NPTRS - 2 /\ r \in Index /\ p = q * NPTRS + r
  <2>1. (NPTRS - 1) * NPTRS \in Nat
    BY <1>1
  <2>2. p \in 0 .. (NPTRS - 1) * NPTRS - 1
    BY <2>1, <1>1, <1>2
  <2> QED BY <2>2, PageIndices
<1> HIDE DEF q, r
<1>4. q <= NPTRS - 3
  <2>1. CASE q >= NPTRS - 2
    <3>1. q * NPTRS >= (NPTRS - 2) * NPTRS
      BY <1>1, <1>3, <2>1
    <3>2. q * NPTRS \in Nat /\ r \in Nat
      BY <1>1, <1>3 DEF Index
    <3> QED BY <3>1, <3>2, <1>1, <1>2, <1>3
  <2> QED BY <2>1, <1>1, <1>3
<1>5. q \in DirectIndex /\ q \in Index /\ NPTRS - 1 \in Nat
  BY <1>1, <1>3, <1>4 DEF Index, DirectIndex
<1>6. PAGE_OFFSET \in Nat /\ PAGE_OFFSET = (NPTRS - 1) * (NPTRS * NPTRS)
  BY <1>1 DEF PAGE_OFFSET
<1>7. va(p) = (NPTRS - 1) * (NPTRS * NPTRS) + (q * NPTRS + r)
  BY <1>1, <1>3, <1>6 DEF va
<1>8. pgd_index(va(p)) = NPTRS - 1 /\ pud_index(va(p)) = q /\ pmd_index(va(p)) = r
  BY <1>5, <1>3, <1>7, Indices
<1>9. va(p) = p + PAGE_OFFSET /\ START_KERNEL_map = PAGE_OFFSET + (NPTRS - 2) * NPTRS
  BY DEF va, START_KERNEL_map
<1>10. va(p) >= PAGE_OFFSET /\ va(p) < START_KERNEL_map /\ va(p) - PAGE_OFFSET = p
  BY <1>1, <1>2, <1>6, <1>9
<1> QED BY <1>3, <1>5, <1>8, <1>10 DEF q, r

\* A page of the image at the kernel's own address.
LEMMA TextIndices ==
    ASSUME NEW k \in Image
    PROVE  /\ pgd_index(text + k) = NPTRS - 1
           /\ pud_index(text + k) = NPTRS - 2
           /\ pmd_index(text + k) = TextOffset + k
           /\ TextOffset + k \in Index
           /\ text + k >= START_KERNEL_map /\ text + k >= PAGE_OFFSET
           /\ (text + k) - text = k
<1>1. /\ NPTRS \in Nat \ {0} /\ NPTRS >= 4 /\ k \in Nat /\ TextOffset \in Nat
      /\ TextOffset + k \in Index
  BY EarlyAssumption DEF Image, Index
<1>2. NPTRS - 2 \in Index /\ NPTRS - 1 \in Nat
  BY <1>1 DEF Index
<1>3. PAGE_OFFSET \in Nat /\ PAGE_OFFSET = (NPTRS - 1) * (NPTRS * NPTRS)
      /\ (NPTRS - 2) * NPTRS \in Nat
  BY <1>1 DEF PAGE_OFFSET
<1>4. text = PAGE_OFFSET + (NPTRS - 2) * NPTRS + TextOffset
      /\ START_KERNEL_map = PAGE_OFFSET + (NPTRS - 2) * NPTRS
  BY DEF text, START_KERNEL_map
<1>5. text + k = (NPTRS - 1) * (NPTRS * NPTRS) + ((NPTRS - 2) * NPTRS + (TextOffset + k))
  BY <1>1, <1>3, <1>4
<1>6. /\ pgd_index(text + k) = NPTRS - 1 /\ pud_index(text + k) = NPTRS - 2
      /\ pmd_index(text + k) = TextOffset + k
  <2> DEFINE a == NPTRS - 1  b == NPTRS - 2  c == TextOffset + k  v == text + k
  <2>1. a \in Nat /\ b \in Index /\ c \in Index /\ v = a * (NPTRS * NPTRS) + (b * NPTRS + c)
    BY <1>1, <1>2, <1>5
  <2> HIDE DEF a, b, c, v
  <2>2. pgd_index(v) = a /\ pud_index(v) = b /\ pmd_index(v) = c
    BY <2>1, Indices
  <2> QED BY <2>2 DEF a, b, c, v
<1>7. text + k >= START_KERNEL_map /\ text + k >= PAGE_OFFSET /\ (text + k) - text = k
  BY <1>1, <1>3, <1>4
<1> QED BY <1>1, <1>6, <1>7

\* A page of the image where it was loaded: below the kernel's entries, and in
\* the PUD entry of the first page or in the next.
LEMMA LoadIndices ==
    ASSUME EarlyType, NEW k \in Image
    PROVE  /\ load + k \in 0 .. (NPTRS - 1) * NPTRS - 1
           /\ load + k < PAGE_OFFSET
           /\ (load + k) \div NPTRS \in {FirstPud, FirstPud + 1}
           /\ FirstPud \in 0 .. NPTRS - 3
<1>1. /\ NPTRS \in Nat \ {0} /\ NPTRS >= 4 /\ load \in Nat /\ load < (NPTRS - 2) * NPTRS
      /\ k \in 0 .. NPTRS - 1
  BY EarlyAssumption DEF EarlyType, Image
<1>2. (NPTRS - 1) * NPTRS = (NPTRS - 2) * NPTRS + NPTRS /\ (NPTRS - 2) * NPTRS \in Nat
  BY <1>1
<1>3. load + k \in 0 .. (NPTRS - 1) * NPTRS - 1
  BY <1>1, <1>2
<1>4. PAGE_OFFSET \in Nat /\ (NPTRS - 1) * NPTRS <= PAGE_OFFSET
  BY <1>1 DEF PAGE_OFFSET
<1>5. load + k < PAGE_OFFSET
  BY <1>1, <1>2, <1>3, <1>4
<1> DEFINE q == load \div NPTRS  r == load % NPTRS
<1>6. q \in 0 .. NPTRS - 3 /\ r \in 0 .. NPTRS - 1 /\ load = q * NPTRS + r
  BY DirectIndices DEF EarlyType, Index, DirectIndex
<1> HIDE DEF q, r
<1>7. (load + k) \div NPTRS \in {q, q + 1}
  <2>1. CASE r + k < NPTRS
    <3>1. load + k = q * NPTRS + (r + k) /\ r + k \in 0 .. NPTRS - 1
      BY <1>1, <1>6, <2>1
    <3> QED BY <3>1, <1>1, <1>6, DivMod
  <2>2. CASE r + k >= NPTRS
    <3>1. load + k = (q + 1) * NPTRS + (r + k - NPTRS) /\ r + k - NPTRS \in 0 .. NPTRS - 1
          /\ q + 1 \in Nat
      BY <1>1, <1>6, <2>2
    <3> QED BY <3>1, <1>1, DivMod
  <2> QED BY <2>1, <2>2, <1>1, <1>6
<1> QED BY <1>3, <1>5, <1>6, <1>7 DEF q, FirstPud

\* Where the kernel's own mapping starts.
LEMMA KernelIndices ==
    /\ pgd_index(START_KERNEL_map) = NPTRS - 1
    /\ pud_index(START_KERNEL_map) = NPTRS - 2
    /\ pmd_index(text) = TextOffset
<1>1. 0 \in Image /\ TextOffset \in Nat /\ NPTRS \in Nat \ {0} /\ NPTRS >= 4
  BY EarlyAssumption DEF Image
<1>2. PAGE_OFFSET \in Nat /\ (NPTRS - 2) * NPTRS \in Nat
  BY <1>1 DEF PAGE_OFFSET
<1>3. text \in Int /\ START_KERNEL_map \in Int
  BY <1>1, <1>2 DEF text, START_KERNEL_map
<1>4. text + 0 = text
  BY <1>3
<1>5. pmd_index(text) = TextOffset
  BY <1>1, <1>4, TextIndices
<1> DEFINE a == NPTRS - 1  b == NPTRS - 2  v == START_KERNEL_map
<1>6. a \in Nat /\ b \in Index /\ 0 \in Index
  BY <1>1 DEF Index
<1>7. v = a * (NPTRS * NPTRS) + (b * NPTRS + 0)
  BY <1>1, <1>2 DEF START_KERNEL_map, PAGE_OFFSET
<1> HIDE DEF a, b, v
<1>8. pgd_index(v) = a /\ pud_index(v) = b
  BY <1>6, <1>7, Indices
<1> QED BY <1>5, <1>8 DEF a, b, v

\* Facts about the constants, and the entries.
LEMMA Constants ==
    /\ NPTRS \in Nat /\ NPTRS >= 4 /\ EARLY_FREE_PAGES \in Nat /\ EARLY_FREE_PAGES >= 4
    /\ 0 \in Index /\ NPTRS - 1 \in Index /\ NPTRS - 2 \in Index /\ DirectIndex \subseteq Index
    /\ 0 \in DirectIndex /\ NPTRS - 2 \notin DirectIndex /\ NPTRS - 1 \notin DirectIndex
    /\ {early_top_pgt, init_top_pgt, level3_kernel_pgt, level2_kernel_pgt, level2_fixmap_pgt}
          \subseteq Tables
    /\ {0, 1, 2, 3} \subseteq Tables /\ 0 .. EARLY_FREE_PAGES - 1 \subseteq Tables
    /\ TextOffset \in Index /\ ImagePages \in Nat /\ 0 \in Image
BY EarlyAssumption DEF Index, DirectIndex, Tables, early_top_pgt, init_top_pgt,
   level3_kernel_pgt, level2_kernel_pgt, level2_fixmap_pgt, Image

\* The kinds of entries.
LEMMA Kinds ==
    /\ Empty \in Entries /\ DirectTables \in Entries
    /\ Empty.kind = "none" /\ DirectTables.kind = "direct" /\ Empty # DirectTables
    /\ \A t \in Int : /\ TableAt(t) \in Entries /\ TableAt(t).kind = "table" /\ TableAt(t).to = t
                      /\ TableAt(t) # Empty
    /\ \A p \in Int, g \in BOOLEAN : /\ LargePage(p, g) \in Entries
                                     /\ LargePage(p, g).kind = "page" /\ LargePage(p, g).to = p
                                     /\ LargePage(p, g).global = g
BY DEF Entries, Empty, DirectTables, TableAt, LargePage

-----------------------------------------------------------------------------
(* What the page walk finds.                                               *)

TabInv == ImageInv /\ IdentInv /\ DirectInv /\ TopInv

\* The entries the walk meets.
PudOf(v) == tab[cr3][pgd_index(v)]
PmdOf(v) == Down(PudOf(v), pud_index(v))
PteOf(v) == Down(PmdOf(v), pmd_index(v))

\* v is found, at p.
FoundAt(v, p) == /\ Walk(v) # {}
                 /\ \A e \in Walk(v) : e = [va |-> v, pa |-> p, global |-> e.global]

\* The walk through three tables.
LEMMA WalkIs ==
    ASSUME cr3 # FirmwareTables, cr3 \in Int, NEW v
    PROVE  /\ PteOf(v).kind = "page" => /\ FoundAt(v, PteOf(v).to)
                                        /\ \A e \in Walk(v) : e.global => PteOf(v).global
           /\ PteOf(v).kind # "page" /\ PmdOf(v).kind = "direct" /\ v - PAGE_OFFSET \in Memory =>
                 FoundAt(v, v - PAGE_OFFSET)
           /\ PteOf(v).kind # "page" /\ ~(PmdOf(v).kind = "direct" /\ v - PAGE_OFFSET \in Memory) =>
                 Walk(v) = {}
<1>1. Down(TableAt(cr3), pgd_index(v)) = PudOf(v)
  BY Kinds DEF Down, PudOf
<1> DEFINE big == PteOf(v).global /\ "PGE" \in cr4  any == "PGE" \in cr4
<1>2. Walk(v) = IF PteOf(v).kind = "page" THEN {[va |-> v, pa |-> PteOf(v).to, global |-> big]}
                ELSE IF PmdOf(v).kind = "direct" /\ v - PAGE_OFFSET \in Memory
                     THEN {[va |-> v, pa |-> v - PAGE_OFFSET, global |-> any]} ELSE {}
  BY <1>1, Zenon DEF Walk, PmdOf, PteOf
<1>3. big => PteOf(v).global
  OBVIOUS
<1> HIDE DEF big, any
<1>4. ASSUME NEW p, NEW g, Walk(v) = {[va |-> v, pa |-> p, global |-> g]}
      PROVE  FoundAt(v, p) /\ \A e \in Walk(v) : e.global = g
  BY <1>4 DEF FoundAt
<1> QED BY <1>2, <1>3, <1>4

\* On its own address the image is found where it was loaded, from the time
\* the early tables are in use.
LEMMA WalkText ==
    ASSUME EarlyType, ControlInv, TabInv, NEW k \in Image, at \notin OnFirmware
    PROVE  FoundAt(text + k, load + k)
<1>1. cr3 \in {early_top_pgt, init_top_pgt} /\ cr3 \in Int /\ cr3 # FirmwareTables
  BY DEF ControlInv, early_top_pgt, init_top_pgt, FirmwareTables, OwnTop, FaultHandler
<1>2. /\ pgd_index(text + k) = NPTRS - 1 /\ pud_index(text + k) = NPTRS - 2
      /\ pmd_index(text + k) = TextOffset + k
  BY TextIndices
<1>3. PICK t \in {0, level3_kernel_pgt} : /\ tab[cr3][NPTRS - 1] = TableAt(t)
                                          /\ tab[t][NPTRS - 2] = TableAt(level2_kernel_pgt)
  BY DEF TabInv, ImageInv, TopInv, ControlInv, OnFirmware, OwnTop, FaultHandler, early_top_pgt,
     init_top_pgt
<1>4. t \in Int /\ level2_kernel_pgt \in Int /\ load + k \in Int
  BY DEF level3_kernel_pgt, level2_kernel_pgt, EarlyType, Image
<1>5. tab[level2_kernel_pgt][TextOffset + k] = LargePage(load + k, TRUE)
  BY DEF TabInv, ImageInv, OnFirmware
<1> DEFINE v == text + k
<1>6. PudOf(v) = TableAt(t)
  BY <1>2, <1>3 DEF PudOf
<1>7. PmdOf(v) = TableAt(level2_kernel_pgt)
  BY <1>2, <1>3, <1>4, <1>6, Kinds DEF PmdOf, Down
<1>8. PteOf(v) = tab[level2_kernel_pgt][TextOffset + k]
  BY <1>2, <1>4, <1>7, Kinds DEF PteOf, Down
<1>9. PteOf(v).kind = "page" /\ PteOf(v).to = load + k
  BY <1>5, <1>8 DEF LargePage
<1> QED BY <1>1, <1>9, WalkIs

\* A page of the direct map is found where it is, or not at all.
LEMMA WalkDirect ==
    ASSUME EarlyType, ControlInv, TabInv, NEW p \in Touched \cup Memory
    PROVE  /\ Walk(va(p)) = {} \/ FoundAt(va(p), p)
           /\ at \in OwnTop /\ p \in Memory => FoundAt(va(p), p)
<1>0. p \in 0 .. (NPTRS - 2) * NPTRS - 1
  BY EarlyAssumption
<1> DEFINE q == p \div NPTRS  r == p % NPTRS  v == va(p)
<1>1. /\ q \in DirectIndex /\ r \in Index /\ p = q * NPTRS + r
      /\ pgd_index(v) = NPTRS - 1 /\ pud_index(v) = q /\ pmd_index(v) = r
      /\ v - PAGE_OFFSET = p
  BY <1>0, DirectIndices
<1> HIDE DEF q, r, v
<1>2. CASE at \in OnFirmware
  <2>1. Walk(v) = {}
    BY <1>1, <1>2, Constants DEF Walk, ControlInv
  <2> QED BY <2>1, <1>2 DEF OnFirmware, OwnTop, FaultHandler, v
<1>3. CASE at \in OwnTop
  <2>1. /\ cr3 = init_top_pgt /\ cr3 \in Int /\ cr3 # FirmwareTables
        /\ tab[cr3][NPTRS - 1] = TableAt(level3_kernel_pgt)
    BY <1>3 DEF ControlInv, TabInv, TopInv, OnFirmware, OwnTop, FaultHandler, init_top_pgt,
       FirmwareTables
  <2>2. PudOf(v) = TableAt(level3_kernel_pgt)
    BY <1>1, <2>1 DEF PudOf
  <2>3. PmdOf(v) = tab[level3_kernel_pgt][q]
    BY <1>1, <2>2, Kinds DEF PmdOf, Down, level3_kernel_pgt
  <2>4. PmdOf(v) \in {Empty, DirectTables} /\ (p \in Memory => PmdOf(v) = DirectTables)
    BY <1>1, <1>3, <2>3 DEF TabInv, TopInv, q
  <2>5. PteOf(v) = Empty
    BY <2>4, Kinds DEF PteOf, Down
  <2> QED BY <1>1, <2>1, <2>4, <2>5, WalkIs, Kinds DEF v
<1>4. CASE at \notin OnFirmware /\ at \notin OwnTop
  <2>1. cr3 = early_top_pgt /\ cr3 \in Int /\ cr3 # FirmwareTables
    BY <1>4 DEF ControlInv, early_top_pgt, FirmwareTables
  <2>2. tab[early_top_pgt][NPTRS - 1] = TableAt(0)
    BY <1>4 DEF TabInv, ImageInv, OnFirmware
  <2>3. PudOf(v) = TableAt(0)
    BY <1>1, <2>1, <2>2 DEF PudOf
  <2>4. PmdOf(v) = tab[0][q]
    BY <1>1, <2>3, Kinds DEF PmdOf, Down
  <2>5. CASE tab[0][q] = Empty
    <3>1. PteOf(v) = Empty
      BY <2>4, <2>5, Kinds DEF PteOf, Down
    <3>2. Walk(v) = {}
      BY <2>1, <2>4, <2>5, <3>1, WalkIs, Kinds
    <3> QED BY <3>2, <1>4 DEF v
  <2>6. CASE tab[0][q] # Empty
    <3>1. at \notin WithIdentity
      BY <1>1, <1>4, <2>6 DEF TabInv, IdentInv, OnFirmware
    <3>2. PICK t \in 1 .. early_next - 1 :
             /\ tab[0][q] = TableAt(t)
             /\ \A c \in Index : tab[t][c] \in {Empty, LargePage(q * NPTRS + c, FALSE)}
      BY <1>1, <2>6, <3>1 DEF TabInv, DirectInv
    <3>3. PteOf(v) = tab[t][r] /\ PmdOf(v).kind # "direct"
      BY <1>1, <2>4, <3>2, Kinds DEF PteOf, Down
    <3>4. PteOf(v) \in {Empty, LargePage(q * NPTRS + r, FALSE)}
      BY <1>1, <3>2, <3>3
    <3>5. PteOf(v) = Empty \/ (PteOf(v).kind = "page" /\ PteOf(v).to = p)
      <4>1. CASE PteOf(v) = LargePage(q * NPTRS + r, FALSE)
        <5>1. PteOf(v).kind = "page" /\ PteOf(v).to = q * NPTRS + r
          BY <4>1 DEF LargePage
        <5> QED BY <5>1, <1>1
      <4> QED BY <4>1, <3>4
    <3>6. Walk(v) = {} \/ FoundAt(v, p)
      BY <2>1, <3>3, <3>5, WalkIs, Kinds
    <3> QED BY <3>6, <1>4 DEF v
  <2> QED BY <2>5, <2>6
<1> QED BY <1>2, <1>3, <1>4

\* Where it was loaded the image is found until the identity mapping is purged.
LEMMA WalkLoad ==
    ASSUME EarlyType, ControlInv, TabInv, NEW k \in Image
    PROVE  /\ Walk(load + k) = {} \/ FoundAt(load + k, load + k)
           /\ at \notin WithIdentity => Walk(load + k) = {}
           /\ \A e \in Walk(load + k) : e.global => at \in OnFirmware
           /\ at \in OnFirmware \cup {"global"} => Walk(load + k) # {}
<1> DEFINE p == load + k  q == p \div NPTRS  r == p % NPTRS
<1>1. /\ p \in 0 .. (NPTRS - 1) * NPTRS - 1 /\ q \in {FirstPud, FirstPud + 1}
      /\ FirstPud \in 0 .. NPTRS - 3
  BY LoadIndices
<1>2. /\ q \in 0 .. NPTRS - 2 /\ r \in Index /\ p = q * NPTRS + r
      /\ pgd_index(p) = 0 /\ pud_index(p) = q /\ pmd_index(p) = r
  BY <1>1, PageIndices
<1>3. /\ p \in Nat /\ load \in Nat /\ k \in Nat /\ k < ImagePages /\ ImagePages \in Nat /\ p = load + k
      /\ k \in Image
  BY EarlyAssumption DEF EarlyType, Image
<1>4. CASE at \in OnFirmware
  <2>1. cr3 = FirmwareTables /\ pgd_index(p) < NPTRS - 1 /\ at \in WithIdentity
    BY <1>2, <1>4, Constants DEF ControlInv, OnFirmware, WithIdentity
  <2>2. Walk(p) = {[va |-> p, pa |-> p, global |-> g] : g \in {FALSE, "PGE" \in cr4}}
    BY <2>1 DEF Walk
  <2> HIDE DEF p
  <2>3. \A e \in Walk(p) : e = [va |-> p, pa |-> p, global |-> e.global]
    BY <2>2
  <2>4. [va |-> p, pa |-> p, global |-> FALSE] \in Walk(p)
    BY <2>2
  <2> QED BY <2>1, <2>3, <2>4, <1>4 DEF p, FoundAt
<1>5. CASE at \notin OnFirmware /\ at \notin WithIdentity
  <2>1. cr3 \in {early_top_pgt, init_top_pgt} /\ cr3 \in Int /\ cr3 # FirmwareTables
    BY <1>5 DEF ControlInv, early_top_pgt, init_top_pgt, FirmwareTables
  <2> HIDE DEF p, q, r
  <2>2. PudOf(p) = Empty
    BY <1>2, <1>5, <2>1 DEF PudOf, TabInv, DirectInv, TopInv
  <2>3. PmdOf(p) = Empty /\ PteOf(p) = Empty
    BY <2>2, Kinds DEF PmdOf, PteOf, Down
  <2>4. Walk(p) = {}
    BY <2>1, <2>3, WalkIs, Kinds
  <2> QED BY <2>4, <1>5 DEF p, WithIdentity
<1>6. CASE at \in WithIdentity \ OnFirmware
  <2>1. /\ cr3 = early_top_pgt /\ cr3 \in Int /\ cr3 # FirmwareTables
        /\ at # "startup" /\ at # "image"
    BY <1>6 DEF ControlInv, early_top_pgt, FirmwareTables, OwnTop, FaultHandler, WithIdentity,
       OnFirmware
  <2>2. img = ImagePages /\ img > 0
    BY <1>6, <2>1, EarlyAssumption DEF TabInv, IdentInv
  <2>3. tab[early_top_pgt][0] = TableAt(1)
    BY <1>6, <2>1, <2>2 DEF TabInv, IdentInv
  <2>4. q \in FirstPud .. LastPud
    <3>1. (load + img - 1) \div NPTRS >= q
      <4>1. load + img - 1 \in Nat /\ load + img - 1 >= p
        BY <1>3, <2>2
      <4> DEFINE x == load + img - 1
      <4> HIDE DEF p, x
      <4>2. x \div NPTRS >= p \div NPTRS
        BY <4>1, <1>3, Constants DEF x
      <4> QED BY <4>2 DEF x
    <3>2. LastPud \in Int /\ q \in Int /\ q >= FirstPud
      BY <1>1, <1>2, <2>2, <1>3, Constants DEF LastPud
    <3> HIDE DEF q
    <3> QED BY <3>1, <3>2, <1>1 DEF LastPud
  <2> DEFINE t == 2 + (q - FirstPud)
  <2>5. q \in Index /\ t \in {2, 3}
    <3> HIDE DEF q
    <3> QED BY <1>1, <1>2, Constants DEF Index
  <2>6. tab[1][q] = TableAt(t)
    BY <1>6, <2>1, <2>2, <2>4, <2>5 DEF TabInv, IdentInv
  <2>7. tab[t][r] = LargePage(p, FALSE)
    <3>1. p \in load .. load + img - 1
      BY <1>3, <2>2
    <3>2. CASE q = FirstPud
      <4>1. tab[2][r] = IdentEntry(FirstPud * NPTRS + r)
        BY <1>2, <1>6, <2>1 DEF TabInv, IdentInv
      <4>2. t = 2 /\ FirstPud * NPTRS + r = p
        BY <1>1, <1>2, <3>2
      <4> HIDE DEF p, t
      <4> QED BY <4>1, <4>2, <3>1 DEF IdentEntry
    <3>3. CASE q = FirstPud + 1
      <4>1. tab[3][r] = IdentEntry((FirstPud + 1) * NPTRS + r)
        BY <1>2, <1>6, <2>1 DEF TabInv, IdentInv
      <4>2. t = 3 /\ (FirstPud + 1) * NPTRS + r = p
        BY <1>1, <1>2, <3>3
      <4> HIDE DEF p, t
      <4> QED BY <4>1, <4>2, <3>1 DEF IdentEntry
    <3> QED BY <3>2, <3>3, <1>1
  <2>8. t \in Int /\ p \in Int
    BY <1>3, <2>5
  <2> HIDE DEF p, q, r, t
  <2>9. PudOf(p) = TableAt(1)
    BY <1>2, <2>1, <2>3 DEF PudOf
  <2>10. PmdOf(p) = TableAt(t)
    BY <1>2, <2>6, <2>9, Kinds DEF PmdOf, Down
  <2>11. PteOf(p) = tab[t][r]
    BY <1>2, <2>8, <2>10, Kinds DEF PteOf, Down
  <2>12. PteOf(p).kind = "page" /\ PteOf(p).to = p /\ ~PteOf(p).global
    BY <2>7, <2>11 DEF LargePage
  <2>13. FoundAt(p, p) /\ \A e \in Walk(p) : ~e.global
    BY <2>1, <2>12, WalkIs
  <2> QED BY <2>13, <1>6 DEF p, FoundAt
<1> QED BY <1>4, <1>5, <1>6

\* Where the addresses of the three mappings are meant to lead.
LEMMA MeantIs ==
    ASSUME EarlyType
    PROVE  /\ \A p \in Touched : Meant(va(p)) = {p} /\ ~(va(p) < PAGE_OFFSET)
           /\ \A k \in Image : load + k \in Meant(text + k) /\ ~(text + k < PAGE_OFFSET)
           /\ \A k \in Image : Meant(load + k) = IF at \in WithIdentity THEN {load + k} ELSE {}
<1>1. ASSUME NEW p \in Touched PROVE Meant(va(p)) = {p} /\ ~(va(p) < PAGE_OFFSET)
  <2>1. p \in 0 .. (NPTRS - 2) * NPTRS - 1
    BY EarlyAssumption
  <2>2. va(p) >= PAGE_OFFSET /\ va(p) < START_KERNEL_map /\ va(p) - PAGE_OFFSET = p
    BY <2>1, DirectIndices
  <2>3. va(p) \in Int /\ PAGE_OFFSET \in Int
    BY <2>1, Constants DEF va, PAGE_OFFSET
  <2> QED BY <2>2, <2>3 DEF Meant
<1>2. ASSUME NEW k \in Image PROVE load + k \in Meant(text + k) /\ ~(text + k < PAGE_OFFSET)
  <2>1. text + k >= START_KERNEL_map /\ text + k >= PAGE_OFFSET /\ (text + k) - text = k
    BY TextIndices
  <2>2. text + k \in Int /\ PAGE_OFFSET \in Int /\ START_KERNEL_map \in Int
    BY Constants DEF text, PAGE_OFFSET, START_KERNEL_map, Image, Index
  <2> QED BY <2>1, <2>2 DEF Meant
<1>3. ASSUME NEW k \in Image
      PROVE  Meant(load + k) = IF at \in WithIdentity THEN {load + k} ELSE {}
  <2>1. load + k < PAGE_OFFSET
    BY LoadIndices
  <2>2. load + k \in Int /\ PAGE_OFFSET \in Int
    BY Constants DEF PAGE_OFFSET, Image, EarlyType
  <2>3. ~(load + k >= PAGE_OFFSET)
    BY <2>1, <2>2
  <2> QED BY <2>3 DEF Meant, WithIdentity
<1> QED BY <1>1, <1>2, <1>3

\* The walk is right for every address, and what it finds of the identity
\* mapping in the kernel's tables is not global.
LEMMA WalkMeant ==
    ASSUME EarlyType, ControlInv, TabInv, NEW v \in Addresses, NEW e \in Walk(v)
    PROVE  /\ e = [va |-> v, pa |-> e.pa, global |-> e.global]
           /\ e.pa \in Meant(v)
           /\ v < PAGE_OFFSET /\ e.global => at \in OnFirmware
<1>1. CASE \E p \in Touched : v = va(p)
  <2>1. PICK p \in Touched : v = va(p)
    BY <1>1
  <2>2. FoundAt(v, p)
    BY <2>1, WalkDirect
  <2>3. e = [va |-> v, pa |-> p, global |-> e.global]
    BY <2>2 DEF FoundAt
  <2>4. e.pa = p
    BY <2>3
  <2> QED BY <2>1, <2>3, <2>4, MeantIs
<1>2. CASE \E k \in Image : v = load + k
  <2>1. PICK k \in Image : v = load + k
    BY <1>2
  <2>2. FoundAt(v, v) /\ at \in WithIdentity /\ (e.global => at \in OnFirmware)
    BY <2>1, WalkLoad
  <2>3. e = [va |-> v, pa |-> v, global |-> e.global]
    BY <2>2 DEF FoundAt
  <2>4. e.pa = v
    BY <2>3
  <2> QED BY <2>1, <2>2, <2>3, <2>4, MeantIs
<1>3. CASE \E k \in Image : v = text + k
  <2>1. PICK k \in Image : v = text + k
    BY <1>3
  <2>2. at \notin OnFirmware
    <3>1. CASE at \in OnFirmware
      <4>1. cr3 = FirmwareTables /\ pgd_index(v) = NPTRS - 1
        BY <3>1, <2>1, TextIndices DEF ControlInv
      <4>2. Walk(v) = {}
        BY <4>1, Constants DEF Walk
      <4> QED BY <4>2
    <3> QED BY <3>1
  <2>3. FoundAt(v, load + k)
    BY <2>1, <2>2, WalkText
  <2>4. e = [va |-> v, pa |-> load + k, global |-> e.global]
    BY <2>3 DEF FoundAt
  <2>5. e.pa = load + k
    BY <2>4
  <2> QED BY <2>1, <2>4, <2>5, MeantIs
<1> QED BY <1>1, <1>2, <1>3 DEF Addresses

\* The property, from the invariant.
LEMMA TranslatesNow ==
    ASSUME EarlyType, ControlInv, TabInv, TlbInv
    PROVE  EarlyTranslates
<1>1. ASSUME NEW v \in Addresses PROVE Reached(v) \subseteq Meant(v)
  <2>1. \A e \in Cached(v) : e.pa \in Meant(v)
    BY DEF Cached, TlbInv
  <2>2. \A e \in Walk(v) : e.pa \in Meant(v)
    BY WalkMeant
  <2> QED BY <2>1, <2>2 DEF Reached
<1>2. ASSUME NEW v, Walk(v) # {} PROVE Reached(v) # {}
  BY <1>2 DEF Reached
<1>3. ASSUME NEW b \in RunsAt, NEW k \in Image PROVE Reached(b + k) # {}
  <2>1. CASE b = load /\ at \in {"startup", "image", "global"}
    <3>1. Walk(load + k) # {}
      BY <2>1, WalkLoad DEF OnFirmware
    <3> QED BY <3>1, <2>1, <1>2
  <2>2. CASE b = text /\ at \notin {"startup", "image"}
    <3>1. FoundAt(text + k, load + k)
      BY <2>2, WalkText DEF OnFirmware
    <3> QED BY <3>1, <2>2, <1>2 DEF FoundAt
  <2> QED BY <2>1, <2>2 DEF RunsAt
<1> QED BY <1>1, <1>3 DEF EarlyTranslates

-----------------------------------------------------------------------------
(* The steps that write tables.                                            *)

\* The tables keep their type when an entry of one of them is written.
LEMMA PutType ==
    ASSUME NEW f \in [Tables -> [Index -> Entries]], NEW t \in Tables, NEW k \in Index,
           NEW e \in Entries
    PROVE  /\ [f EXCEPT ![t] = [@ EXCEPT ![k] = e]] \in [Tables -> [Index -> Entries]]
           /\ \A u \in Tables \ {t} : [f EXCEPT ![t] = [@ EXCEPT ![k] = e]][u] = f[u]
           /\ [f EXCEPT ![t] = [@ EXCEPT ![k] = e]][t][k] = e
           /\ \A j \in Index \ {k} : [f EXCEPT ![t] = [@ EXCEPT ![k] = e]][t][j] = f[t][j]
OBVIOUS

\* startup_64 maps the image at the kernel's own address.
LEMMA StartupStep ==
    ASSUME EarlyType, ControlInv, TabInv, startup_64
    PROVE  tab' \in [Tables -> [Index -> Entries]] /\ early_next' = 1 /\ TabInv'
<1> USE Constants
<1>1. /\ at = "startup" /\ at' = "image" /\ img = 0 /\ img' = 0 /\ early_next' = 1
      /\ tab = [t \in Tables |-> EmptyTable] /\ load' = load
  BY DEF startup_64, Step, TabInv, ImageInv, fixedVars
<1> DEFINE kernel == [k \in 0 .. NPTRS - 1 |->
              IF k - TextOffset \in Image THEN LargePage(load + (k - TextOffset), TRUE) ELSE Empty]
           pud == [[EmptyTable EXCEPT ![NPTRS - 2] = TableAt(level2_kernel_pgt)]
                      EXCEPT ![NPTRS - 1] = TableAt(level2_fixmap_pgt)]
           top == [EmptyTable EXCEPT ![NPTRS - 1] = TableAt(0)]
<1>2. EmptyTable = [k \in Index |-> Empty]
  BY DEF EmptyTable, Index
<1>3. tab' = [t \in Tables |-> CASE t = early_top_pgt -> top [] t = 0 -> pud
                                 [] t = level2_kernel_pgt -> kernel [] OTHER -> EmptyTable]
  <2>1. NPTRS - 2 + 1 = NPTRS - 1
    OBVIOUS
  <2>2. tab' = [tab EXCEPT
         ![early_top_pgt] = [@ EXCEPT ![NPTRS - 1] = TableAt(0)],
         ![0] = [@ EXCEPT ![NPTRS - 2] = TableAt(level2_kernel_pgt),
                          ![NPTRS - 1] = TableAt(level2_fixmap_pgt)],
         ![level2_kernel_pgt] = [k \in 0 .. NPTRS - 1 |->
            IF k - TextOffset \in Image
            THEN LargePage(load + (k - TextOffset), TRUE) ELSE @[k]]]
    BY <2>1, KernelIndices DEF startup_64
  <2>3. \A k \in 0 .. NPTRS - 1 : EmptyTable[k] = Empty
    BY DEF EmptyTable
  <2>4. \A t \in Tables : tab[t] = EmptyTable
    BY <1>1
  <2>5. [k \in 0 .. NPTRS - 1 |-> IF k - TextOffset \in Image
            THEN LargePage(load + (k - TextOffset), TRUE) ELSE EmptyTable[k]] = kernel
    BY <2>3
  <2>6. DOMAIN tab' = Tables /\ tab' = [t \in Tables |-> tab'[t]]
    BY <2>2, <1>1
  <2>7. tab'[early_top_pgt] = top
    <3> HIDE DEF kernel, pud
    <3> QED BY <2>2, <2>4 DEF early_top_pgt, level2_kernel_pgt, EarlyType
  <2>10. tab'[0] = pud
    <3> DEFINE x == TableAt(level2_kernel_pgt)  y == TableAt(level2_fixmap_pgt)  z == TableAt(0)
    <3>1. tab'[0] = [EmptyTable EXCEPT ![NPTRS - 2] = x, ![NPTRS - 1] = y]
      <4>1. EmptyTable \in [Index -> {Empty}]
        BY <1>2
      <4>2. /\ early_top_pgt # 0 /\ level2_kernel_pgt # 0 /\ early_top_pgt # level2_kernel_pgt
            /\ early_top_pgt \in Tables /\ level2_kernel_pgt \in Tables /\ 0 \in Tables
        BY DEF early_top_pgt, level2_kernel_pgt
      <4>3. NPTRS - 2 \in Index /\ NPTRS - 1 \in Index
        OBVIOUS
      <4> HIDE Constants
      <4> HIDE DEF kernel, pud, top, x, y, z
      <4> QED BY <1>1, <2>2, <4>1, <4>2, <4>3 DEF x, y
    <3> QED BY <3>1
  <2>8. tab'[level2_kernel_pgt] = kernel
    <3> HIDE DEF kernel
    <3> QED BY <2>2, <2>4, <2>5 DEF early_top_pgt, level2_kernel_pgt, EarlyType
  <2>9. \A t \in Tables \ {early_top_pgt, 0, level2_kernel_pgt} : tab'[t] = EmptyTable
    BY <2>2, <2>4 DEF EarlyType
  <2> HIDE DEF kernel, pud, top
  <2> QED BY <2>6, <2>7, <2>8, <2>9, <2>10 DEF early_top_pgt, level2_kernel_pgt
<1>4. kernel \in [Index -> Entries]
  <2>1. \A k \in Index : k - TextOffset \in Image => load + (k - TextOffset) \in Int
    BY DEF EarlyType, Index
  <2> QED BY <2>1, Kinds DEF Index
<1>5. pud \in [Index -> Entries] /\ top \in [Index -> Entries] /\ EmptyTable \in [Index -> Entries]
  BY <1>2, Kinds DEF level2_kernel_pgt, level2_fixmap_pgt
<1>6. tab' \in [Tables -> [Index -> Entries]]
  <2> HIDE DEF kernel, pud, top
  <2> QED BY <1>3, <1>4, <1>5
<1>7. /\ tab'[early_top_pgt] = top /\ tab'[0] = pud /\ tab'[level2_kernel_pgt] = kernel
      /\ tab'[1] = EmptyTable /\ tab'[2] = EmptyTable /\ tab'[3] = EmptyTable
      /\ tab'[init_top_pgt] = EmptyTable /\ tab'[level3_kernel_pgt] = EmptyTable
  <2> HIDE DEF kernel, pud, top
  <2> QED BY <1>3 DEF early_top_pgt, level2_kernel_pgt, init_top_pgt, level3_kernel_pgt
<1>8. ImageInv'
  <2>1. \A k \in Image : kernel[TextOffset + k] = LargePage(load + k, TRUE)
    <3> SUFFICES ASSUME NEW k \in Image PROVE kernel[TextOffset + k] = LargePage(load + k, TRUE)
      OBVIOUS
    <3>1. TextOffset + k \in 0 .. NPTRS - 1 /\ (TextOffset + k) - TextOffset = k
      BY TextIndices DEF Index, Image
    <3> QED BY <3>1
  <2>2. top[NPTRS - 1] = TableAt(0) /\ pud[NPTRS - 2] = TableAt(level2_kernel_pgt)
    BY <1>2 DEF Index
  <2> HIDE DEF kernel, pud, top
  <2> QED BY <1>1, <1>7, <2>1, <2>2 DEF ImageInv
<1>9. IdentInv'
  <2>1. top[0] = Empty /\ \A k \in DirectIndex : pud[k] = Empty
    BY <1>2 DEF Index, DirectIndex
  <2>2. \A p : IdentEntry(p)' = Empty
    <3>1. \A p : p \notin load .. load + 0 - 1
      BY DEF EarlyType
    <3> QED BY <3>1, <1>1 DEF IdentEntry
  <2> HIDE DEF kernel, pud, top
  <2> QED BY <1>1, <1>2, <1>7, <2>1, <2>2 DEF IdentInv
<1>10. DirectInv' /\ TopInv'
  <2> HIDE DEF kernel, pud, top
  <2> QED BY <1>1, <1>2, <1>7 DEF DirectInv, TopInv, WithIdentity, OwnTop, FaultHandler
<1> QED BY <1>1, <1>6, <1>8, <1>9, <1>10 DEF TabInv

\* ident_map gives the next page of the image its entry, in page 2 or page 3.
LEMMA IdentStep ==
    ASSUME EarlyType, ControlInv, TabInv, ident_map
    PROVE  /\ tab' \in [Tables -> [Index -> Entries]] /\ early_next' \in 3 .. 4
           /\ img' \in Nat /\ TabInv'
<1> USE Constants
<1>1. /\ at = "image" /\ at' = "image" /\ img \in Image /\ img' = img + 1 /\ load' = load
      /\ load \in Nat /\ img \in Nat /\ img < ImagePages
  <2>1. /\ at = "image" /\ at' = "image" /\ img \in Image /\ img' = img + 1 /\ load' = load
    BY DEF ident_map, Step, fixedVars
  <2>2. load \in Nat
    BY DEF EarlyType
  <2> QED BY <2>1, <2>2 DEF Image
<1> DEFINE a == load + img  q == a \div NPTRS  r == a % NPTRS
<1>2. /\ a \in 0 .. (NPTRS - 1) * NPTRS - 1 /\ q \in {FirstPud, FirstPud + 1}
      /\ FirstPud \in 0 .. NPTRS - 3
  BY <1>1, LoadIndices
<1>3. /\ q \in 0 .. NPTRS - 2 /\ r \in Index /\ a = q * NPTRS + r
      /\ pgd_index(a) = 0 /\ pud_index(a) = q /\ pmd_index(a) = r
  BY <1>2, PageIndices
<1>4. q \in Index /\ q \in Nat /\ r \in Nat /\ a \in Nat
  BY <1>1, <1>3 DEF Index
<1>5. LastPud' = q /\ FirstPud' = FirstPud
  <2>1. load' + img' - 1 = a
    BY <1>1
  <2> QED BY <2>1, <1>1 DEF LastPud, FirstPud
<1>6. img > 0 => LastPud \in FirstPud .. q
  <2> SUFFICES ASSUME img > 0 PROVE LastPud \in FirstPud .. q
    OBVIOUS
  <2> DEFINE x == load + img - 1
  <2>1. x \in Nat /\ load <= x /\ x <= a
    BY <1>1
  <2> HIDE DEF x
  <2>2. load \div NPTRS <= x \div NPTRS /\ x \div NPTRS \in Int
    BY <2>1, <1>1
  <2>3. x \div NPTRS <= a \div NPTRS
    <3> HIDE DEF a
    <3> QED BY <2>1, <1>4
  <2> HIDE DEF q
  <2> QED BY <2>2, <2>3, <1>2, <1>4 DEF LastPud, FirstPud, x, q
<1>7. img = 0 => q = FirstPud
  BY <1>1 DEF FirstPud
<1> DEFINE t == 2 + (q - FirstPud)
<1> HIDE DEF a, q, r
<1>8. t \in {2, 3} /\ t \in Tables /\ t \in Int
  BY <1>2
<1>9. IdentInv /\ at \in WithIdentity \ {"startup"}
  BY <1>1 DEF TabInv, WithIdentity
<1>10. /\ tab' = [tab EXCEPT ![early_top_pgt] = [@ EXCEPT ![0] = TableAt(1)],
                             ![1] = [@ EXCEPT ![q] = TableAt(t)],
                             ![t] = [@ EXCEPT ![r] = LargePage(a, FALSE)]]
       /\ early_next' = t + 1
  <2> DEFINE top   == tab[early_top_pgt][pgd_index(a)]
             pud   == IF top # Empty THEN top.to ELSE early_next
             next1 == IF top # Empty THEN early_next ELSE early_next + 1
             mid   == tab[pud][pud_index(a)]
             pmd   == IF mid # Empty THEN mid.to ELSE next1
  <2>1. /\ tab' = [tab EXCEPT
             ![early_top_pgt] = [@ EXCEPT ![pgd_index(a)] = TableAt(pud)],
             ![pud] = [@ EXCEPT ![pud_index(a)] = TableAt(pmd)],
             ![pmd] = [@ EXCEPT ![pmd_index(a)] = LargePage(a, FALSE)]]
        /\ early_next' = IF mid # Empty THEN next1 ELSE next1 + 1
    BY DEF ident_map, a
  <2>2. top = tab[early_top_pgt][0] /\ mid = tab[pud][q]
    BY <1>3
  <2>3. CASE img = 0
    <3>1. tab[early_top_pgt][0] = Empty /\ early_next = 1 /\ tab[1][q] = Empty
      BY <2>3, <1>4, <1>9 DEF IdentInv
    <3>2. pud = 1 /\ next1 = 2
      BY <3>1, <2>2
    <3>3. mid = Empty /\ pmd = 2 /\ t = 2
      BY <3>1, <3>2, <2>2, <2>3, <1>7, <1>2
    <3> HIDE DEF top, pud, next1, mid, pmd, t
    <3> QED BY <2>1, <3>2, <3>3, <1>3
  <2>4. CASE img > 0
    <3>1. /\ tab[early_top_pgt][0] = TableAt(1) /\ early_next = 3 + (LastPud - FirstPud)
          /\ tab[1][q] = IF q \in FirstPud .. LastPud THEN TableAt(2 + (q - FirstPud)) ELSE Empty
      BY <2>4, <1>4, <1>9 DEF IdentInv
    <3>2. pud = 1 /\ next1 = early_next /\ mid = tab[1][q]
      BY <3>1, <2>2, Kinds
    <3>3. LastPud \in FirstPud .. q /\ LastPud \in Int
      BY <1>6, <2>4, <1>2
    <3>4. CASE LastPud = q
      <4>1. mid = TableAt(t) /\ next1 = t + 1
        BY <3>1, <3>2, <3>4, <3>3, <1>2
      <4>2. mid # Empty /\ pmd = t
        BY <4>1, <1>8, Kinds
      <4> HIDE DEF top, pud, next1, mid, pmd, t
      <4> QED BY <2>1, <3>2, <4>1, <4>2, <1>3
    <3>5. CASE LastPud # q
      <4>1. LastPud = FirstPud /\ q = FirstPud + 1
        BY <3>3, <3>5, <1>2
      <4>2. mid = Empty /\ next1 = 3 /\ t = 3
        BY <3>1, <3>2, <4>1, <1>2
      <4>3. pmd = t
        BY <4>2
      <4> HIDE DEF top, pud, next1, mid, pmd, t
      <4> QED BY <2>1, <3>2, <4>2, <4>3, <1>3
    <3> QED BY <3>4, <3>5
  <2> QED BY <2>3, <2>4, <1>1
<1>11. LargePage(a, FALSE) \in Entries
  BY <1>4 DEF LargePage, Entries
<1>12. TableAt(1) \in Entries /\ TableAt(t) \in Entries
  BY <1>8, Kinds
<1>13. tab \in [Tables -> [Index -> Entries]] /\ early_top_pgt \notin {1, t} /\ 1 # t
  BY <1>8 DEF EarlyType, early_top_pgt
<1>14. tab' \in [Tables -> [Index -> Entries]]
  <2> HIDE DEF t
  <2> QED BY <1>3, <1>4, <1>8, <1>10, <1>11, <1>12, <1>13
<1>15. /\ tab'[early_top_pgt] = [tab[early_top_pgt] EXCEPT ![0] = TableAt(1)]
       /\ tab'[1] = [tab[1] EXCEPT ![q] = TableAt(t)]
       /\ tab'[t] = [tab[t] EXCEPT ![r] = LargePage(a, FALSE)]
       /\ \A u \in Tables \ {early_top_pgt, 1, t} : tab'[u] = tab[u]
  <2> HIDE DEF t
  <2> QED BY <1>8, <1>10, <1>13
<1>16. ImageInv'
  <2>1. tab'[early_top_pgt][NPTRS - 1] = tab[early_top_pgt][NPTRS - 1]
    BY <1>13, <1>15
  <2>2. tab'[0] = tab[0] /\ tab'[level2_kernel_pgt] = tab[level2_kernel_pgt]
    BY <1>8, <1>15 DEF early_top_pgt, level2_kernel_pgt
  <2> QED BY <1>1, <2>1, <2>2 DEF TabInv, ImageInv
<1>17. DirectInv' /\ TopInv'
  <2>1. tab'[init_top_pgt] = tab[init_top_pgt] /\ tab'[level3_kernel_pgt] = tab[level3_kernel_pgt]
    BY <1>8, <1>15 DEF early_top_pgt, init_top_pgt, level3_kernel_pgt
  <2> QED BY <1>1, <2>1 DEF TabInv, DirectInv, TopInv, WithIdentity, OwnTop, FaultHandler
<1>18. IdentInv'
  <2>1. img' \in 0 .. ImagePages /\ img' > 0 /\ img' # 0
    BY <1>1
  <2>2. tab'[early_top_pgt][0] = TableAt(1)
    BY <1>13, <1>15
  <2>3. early_next' = 3 + (LastPud' - FirstPud')
    BY <1>2, <1>4, <1>5, <1>10
  <2>4. \A k \in DirectIndex : tab'[0][k] = Empty
    <3>1. tab'[0] = tab[0]
      BY <1>8, <1>15 DEF early_top_pgt
    <3> QED BY <3>1, <1>9 DEF IdentInv
  <2>5. ASSUME NEW k \in Index
        PROVE  tab'[1][k] = IF k \in FirstPud .. q THEN TableAt(2 + (k - FirstPud)) ELSE Empty
    <3>1. CASE k = q
      BY <3>1, <1>2, <1>4, <1>13, <1>15
    <3>2. CASE k # q
      <4>1. tab'[1][k] = tab[1][k]
        BY <3>2, <1>13, <1>15
      <4>2. tab[1][k] = IF img > 0 /\ k \in FirstPud .. LastPud
                        THEN TableAt(2 + (k - FirstPud)) ELSE Empty
        BY <1>9 DEF IdentInv
      <4>3. k \in FirstPud .. q <=> img > 0 /\ k \in FirstPud .. LastPud
        BY <3>2, <1>1, <1>2, <1>6, <1>7, <1>4 DEF Index
      <4> QED BY <4>1, <4>2, <4>3
    <3> QED BY <3>1, <3>2
  <2>6. ASSUME NEW p \in Int PROVE IdentEntry(p)' = IF p = a THEN LargePage(a, FALSE) ELSE IdentEntry(p)
    <3>1. p \in load .. load + img' - 1 <=> p = a \/ p \in load .. load + img - 1
      BY <1>1 DEF a
    <3> QED BY <3>1, <1>1 DEF IdentEntry
  <2>7. ASSUME NEW c \in Index, NEW b \in {FirstPud, FirstPud + 1}
        PROVE  tab'[2 + (b - FirstPud)][c] = IdentEntry(b * NPTRS + c)'
    <3>1. b \in Nat /\ c \in Nat /\ c < NPTRS /\ b * NPTRS + c \in Int
      BY <1>2 DEF Index
    <3>2. tab[2 + (b - FirstPud)][c] = IdentEntry(b * NPTRS + c)
      BY <1>9, <1>2 DEF IdentInv
    <3>3. CASE b = q
      <4>1. b * NPTRS + c = a <=> c = r
        BY <1>3, <1>4, <3>1, <3>3
      <4>2. tab'[t][c] = IF c = r THEN LargePage(a, FALSE) ELSE tab[t][c]
        <5>1. tab[t] \in [Index -> Entries]
          BY <1>8, <1>13
        <5> HIDE DEF t
        <5> QED BY <1>15, <1>3, <5>1
      <4> QED BY <4>1, <4>2, <2>6, <3>1, <3>2, <3>3
    <3>4. CASE b # q
      <4>1. b * NPTRS + c # a
        <5>1. (b * NPTRS + c) \div NPTRS = b
          BY <3>1, DivMod DEF Index
        <5>2. a \div NPTRS = q
          BY DEF q
        <5> QED BY <5>1, <5>2, <3>4
      <4>2. 2 + (b - FirstPud) \in Tables \ {early_top_pgt, 1, t}
        BY <1>2, <1>4, <3>4 DEF early_top_pgt
      <4>3. tab'[2 + (b - FirstPud)] = tab[2 + (b - FirstPud)]
        BY <1>15, <4>2
      <4> QED BY <4>1, <4>3, <2>6, <3>1, <3>2
    <3> QED BY <3>3, <3>4
  <2>8. ASSUME NEW c \in Index
        PROVE  /\ tab'[2][c] = IdentEntry(FirstPud * NPTRS + c)'
               /\ tab'[3][c] = IdentEntry((FirstPud + 1) * NPTRS + c)'
    <3>1. PICK f \in Int : f = FirstPud
      BY <1>2
    <3>2. 2 + (f - FirstPud) = 2 /\ 2 + (f + 1 - FirstPud) = 3
      BY <3>1
    <3>3. /\ tab'[2][c] = IdentEntry(f * NPTRS + c)'
          /\ tab'[3][c] = IdentEntry((f + 1) * NPTRS + c)'
      BY <2>7, <3>1, <3>2
    <3> QED BY <3>1, <3>3, <1>5 DEF IdentEntry
  <2> QED BY <1>1, <1>5, <2>1, <2>2, <2>3, <2>4, <2>5, <2>8 DEF IdentInv
<1>19. early_next' \in 3 .. 4 /\ img' \in Nat
  BY <1>1, <1>8, <1>10
<1> QED BY <1>14, <1>16, <1>17, <1>18, <1>19 DEF TabInv

\* purge_ident_mapping takes the identity mapping out, and its pages are free
\* again: the boot PUD has no table of the direct map yet.
LEMMA PurgeStep ==
    ASSUME EarlyType, ControlInv, TabInv, purge_ident_mapping
    PROVE  tab' \in [Tables -> [Index -> Entries]] /\ early_next' = 1 /\ TabInv'
<1> USE Constants
<1>1. at = "purge" /\ at' = "idt" /\ early_next' = 1 /\ load' = load
  BY DEF purge_ident_mapping, Step, fixedVars
<1> DEFINE row == [k \in Index |-> IF k < NPTRS - 1 THEN Empty ELSE tab[early_top_pgt][k]]
<1>2. tab \in [Tables -> [Index -> Entries]] /\ tab' = [tab EXCEPT ![early_top_pgt] = row]
  BY DEF EarlyType, purge_ident_mapping, Index
<1>3. row \in [Index -> Entries]
  BY <1>2, Kinds
<1>4. row[0] = Empty /\ row[NPTRS - 1] = tab[early_top_pgt][NPTRS - 1]
  OBVIOUS
<1> HIDE DEF row
<1>5. /\ tab' \in [Tables -> [Index -> Entries]] /\ tab'[early_top_pgt] = row
      /\ \A u \in Tables \ {early_top_pgt} : tab'[u] = tab[u]
  BY <1>2, <1>3
<1>6. /\ tab'[0] = tab[0] /\ tab'[level2_kernel_pgt] = tab[level2_kernel_pgt]
      /\ tab'[init_top_pgt] = tab[init_top_pgt] /\ tab'[level3_kernel_pgt] = tab[level3_kernel_pgt]
  BY <1>5 DEF early_top_pgt, level2_kernel_pgt, init_top_pgt, level3_kernel_pgt
<1>7. ImageInv'
  BY <1>1, <1>4, <1>5, <1>6 DEF TabInv, ImageInv
<1>8. IdentInv'
  BY <1>1 DEF IdentInv, WithIdentity
<1>9. DirectInv'
  <2>1. \A k \in DirectIndex : tab'[0][k] = Empty
    BY <1>1, <1>6 DEF TabInv, IdentInv, WithIdentity
  <2> QED BY <1>1, <1>4, <1>5, <2>1 DEF DirectInv
<1>10. TopInv'
  BY <1>1, <1>6 DEF TabInv, TopInv, OwnTop, FaultHandler, NoHandler, WithIdentity
<1> QED BY <1>1, <1>5, <1>7, <1>8, <1>9, <1>10 DEF TabInv

\* do_early_map gives the page its entry in the table of its PUD entry, which
\* is there or is the next of the early pages.
LEMMA EarlyMapStep ==
    ASSUME EarlyType, ControlInv, TabInv, do_early_map
    PROVE  /\ tab' \in [Tables -> [Index -> Entries]] /\ early_next' \in 1 .. EARLY_FREE_PAGES
           /\ TabInv' /\ tab'[level3_kernel_pgt] = tab[level3_kernel_pgt]
<1> USE Constants
<1>1. /\ handler = "early" /\ touching # NoPage /\ at' = at /\ load' = load /\ img' = img
      /\ EarlyPmd # Empty \/ early_next < EARLY_FREE_PAGES
  BY DEF do_early_map, Faults, CanMap, fixedVars
<1>2. touching \in Touched /\ touching \in 0 .. (NPTRS - 2) * NPTRS - 1 /\ touching \in Int
  BY <1>1, EarlyAssumption DEF EarlyType
<1>3. at \notin NoHandler /\ at \notin WithIdentity /\ at # "startup"
  BY <1>1 DEF ControlInv, NoHandler, WithIdentity
<1> DEFINE K == touching \div NPTRS  c0 == touching % NPTRS
<1>4. /\ K \in DirectIndex /\ c0 \in Index /\ touching = K * NPTRS + c0 /\ K \in Index
      /\ pgd_index(va(touching)) = NPTRS - 1
      /\ pud_index(va(touching)) = K /\ pmd_index(va(touching)) = c0
  BY <1>2, DirectIndices
<1> HIDE DEF K, c0
<1>5. EarlyPud = TableAt(0) /\ EarlyPud.to = 0
  BY <1>3, <1>4, Kinds DEF EarlyPud, TabInv, ImageInv
<1>6. EarlyPmd = tab[0][K]
  BY <1>4, <1>5 DEF EarlyPmd
<1> DEFINE t     == IF tab[0][K] # Empty THEN tab[0][K].to ELSE early_next
           clean == IF tab[0][K] # Empty THEN tab[t] ELSE EmptyTable
           row   == [clean EXCEPT ![c0] = LargePage(touching, FALSE)]
<1>7. /\ tab' = [tab EXCEPT ![0] = [@ EXCEPT ![K] = TableAt(t)], ![t] = row]
      /\ early_next' = IF tab[0][K] # Empty THEN early_next ELSE early_next + 1
  BY <1>4, <1>5, <1>6 DEF do_early_map
<1>8. /\ DirectInv /\ at \notin WithIdentity /\ early_next \in 1 .. EARLY_FREE_PAGES
      /\ tab \in [Tables -> [Index -> Entries]]
  BY <1>3 DEF TabInv, DirectInv, EarlyType
<1>9. /\ t \in 1 .. early_next' - 1 /\ t \in Int /\ early_next' \in 1 .. EARLY_FREE_PAGES
      /\ \A c \in Index : clean[c] \in {Empty, LargePage(K * NPTRS + c, FALSE)}
      /\ clean \in [Index -> Entries]
      /\ tab[0][K] # Empty => tab[0][K] = TableAt(t)
      /\ tab[0][K] = Empty => t = early_next
  <2>1. CASE tab[0][K] # Empty
    <3>1. PICK u \in 1 .. early_next - 1 :
             /\ tab[0][K] = TableAt(u)
             /\ \A c \in Index : tab[u][c] \in {Empty, LargePage(K * NPTRS + c, FALSE)}
      BY <1>4, <1>8, <2>1 DEF DirectInv
    <3>2. t = u /\ u \in Tables /\ u \in Int
      BY <3>1, <2>1, <1>8, Kinds
    <3> QED BY <2>1, <3>1, <3>2, <1>7, <1>8
  <2>2. CASE tab[0][K] = Empty
    <3>1. early_next < EARLY_FREE_PAGES /\ t = early_next /\ clean = EmptyTable
          /\ early_next' = early_next + 1
      BY <2>2, <1>1, <1>6, <1>7
    <3>2. EmptyTable = [k \in Index |-> Empty]
      BY DEF EmptyTable, Index
    <3> HIDE DEF t, clean
    <3> QED BY <2>2, <3>1, <3>2, <1>8, Kinds
  <2> QED BY <2>1, <2>2
<1> HIDE DEF t, clean
<1>10. LargePage(touching, FALSE) \in Entries
  BY <1>2 DEF LargePage, Entries
<1>11. /\ row \in [Index -> Entries] /\ row[c0] = LargePage(touching, FALSE)
       /\ \A c \in Index : c # c0 => row[c] = clean[c]
  BY <1>4, <1>9, <1>10
<1> HIDE DEF row
<1>12. t \in Tables /\ t # 0 /\ TableAt(t) \in Entries
  <2>1. t \in 0 .. EARLY_FREE_PAGES - 1 /\ t # 0
    BY <1>9
  <2> QED BY <2>1, <1>9, Kinds
<1>13. /\ tab' \in [Tables -> [Index -> Entries]]
       /\ tab'[t] = row /\ tab'[0] = [tab[0] EXCEPT ![K] = TableAt(t)]
       /\ \A u \in Tables \ {0, t} : tab'[u] = tab[u]
  BY <1>4, <1>7, <1>8, <1>11, <1>12
<1>14. /\ tab'[0][K] = TableAt(t) /\ \A k \in Index : k # K => tab'[0][k] = tab[0][k]
       /\ \A c \in Index : tab'[t][c] \in {Empty, LargePage(K * NPTRS + c, FALSE)}
  <2>1. ASSUME NEW c \in Index PROVE row[c] \in {Empty, LargePage(K * NPTRS + c, FALSE)}
    <3>1. CASE c = c0
      BY <3>1, <1>11, <1>4
    <3>2. CASE c # c0
      BY <3>2, <1>11, <1>9
    <3> QED BY <3>1, <3>2
  <2>2. tab[0] \in [Index -> Entries]
    BY <1>8
  <2> QED BY <2>1, <2>2, <1>4, <1>13
<1>15. /\ tab'[early_top_pgt] = tab[early_top_pgt] /\ tab'[level2_kernel_pgt] = tab[level2_kernel_pgt]
       /\ tab'[init_top_pgt] = tab[init_top_pgt] /\ tab'[level3_kernel_pgt] = tab[level3_kernel_pgt]
  BY <1>9, <1>13 DEF early_top_pgt, level2_kernel_pgt, init_top_pgt, level3_kernel_pgt
<1>16. ImageInv'
  BY <1>1, <1>3, <1>4, <1>14, <1>15 DEF TabInv, ImageInv
<1>17. IdentInv' /\ TopInv'
  BY <1>1, <1>3, <1>15 DEF TabInv, IdentInv, TopInv
<1>18. \* the table of another entry is another table
       ASSUME NEW k \in DirectIndex, k # K, tab[0][k] # Empty
       PROVE  tab[0][k] # TableAt(t) /\ tab'[0][k] = tab[0][k]
  <2>1. tab'[0][k] = tab[0][k]
    BY <1>14, <1>18
  <2>2. PICK u \in 1 .. early_next - 1 : tab[0][k] = TableAt(u)
    BY <1>8, <1>18 DEF DirectInv
  <2>3. CASE tab[0][K] = Empty
    <3>1. u # t /\ u \in Int
      BY <1>8, <1>9, <2>3
    <3> QED BY <2>1, <2>2, <3>1, <1>9, Kinds
  <2>4. CASE tab[0][K] # Empty
    BY <1>4, <1>8, <1>9, <1>18, <2>1, <2>4 DEF DirectInv
  <2> QED BY <2>3, <2>4
<1>19. ASSUME NEW k \in DirectIndex, tab'[0][k] # Empty
       PROVE  \E u \in 1 .. early_next' - 1 :
                 /\ tab'[0][k] = TableAt(u)
                 /\ \A c \in Index : tab'[u][c] \in {Empty, LargePage(k * NPTRS + c, FALSE)}
  <2>1. CASE k = K
    BY <2>1, <1>9, <1>14
  <2>2. CASE k # K
    <3>1. tab[0][k] # Empty /\ tab'[0][k] = tab[0][k] /\ tab[0][k] # TableAt(t)
      BY <1>14, <1>18, <1>19, <2>2
    <3>2. PICK u \in 1 .. early_next - 1 :
             /\ tab[0][k] = TableAt(u)
             /\ \A c \in Index : tab[u][c] \in {Empty, LargePage(k * NPTRS + c, FALSE)}
      BY <1>8, <3>1 DEF DirectInv
    <3>3. u \in Tables \ {0, t} /\ u \in 1 .. early_next' - 1
      BY <3>1, <3>2, <1>7, <1>8, <1>9
    <3> QED BY <3>1, <3>2, <3>3, <1>13
  <2> QED BY <2>1, <2>2
<1>20. ASSUME NEW k \in DirectIndex, NEW l \in DirectIndex, tab'[0][k] # Empty,
              tab'[0][k] = tab'[0][l]
       PROVE  k = l
  <2>1. CASE k # K /\ l # K
    BY <2>1, <1>8, <1>14, <1>20 DEF DirectInv
  <2>2. CASE k = K /\ l # K
    BY <2>2, <1>14, <1>18, <1>20
  <2>3. CASE k # K /\ l = K
    BY <2>3, <1>14, <1>18, <1>20
  <2> QED BY <2>1, <2>2, <2>3
<1>21. ASSUME NEW u \in 1 .. early_next' - 1
       PROVE  \E k \in DirectIndex : tab'[0][k] = TableAt(u)
  <2>1. CASE u = t
    BY <2>1, <1>4, <1>14
  <2>2. CASE u # t
    <3>1. u \in 1 .. early_next - 1 /\ u \in Int
      BY <2>2, <1>7, <1>8, <1>9
    <3>2. PICK k \in DirectIndex : tab[0][k] = TableAt(u)
      BY <3>1, <1>8 DEF DirectInv
    <3>3. k # K
      BY <3>1, <3>2, <2>2, <1>9, Kinds
    <3> QED BY <3>2, <3>3, <1>14
  <2> QED BY <2>1, <2>2
<1>22. DirectInv'
  BY <1>1, <1>3, <1>8, <1>9, <1>15, <1>19, <1>20, <1>21 DEF DirectInv
<1> QED BY <1>9, <1>13, <1>15, <1>16, <1>17, <1>22 DEF TabInv

\* init__init_top_pgt starts the kernel's own top table.
LEMMA InitTopStep ==
    ASSUME EarlyType, ControlInv, TabInv, init__init_top_pgt
    PROVE  tab' \in [Tables -> [Index -> Entries]] /\ TabInv'
<1> USE Constants
<1>1. /\ at = "inittop" /\ at' = "pcide" /\ early_next' = early_next /\ load' = load /\ img' = img
      /\ tab \in [Tables -> [Index -> Entries]]
  BY DEF init__init_top_pgt, Step, fixedVars, EarlyType
<1> DEFINE x == TableAt(level3_kernel_pgt)  y == TableAt(level2_kernel_pgt)
           z == TableAt(level2_fixmap_pgt)
           top == [tab[init_top_pgt] EXCEPT ![NPTRS - 1] = x]
           pud == [tab[level3_kernel_pgt] EXCEPT ![NPTRS - 2] = y, ![NPTRS - 1] = z]
<1>2. tab' = [tab EXCEPT ![init_top_pgt] = top, ![level3_kernel_pgt] = pud]
  <2>1. NPTRS - 2 + 1 = NPTRS - 1
    OBVIOUS
  <2>2. tab' = [tab EXCEPT ![init_top_pgt] = [@ EXCEPT ![NPTRS - 1] = x],
                           ![level3_kernel_pgt] = [@ EXCEPT ![NPTRS - 2] = y, ![NPTRS - 1] = z]]
    BY <2>1, KernelIndices DEF init__init_top_pgt
  <2>3. init_top_pgt # level3_kernel_pgt /\ init_top_pgt \in Tables /\ level3_kernel_pgt \in Tables
    BY DEF init_top_pgt, level3_kernel_pgt
  <2> HIDE Constants
  <2> HIDE DEF x, y, z
  <2> QED BY <1>1, <2>2, <2>3
<1>3. x \in Entries /\ y \in Entries /\ z \in Entries
  BY Kinds DEF level3_kernel_pgt, level2_kernel_pgt, level2_fixmap_pgt
<1>4. /\ top \in [Index -> Entries] /\ top[NPTRS - 1] = x
      /\ top[0] = tab[init_top_pgt][0]
  <2>1. tab[init_top_pgt] \in [Index -> Entries]
    BY <1>1
  <2> HIDE DEF x
  <2> QED BY <2>1, <1>3
<1>5. /\ pud \in [Index -> Entries] /\ pud[NPTRS - 2] = y
      /\ \A k \in DirectIndex : pud[k] = tab[level3_kernel_pgt][k]
  <2>1. tab[level3_kernel_pgt] \in [Index -> Entries]
    BY <1>1
  <2>2. \A k \in DirectIndex : k \in Index /\ k # NPTRS - 2 /\ k # NPTRS - 1
    OBVIOUS
  <2> HIDE DEF y, z
  <2> QED BY <2>1, <2>2, <1>3
<1> HIDE DEF top, pud
<1>6. /\ tab' \in [Tables -> [Index -> Entries]]
      /\ tab'[init_top_pgt] = top /\ tab'[level3_kernel_pgt] = pud
      /\ \A u \in Tables \ {init_top_pgt, level3_kernel_pgt} : tab'[u] = tab[u]
  <2>1. init_top_pgt # level3_kernel_pgt /\ init_top_pgt \in Tables /\ level3_kernel_pgt \in Tables
    BY DEF init_top_pgt, level3_kernel_pgt
  <2> QED BY <1>1, <1>2, <1>4, <1>5, <2>1
<1>7. /\ tab'[early_top_pgt] = tab[early_top_pgt] /\ tab'[level2_kernel_pgt] = tab[level2_kernel_pgt]
      /\ tab'[0] = tab[0] /\ \A t \in 0 .. EARLY_FREE_PAGES - 1 : tab'[t] = tab[t]
  BY <1>6 DEF early_top_pgt, level2_kernel_pgt, init_top_pgt, level3_kernel_pgt
<1>8. ImageInv'
  <2> HIDE Constants
  <2> QED BY <1>1, <1>7 DEF TabInv, ImageInv
<1>9. IdentInv'
  BY <1>1 DEF IdentInv, WithIdentity
<1>10. DirectInv'
  <2>1. DirectInv /\ at \notin WithIdentity /\ at' \notin WithIdentity
    BY <1>1 DEF TabInv, WithIdentity
  <2>2. early_next \in 1 .. EARLY_FREE_PAGES /\ \A t \in 1 .. early_next - 1 : tab'[t] = tab[t]
    BY <2>1, <1>7 DEF DirectInv
  <2>3. tab'[0] = tab[0] /\ tab'[early_top_pgt] = tab[early_top_pgt] /\ early_next' = early_next
    BY <1>1, <1>7
  <2> HIDE Constants
  <2> QED BY <2>1, <2>2, <2>3 DEF DirectInv
<1>11. TopInv'
  BY <1>1, <1>4, <1>5, <1>6 DEF TabInv, TopInv, OwnTop, FaultHandler, NoHandler, BeforeTop,
     WithIdentity
<1> QED BY <1>6, <1>8, <1>9, <1>10, <1>11 DEF TabInv

\* MapDirect fills an entry of the kernel's own PUD.
LEMMA MapDirectStep ==
    ASSUME EarlyType, ControlInv, TabInv, MapDirect
    PROVE  /\ tab' \in [Tables -> [Index -> Entries]] /\ TabInv'
           /\ \E K \in DirectIndex :
                 tab' = [tab EXCEPT ![level3_kernel_pgt][K] = DirectTables]
<1> USE Constants
<1>1. /\ at = "direct" /\ at' = "direct" /\ early_next' = early_next /\ load' = load /\ img' = img
      /\ tab \in [Tables -> [Index -> Entries]]
  BY DEF MapDirect, Step, fixedVars, EarlyType
<1>2. PICK p \in Memory : tab' = [tab EXCEPT ![level3_kernel_pgt][pud_index(va(p))] = DirectTables]
  BY DEF MapDirect
<1> DEFINE K == p \div NPTRS
<1>3. K \in DirectIndex /\ pud_index(va(p)) = K
  BY DirectIndices, EarlyAssumption
<1> HIDE DEF K
<1> DEFINE pud == [tab[level3_kernel_pgt] EXCEPT ![K] = DirectTables]
<1>4. /\ pud \in [Index -> Entries] /\ pud[NPTRS - 2] = tab[level3_kernel_pgt][NPTRS - 2]
      /\ \A k \in DirectIndex : pud[k] \in {tab[level3_kernel_pgt][k], DirectTables}
  <2>1. tab[level3_kernel_pgt] \in [Index -> Entries]
    BY <1>1
  <2> QED BY <2>1, <1>3, Kinds
<1>5. tab' = [tab EXCEPT ![level3_kernel_pgt] = pud]
  BY <1>1, <1>2, <1>3
<1> HIDE DEF pud
<1>6. /\ tab' \in [Tables -> [Index -> Entries]] /\ tab'[level3_kernel_pgt] = pud
      /\ \A u \in Tables \ {level3_kernel_pgt} : tab'[u] = tab[u]
  BY <1>1, <1>4, <1>5
<1>7. /\ tab'[early_top_pgt] = tab[early_top_pgt] /\ tab'[level2_kernel_pgt] = tab[level2_kernel_pgt]
      /\ tab'[init_top_pgt] = tab[init_top_pgt]
      /\ tab'[0] = tab[0] /\ \A t \in 0 .. EARLY_FREE_PAGES - 1 : tab'[t] = tab[t]
  BY <1>6 DEF early_top_pgt, level2_kernel_pgt, init_top_pgt, level3_kernel_pgt
<1>8. ImageInv'
  <2> HIDE Constants
  <2> QED BY <1>1, <1>7 DEF TabInv, ImageInv
<1>9. IdentInv'
  BY <1>1 DEF IdentInv, WithIdentity
<1>10. DirectInv'
  <2>1. DirectInv /\ at \notin WithIdentity /\ at' \notin WithIdentity
    BY <1>1 DEF TabInv, WithIdentity
  <2>2. early_next \in 1 .. EARLY_FREE_PAGES /\ \A t \in 1 .. early_next - 1 : tab'[t] = tab[t]
    BY <2>1, <1>7 DEF DirectInv
  <2>3. tab'[0] = tab[0] /\ tab'[early_top_pgt] = tab[early_top_pgt] /\ early_next' = early_next
    BY <1>1, <1>7
  <2> HIDE Constants
  <2> QED BY <2>1, <2>2, <2>3 DEF DirectInv
<1>11. TopInv'
  BY <1>1, <1>4, <1>6, <1>7 DEF TabInv, TopInv, OwnTop, FaultHandler, NoHandler, BeforeTop,
     WithIdentity
<1> QED BY <1>2, <1>3, <1>6, <1>8, <1>9, <1>10, <1>11 DEF TabInv

\* The steps that leave the tables alone.
LEMMA TabFrame ==
    ASSUME EarlyType, ControlInv, TabInv, UNCHANGED <<tab, early_next, load>>,
           at' = "startup" <=> at = "startup",
           at' \in WithIdentity <=> at \in WithIdentity,
           at' \in WithIdentity => img' = img,
           at' \in WithIdentity \ OnFirmware => img = ImagePages,
           at' \in {"pcide", "direct"} \cup OwnTop => at \in {"pcide", "direct"} \cup OwnTop,
           at' \in NoHandler \cup BeforeTop \cup {"pcide"} =>
              at \in NoHandler \cup BeforeTop \cup {"pcide"},
           at' \in OwnTop => \A p \in Memory : tab[level3_kernel_pgt][p \div NPTRS] = DirectTables
    PROVE  TabInv'
<1>1. tab' = tab /\ early_next' = early_next /\ load' = load
  OBVIOUS
<1>2. ImageInv'
  BY <1>1 DEF TabInv, ImageInv, WithIdentity
<1>3. IdentInv'
  <2> SUFFICES ASSUME at' \in WithIdentity \ {"startup"} PROVE IdentInv'
    BY DEF IdentInv
  <2>1. at \in WithIdentity \ {"startup"} /\ img' = img /\ (at' # "image" => img = ImagePages)
    BY DEF OnFirmware
  <2> QED BY <1>1, <2>1 DEF TabInv, IdentInv, FirstPud, LastPud, IdentEntry
<1>4. DirectInv'
  <2>1. at' \notin WithIdentity => at \notin WithIdentity
    OBVIOUS
  <2> QED BY <1>1, <2>1 DEF TabInv, DirectInv
<1>5. TopInv'
  BY <1>1 DEF TabInv, TopInv
<1> QED BY <1>2, <1>3, <1>4, <1>5 DEF TabInv

\* Every step keeps the tables as they should be.
LEMMA TabStep ==
    ASSUME EarlyType, ControlInv, TabInv, EarlyNext
    PROVE  /\ tab' \in [Tables -> [Index -> Entries]] /\ early_next' \in 0 .. EARLY_FREE_PAGES
           /\ img' \in Nat /\ load' = load /\ TabInv'
<1> USE Constants
<1>1. /\ tab \in [Tables -> [Index -> Entries]] /\ early_next \in 0 .. EARLY_FREE_PAGES
      /\ img \in Nat /\ at \in Places
  BY DEF EarlyType
<1>2. CASE startup_64
  <2>1. load' = load /\ img' = img
    BY <1>2 DEF startup_64, fixedVars
  <2> QED BY <2>1, <1>1, <1>2, StartupStep
<1>3. CASE ident_map
  <2>1. load' = load
    BY <1>3 DEF ident_map, fixedVars
  <2> QED BY <2>1, <1>3, IdentStep
<1>4. CASE purge_ident_mapping
  BY <1>1, <1>4, PurgeStep DEF purge_ident_mapping, fixedVars
<1>5. CASE do_early_map
  <2>1. load' = load /\ img' = img
    BY <1>5 DEF do_early_map, fixedVars
  <2> QED BY <2>1, <1>1, <1>5, EarlyMapStep
<1>6. CASE init__init_top_pgt
  BY <1>1, <1>6, InitTopStep DEF init__init_top_pgt, fixedVars
<1>7. CASE MapDirect
  BY <1>1, <1>7, MapDirectStep DEF MapDirect, fixedVars
<1> HIDE Constants
<1>8. CASE LoadEarlyTables
  <2>1. at = "image" /\ at' = "global" /\ img' = img /\ UNCHANGED <<tab, early_next, load>>
        /\ img \notin Image
    BY <1>8 DEF LoadEarlyTables, Step, tables, fixedVars
  <2>2. img = ImagePages
    <3>1. img \in 0 .. ImagePages
      BY <2>1 DEF TabInv, IdentInv, WithIdentity
    <3> QED BY <3>1, <2>1, Constants DEF Image
  <2> HIDE DEF TabInv
  <2> QED BY <1>1, <2>1, <2>2, TabFrame DEF WithIdentity, OnFirmware, OwnTop, FaultHandler,
        NoHandler, BeforeTop
<1>9. CASE GlobalFlush \/ cr4_init_shadow
  <2>1. /\ \/ at = "global" /\ at' = "shadow"
           \/ at = "shadow" /\ at' = "purge"
        /\ img' = img /\ UNCHANGED <<tab, early_next, load>>
    BY <1>9 DEF GlobalFlush, cr4_init_shadow, Step, tables, fixedVars
  <2>2. img = ImagePages
    BY <2>1 DEF TabInv, IdentInv, WithIdentity
  <2> HIDE DEF TabInv
  <2> QED BY <1>1, <2>1, <2>2, TabFrame DEF WithIdentity, OnFirmware, OwnTop, FaultHandler,
        NoHandler, BeforeTop
<1>10. CASE UseInitTop
  <2>1. at = "direct" /\ at' = "flush" /\ img' = img /\ UNCHANGED <<tab, early_next, load>>
    BY <1>10 DEF UseInitTop, Step, tables, fixedVars
  <2>2. ASSUME NEW p \in Memory PROVE tab[level3_kernel_pgt][p \div NPTRS] = DirectTables
    <3>1. p \div NPTRS \in DirectIndex /\ pud_index(va(p)) = p \div NPTRS
      BY DirectIndices, EarlyAssumption
    <3>2. tab[level3_kernel_pgt][pud_index(va(p))] # Empty
      BY <1>10 DEF UseInitTop
    <3> QED BY <3>1, <3>2 DEF TabInv, TopInv
  <2> HIDE DEF TabInv
  <2> QED BY <1>1, <2>1, <2>2, TabFrame DEF WithIdentity, OnFirmware, OwnTop, FaultHandler,
        NoHandler, BeforeTop
<1>11. CASE \/ idt_setup_early_handler \/ DriversMap \/ early_cpuinfo_init \/ cache_bp_init
            \/ EnablePcid \/ FlushAll \/ idt_setup_pf \/ setup_per_cpu_areas
  <2>1. /\ <<at, at'>> \in {<<"idt", "ctors">>, <<"ctors", "cpuinfo">>, <<"drivers", "percpu">>,
             <<"cpuinfo", "pat">>, <<"pat", "mtrr">>, <<"mtrr", "patcpu">>, <<"patcpu", "inittop">>,
             <<"pcide", "direct">>, <<"flush", "idtpf">>, <<"idtpf", "drivers">>,
             <<"percpu", "percpu">>, <<"percpu", "done">>}
        /\ UNCHANGED <<tab, early_next, load>>
        /\ img' \in {img, 0, img + 1}
    BY <1>11 DEF idt_setup_early_handler, DriversMap, early_cpuinfo_init, cache_bp_init,
       EnablePcid, FlushAll, idt_setup_pf, setup_per_cpu_areas, Step, tables, fixedVars
  <2>2. at' \in OwnTop => at \in OwnTop
    BY <2>1 DEF OwnTop, FaultHandler
  <2>3. at' \in OwnTop => \A p \in Memory : tab[level3_kernel_pgt][p \div NPTRS] = DirectTables
    BY <2>2 DEF TabInv, TopInv
  <2>4. TabInv'
    <3> HIDE DEF TabInv
    <3>1. /\ at' = "startup" <=> at = "startup"
          /\ at' \in WithIdentity <=> at \in WithIdentity
          /\ at' \notin WithIdentity
          /\ at' \in {"pcide", "direct"} \cup OwnTop => at \in {"pcide", "direct"} \cup OwnTop
          /\ at' \in NoHandler \cup BeforeTop \cup {"pcide"} =>
               at \in NoHandler \cup BeforeTop \cup {"pcide"}
      BY <2>1 DEF WithIdentity, OwnTop, FaultHandler, NoHandler, BeforeTop
    <3> QED BY <2>1, <2>3, <3>1, TabFrame
  <2> QED BY <1>1, <2>1, <2>4
<1>12. CASE FaultHalts
  <2>1. /\ at' = "halt" /\ UNCHANGED <<tab, early_next, load, img>> /\ at \notin NoHandler
    BY <1>12 DEF FaultHalts, Faults, ControlInv, tables, fixedVars
  <2> HIDE DEF TabInv
  <2> QED BY <1>1, <2>1, TabFrame DEF WithIdentity, OnFirmware, OwnTop, FaultHandler,
        NoHandler, BeforeTop
<1>13. CASE Access \/ Touch \/ Fill \/ Evict
  <2>1. UNCHANGED <<at, tab, early_next, load, img>>
    BY <1>13 DEF Access, Touch, Fill, Evict, tables, fixedVars
  <2>2. at' \in OwnTop => \A p \in Memory : tab[level3_kernel_pgt][p \div NPTRS] = DirectTables
    BY <2>1 DEF TabInv, TopInv
  <2>3. at' \in WithIdentity \ OnFirmware => img = ImagePages
    BY <2>1 DEF TabInv, IdentInv, OnFirmware
  <2> HIDE DEF TabInv
  <2> QED BY <1>1, <2>1, <2>2, <2>3, TabFrame
<1> QED BY <1>2, <1>3, <1>4, <1>5, <1>6, <1>7, <1>8, <1>9, <1>10, <1>11, <1>12, <1>13
        DEF EarlyNext, BootStep, Resolve

-----------------------------------------------------------------------------
(* The other parts of the invariant.                                       *)

\* A per-CPU area stays one when a field of it is written or it is copied.
LEMMA AreaType ==
    ASSUME NEW f, Area(f), NEW b \in Areas, NEW x, NEW c
    PROVE  /\ Area([f EXCEPT ![b].cr4 = x])
           /\ Area([f EXCEPT ![b].caps = x])
           /\ Area([f EXCEPT ![c] = f[b]])
           /\ [f EXCEPT ![b].cr4 = x][b].cr4 = x
           /\ \A a \in Areas : [f EXCEPT ![b].caps = x][a].cr4 = f[a].cr4
<1>1. /\ DOMAIN f = Areas /\ f = [a \in Areas |-> f[a]]
      /\ \A a \in Areas : f[a] = [cr4 |-> f[a].cr4, caps |-> f[a].caps]
  <2> DEFINE g == [a \in Areas |-> [cr4 |-> f[a].cr4, caps |-> f[a].caps]]
  <2>1. f = g
    BY DEF Area
  <2>2. DOMAIN g = Areas /\ g = [a \in Areas |-> g[a]]
    OBVIOUS
  <2>3. \A a \in Areas : g[a] = [cr4 |-> f[a].cr4, caps |-> f[a].caps]
    OBVIOUS
  <2> HIDE DEF g
  <2> QED BY <2>1, <2>2, <2>3
<1>2. ASSUME NEW h, DOMAIN h = Areas, h = [a \in Areas |-> h[a]],
             \A a \in Areas : h[a] = [cr4 |-> h[a].cr4, caps |-> h[a].caps]
      PROVE  Area(h)
  BY <1>2 DEF Area
<1> DEFINE y == [f[b] EXCEPT !.cr4 = x]  z == [f[b] EXCEPT !.caps = x]
<1>3. y = [cr4 |-> x, caps |-> f[b].caps] /\ z = [cr4 |-> f[b].cr4, caps |-> x]
  BY <1>1
<1>4. y.cr4 = x /\ y = [cr4 |-> y.cr4, caps |-> y.caps]
  BY <1>3
<1>5. z.cr4 = f[b].cr4 /\ z = [cr4 |-> z.cr4, caps |-> z.caps]
  BY <1>3
<1> HIDE DEF y, z
<1>6. [f EXCEPT ![b].cr4 = x] = [f EXCEPT ![b] = y] /\ [f EXCEPT ![b].caps = x] = [f EXCEPT ![b] = z]
  BY <1>1 DEF y, z
<1>7. ASSUME NEW r, r = [cr4 |-> r.cr4, caps |-> r.caps], NEW d PROVE Area([f EXCEPT ![d] = r])
  <2> DEFINE h == [f EXCEPT ![d] = r]
  <2>1. DOMAIN h = Areas /\ h = [a \in Areas |-> h[a]]
    BY <1>1
  <2>2. \A a \in Areas : h[a] = IF a = d THEN r ELSE f[a]
    BY <1>1
  <2> HIDE DEF h
  <2>3. \A a \in Areas : h[a] = [cr4 |-> h[a].cr4, caps |-> h[a].caps]
    BY <2>2, <1>1, <1>7
  <2>4. Area(h)
    BY <2>1, <2>3, <1>2
  <2> QED BY <2>4 DEF h
<1>8. /\ Area([f EXCEPT ![b].cr4 = x]) /\ Area([f EXCEPT ![b].caps = x])
      /\ Area([f EXCEPT ![c] = f[b]])
  BY <1>1, <1>4, <1>5, <1>6, <1>7
<1>9. [f EXCEPT ![b] = y][b] = y /\ \A a \in Areas : [f EXCEPT ![b] = z][a] = IF a = b THEN z ELSE f[a]
  BY <1>1
<1> QED BY <1>4, <1>5, <1>6, <1>8, <1>9

\* The CR4 written to an area is there.
LEMMA AreaPut ==
    ASSUME NEW f, Area(f), NEW b \in Areas, NEW x, NEW h, h = [f EXCEPT ![b].cr4 = x]
    PROVE  h[b].cr4 = x
<1>1. DOMAIN f = Areas /\ f[b] = [cr4 |-> f[b].cr4, caps |-> f[b].caps]
  <2> DEFINE g == [a \in Areas |-> [cr4 |-> f[a].cr4, caps |-> f[a].caps]]
  <2>1. f = g
    BY DEF Area
  <2>2. DOMAIN g = Areas /\ g[b] = [cr4 |-> f[b].cr4, caps |-> f[b].caps]
    OBVIOUS
  <2> HIDE DEF g
  <2> QED BY <2>1, <2>2
<1> DEFINE y == [f[b] EXCEPT !.cr4 = x]
<1>2. y.cr4 = x
  BY <1>1
<1>3. h[b] = y
  BY <1>1
<1> QED BY <1>2, <1>3

\* The variables keep their types.
LEMMA TypeStep ==
    ASSUME EarlyType, ControlInv, TabInv, EarlyNext
    PROVE  EarlyType'
<1>1. /\ tab' \in [Tables -> [Index -> Entries]] /\ early_next' \in 0 .. EARLY_FREE_PAGES
      /\ img' \in Nat /\ load' = load
  BY TabStep
<1>2. at' \in Places
  BY DEF EarlyType, EarlyNext, BootStep, Resolve, startup_64, ident_map, LoadEarlyTables,
     GlobalFlush, cr4_init_shadow, purge_ident_mapping, idt_setup_early_handler, DriversMap,
     early_cpuinfo_init, cache_bp_init, init__init_top_pgt, EnablePcid, MapDirect, UseInitTop,
     FlushAll, idt_setup_pf, setup_per_cpu_areas, Access, do_early_map, FaultHalts, Touch, Fill,
     Evict, Step, Places, NoHandler, WithIdentity, BeforeTop, OwnTop, FaultHandler
<1>3. touching' \in Touched \cup {NoPage}
  BY DEF EarlyType, EarlyNext, BootStep, Resolve, startup_64, ident_map, LoadEarlyTables,
     GlobalFlush, cr4_init_shadow, purge_ident_mapping, idt_setup_early_handler, DriversMap,
     early_cpuinfo_init, cache_bp_init, init__init_top_pgt, EnablePcid, MapDirect, UseInitTop,
     FlushAll, idt_setup_pf, setup_per_cpu_areas, Access, do_early_map, FaultHalts, Touch, Fill,
     Evict
<1>4. gs' \in Areas /\ Area(area')
  <2>1. gs \in Areas /\ Area(area) /\ 0 \in Areas /\ BootArea \in Areas
    <3>1. 0 \in Areas /\ BootArea \in Areas
      BY EarlyAssumption DEF Areas, BootArea
    <3> QED BY <3>1 DEF EarlyType
  <2>2. CASE cr4_init_shadow
    BY <2>1, <2>2, AreaType DEF cr4_init_shadow
  <2>3. CASE early_cpuinfo_init
    <3> DEFINE caps == IF cpu.leaf7 /\ cpu.invpcid THEN {"INVPCID"} ELSE area[gs].caps
    <3>1. area' = [area EXCEPT ![gs].caps = caps] /\ gs' = gs
      BY <2>3, <2>1 DEF early_cpuinfo_init
    <3> HIDE DEF caps
    <3>2. Area([area EXCEPT ![gs].caps = caps])
      BY <2>1, AreaType
    <3> QED BY <2>1, <3>1, <3>2
  <2>4. CASE EnablePcid
    <3> DEFINE new == read_cr4 \cup {"PCIDE"}
    <3>1. gs' = gs /\ (area' = area \/ area' = [area EXCEPT ![gs].cr4 = new])
      BY <2>4 DEF EnablePcid, cr4_set_bits
    <3> HIDE DEF new
    <3>2. Area([area EXCEPT ![gs].cr4 = new])
      BY <2>1, AreaType
    <3> QED BY <2>1, <3>1, <3>2
  <2>5. CASE setup_per_cpu_areas
    <3>1. gs' \in {gs, 0} /\ area' = [area EXCEPT ![img] = area[BootArea]]
      BY <2>5 DEF setup_per_cpu_areas
    <3>2. \A b \in Areas : Area([area EXCEPT ![img] = area[b]])
      BY <2>1, AreaType
    <3> QED BY <2>1, <3>1, <3>2
  <2>6. CASE ~(cr4_init_shadow \/ early_cpuinfo_init \/ EnablePcid \/ setup_per_cpu_areas)
    <3>1. area' = area /\ gs' = gs
      BY <2>6 DEF EarlyNext, BootStep, Resolve, startup_64, ident_map, LoadEarlyTables,
        GlobalFlush, purge_ident_mapping, idt_setup_early_handler, DriversMap,
        cache_bp_init, init__init_top_pgt, MapDirect, UseInitTop,
        FlushAll, idt_setup_pf, Access, do_early_map, FaultHalts, Touch, Fill,
        Evict, percpuVars
    <3> QED BY <2>1, <3>1
  <2> QED BY <2>2, <2>3, <2>4, <2>5, <2>6
<1>5. load' \in 0 .. (NPTRS - 2) * NPTRS - 1
  BY <1>1 DEF EarlyType
<1> QED BY <1>1, <1>2, <1>3, <1>4, <1>5 DEF EarlyType

\* The order of the boot.  The boot stops at a fault of the early handler only:
\* behind the kernel's own tables memory is mapped.
LEMMA ControlStep ==
    ASSUME EarlyType, ControlInv, TabInv, EarlyNext
    PROVE  ControlInv'
<1> USE DEF NoHandler, WithIdentity, OnFirmware, BeforeTop, OwnTop, FaultHandler
<1>1. at \in Places /\ touching \in Touched \cup {NoPage}
  BY DEF EarlyType
<1>2. CASE \/ startup_64 \/ ident_map \/ LoadEarlyTables \/ GlobalFlush \/ cr4_init_shadow
           \/ purge_ident_mapping
  BY <1>2 DEF ControlInv, startup_64, ident_map, LoadEarlyTables, GlobalFlush, cr4_init_shadow,
     purge_ident_mapping, Step, write_cr3
<1>3. CASE idt_setup_early_handler \/ DriversMap \/ early_cpuinfo_init
  BY <1>3 DEF ControlInv, idt_setup_early_handler, DriversMap, early_cpuinfo_init, Step,
     early_top_pgt, init_top_pgt
<1>4. CASE cache_bp_init
  BY <1>4 DEF ControlInv, cache_bp_init, Step
<1>5. CASE init__init_top_pgt \/ EnablePcid \/ MapDirect
  BY <1>5 DEF ControlInv, init__init_top_pgt, EnablePcid, MapDirect, Step
<1>6. CASE UseInitTop \/ FlushAll \/ idt_setup_pf
  BY <1>6 DEF ControlInv, UseInitTop, FlushAll, idt_setup_pf, Step, write_cr3
<1>7. CASE setup_per_cpu_areas
  BY <1>7 DEF ControlInv, setup_per_cpu_areas, Step
<1>8. CASE Access \/ Fill \/ Evict
  BY <1>8 DEF ControlInv, Access, Fill, Evict, tables
<1>9. CASE do_early_map
  <2>1. at # "halt" /\ touching # NoPage /\ UNCHANGED <<at, cr3, handler, touching>>
    BY <1>9 DEF do_early_map, Faults
  <2> QED BY <2>1 DEF ControlInv
<1>10. CASE Touch
  <2>1. /\ handler # "none" /\ at # "halt" /\ UNCHANGED <<at, cr3, handler>>
        /\ touching' \in IF OnOwnTables THEN Touched \cap Memory ELSE Touched
    BY <1>10 DEF Touch
  <2> QED BY <2>1 DEF ControlInv, OnOwnTables
<1>11. CASE FaultHalts
  <2>1. /\ touching # NoPage /\ at' = "halt" /\ UNCHANGED <<cr3, handler, touching, early_next>>
        /\ at # "halt" /\ Walk(va(touching)) = {} /\ ~CanMap
    BY <1>11 DEF FaultHalts, Faults, tables
  <2>2. touching \in Touched /\ at \notin NoHandler
    BY <1>1, <2>1 DEF ControlInv
  <2>3. at \notin OwnTop
    <3>1. CASE at \in OwnTop
      <4>1. touching \in Memory
        BY <2>1, <3>1 DEF ControlInv
      <4>2. FoundAt(va(touching), touching)
        BY <2>2, <3>1, <4>1, WalkDirect
      <4> QED BY <2>1, <4>2 DEF FoundAt
    <3> QED BY <3>1
  <2>4. handler = "early" /\ cr3 = early_top_pgt
    BY <2>2, <2>3 DEF ControlInv
  <2>5. early_next = EARLY_FREE_PAGES
    <3>1. touching \in 0 .. (NPTRS - 2) * NPTRS - 1
      BY <2>2, EarlyAssumption
    <3>2. pgd_index(va(touching)) = NPTRS - 1
      BY <3>1, DirectIndices
    <3>3. EarlyPud = TableAt(0)
      BY <2>2, <3>2 DEF EarlyPud, TabInv, ImageInv
    <3>4. EarlyPud # Empty
      BY <3>3, Kinds
    <3>5. ~(early_next < EARLY_FREE_PAGES)
      BY <2>1, <2>4, <3>4 DEF CanMap
    <3> QED BY <3>5, Constants DEF EarlyType
  <2> QED BY <2>1, <2>4, <2>5 DEF ControlInv, early_top_pgt, init_top_pgt
<1> QED BY <1>2, <1>3, <1>4, <1>5, <1>6, <1>7, <1>8, <1>9, <1>10, <1>11
        DEF EarlyNext, BootStep, Resolve

\* A part of the TLB, where no address changes its meaning.
LEMMA TlbShrinks ==
    ASSUME EarlyType, TlbInv, load' = load, tlb' \subseteq tlb,
           at' \in WithIdentity <=> at \in WithIdentity,
           at \in {"startup", "image", "global"} => at' \in {"startup", "image", "global"}
    PROVE  TlbInv'
<1>1. \A v : Meant(v)' = Meant(v)
  BY DEF Meant, WithIdentity
<1>2. Addresses' = Addresses
  BY DEF Addresses
<1> QED BY <1>1, <1>2 DEF TlbInv

\* flush_tlb_all empties the TLB, and leaves CR4 as it is while its shadow holds it.
LEMMA FlushEmpties ==
    ASSUME flush_tlb_all, read_cr4 = cr4
    PROVE  tlb' = {} /\ cr4' = cr4
<1>1. CASE "INVPCID" \in area[gs].caps
  BY <1>1 DEF flush_tlb_all
<1>2. CASE "INVPCID" \notin area[gs].caps
  <2>1. cr4 \cap {"PGE", "PCIDE"} # Flip(cr4, {"PGE"}) \cap {"PGE", "PCIDE"}
    BY DEF Flip
  <2> DEFINE f == Flip(cr4, {"PGE"})
  <2>2. /\ tlb' = AfterCr4(f, cr4, AfterCr4(cr4, f, tlb)) /\ cr4' = cr4
    BY <1>2 DEF flush_tlb_all
  <2> HIDE DEF f
  <2>3. AfterCr4(f, cr4, AfterCr4(cr4, f, tlb)) = {}
    BY <2>1 DEF AfterCr4, f
  <2> QED BY <2>2, <2>3
<1> QED BY <1>1, <1>2

\* The TLB holds what it should: a walk's result is right when it is cached, and
\* what ceases to be right has been flushed by then.
LEMMA TlbStep ==
    ASSUME EarlyType, ControlInv, TabInv, TlbInv, ShadowInv, EarlyNext
    PROVE  TlbInv'
<1>1. load' = load
  BY TabStep
<1>2. CASE Fill
  <2>1. UNCHANGED <<at, load>>
    BY <1>2 DEF Fill, fixedVars
  <2>0. PICK v \in Addresses : \E e \in Walk(v) : tlb' = tlb \cup {e}
    BY <1>2 DEF Fill
  <2>2. PICK e \in Walk(v) : tlb' = tlb \cup {e}
    BY <2>0
  <2>3. /\ e = [va |-> v, pa |-> e.pa, global |-> e.global] /\ e.pa \in Meant(v)
        /\ v < PAGE_OFFSET /\ e.global => at \in OnFirmware
    BY WalkMeant
  <2>4. e.va = v
    BY <2>3
  <2>5. \A w : Meant(w)' = Meant(w)
    BY <2>1 DEF Meant
  <2>6. Addresses' = Addresses
    BY <2>1 DEF Addresses
  <2> QED BY <2>1, <2>2, <2>3, <2>4, <2>5, <2>6 DEF TlbInv, OnFirmware
<1>3. CASE GlobalFlush
  <2>1. tlb' = {}
    BY <1>3 DEF GlobalFlush, AfterCr4
  <2> QED BY <2>1 DEF TlbInv
<1>4. CASE purge_ident_mapping
  <2>1. at = "purge" /\ at' = "idt" /\ tlb' = {e \in tlb : e.global}
    BY <1>4 DEF purge_ident_mapping, Step, write_cr3, Globals
  <2>2. Addresses' = Addresses
    BY <1>1 DEF Addresses
  <2> SUFFICES ASSUME NEW e \in tlb, e.global
               PROVE  /\ e = [va |-> e.va, pa |-> e.pa, global |-> e.global]
                      /\ e.va \in Addresses' /\ e.pa \in Meant(e.va)'
                      /\ ~(e.va < PAGE_OFFSET)
    BY <2>1 DEF TlbInv
  <2>3. /\ e = [va |-> e.va, pa |-> e.pa, global |-> e.global]
        /\ e.va \in Addresses /\ e.pa \in Meant(e.va) /\ ~(e.va < PAGE_OFFSET)
    BY <2>1 DEF TlbInv
  <2>4. e.va \in Int /\ PAGE_OFFSET \in Int
    <3>0. PAGE_OFFSET \in Int /\ (NPTRS - 2) * NPTRS \in Int
      BY Constants DEF PAGE_OFFSET
    <3>1. PAGE_OFFSET \in Int /\ text \in Int /\ load \in Int
      BY <3>0, Constants DEF text, START_KERNEL_map, EarlyType, Index
    <3>2. \A p \in Touched : va(p) \in Int
      BY <3>1, EarlyAssumption DEF va
    <3> QED BY <3>1, <3>2, <2>3 DEF Addresses, Image
  <2>5. \A v : v >= PAGE_OFFSET => Meant(v)' = Meant(v)
    BY <1>1 DEF Meant
  <2>6. e.va >= PAGE_OFFSET
    BY <2>3, <2>4
  <2>7. PICK v \in Addresses : v = e.va
    BY <2>3
  <2>8. Meant(v)' = Meant(v)
    BY <2>5, <2>6, <2>7
  <2>9. e.pa \in Meant(e.va)'
    BY <2>3, <2>7, <2>8 DEF Meant
  <2> QED BY <2>2, <2>3, <2>9
<1>5. CASE \/ startup_64 \/ ident_map \/ LoadEarlyTables \/ cr4_init_shadow
           \/ idt_setup_early_handler \/ DriversMap \/ early_cpuinfo_init
  <2>1. tlb' \in {tlb, Globals}
    BY <1>5 DEF startup_64, ident_map, LoadEarlyTables, cr4_init_shadow, idt_setup_early_handler,
       DriversMap, early_cpuinfo_init, write_cr3
  <2>2. <<at, at'>> \in {<<"startup", "image">>, <<"image", "image">>, <<"image", "global">>,
           <<"shadow", "purge">>, <<"idt", "ctors">>, <<"ctors", "cpuinfo">>,
           <<"drivers", "percpu">>, <<"cpuinfo", "pat">>}
    BY <1>5 DEF startup_64, ident_map, LoadEarlyTables, cr4_init_shadow, idt_setup_early_handler,
       DriversMap, early_cpuinfo_init, Step
  <2> QED BY <1>1, <2>1, <2>2, TlbShrinks DEF Globals, WithIdentity
<1>6. CASE \/ cache_bp_init \/ init__init_top_pgt \/ EnablePcid \/ MapDirect \/ UseInitTop
           \/ FlushAll \/ idt_setup_pf \/ setup_per_cpu_areas
  <2>1. <<at, at'>> \in {<<"pat", "mtrr">>, <<"mtrr", "patcpu">>, <<"patcpu", "inittop">>,
           <<"inittop", "pcide">>, <<"pcide", "direct">>, <<"direct", "direct">>,
           <<"direct", "flush">>, <<"flush", "idtpf">>, <<"idtpf", "drivers">>,
           <<"percpu", "percpu">>, <<"percpu", "done">>}
    BY <1>6 DEF cache_bp_init, init__init_top_pgt, EnablePcid, MapDirect, UseInitTop,
       FlushAll, idt_setup_pf, setup_per_cpu_areas, Step
  <2>2. read_cr4 = cr4
    BY <2>1 DEF ShadowInv, read_cr4
  <2>3. tlb' \subseteq tlb
    <3>1. CASE cache_bp_init
      BY <3>1, <2>2, FlushEmpties DEF cache_bp_init
    <3>2. CASE EnablePcid
      BY <3>2 DEF EnablePcid, cr4_set_bits, AfterCr4
    <3>3. CASE FlushAll
      BY <3>3, <2>2, FlushEmpties DEF FlushAll
    <3>4. CASE UseInitTop
      BY <3>4 DEF UseInitTop, write_cr3, Globals
    <3>5. CASE init__init_top_pgt \/ MapDirect \/ idt_setup_pf \/ setup_per_cpu_areas
      BY <3>5 DEF init__init_top_pgt, MapDirect, idt_setup_pf, setup_per_cpu_areas
    <3> QED BY <3>1, <3>2, <3>3, <3>4, <3>5, <1>6
  <2> QED BY <1>1, <2>1, <2>3, TlbShrinks DEF WithIdentity
<1>7. CASE FaultHalts
  <2>1. tlb' = tlb /\ at' = "halt" /\ at \notin NoHandler
    BY <1>7 DEF FaultHalts, Faults, ControlInv
  <2> QED BY <1>1, <2>1, TlbShrinks DEF NoHandler, WithIdentity
<1>8. CASE Access \/ do_early_map \/ Touch \/ Evict
  <2>1. tlb' \subseteq tlb /\ at' = at
    BY <1>8 DEF Access, do_early_map, Touch, Evict
  <2> QED BY <1>1, <2>1, TlbShrinks
<1> QED BY <1>2, <1>3, <1>4, <1>5, <1>6, <1>7, <1>8 DEF EarlyNext, BootStep, Resolve

\* The shadow of CR4, and its copies.
LEMMA ShadowStep ==
    ASSUME EarlyType, ControlInv, TabInv, ShadowInv, EarlyNext
    PROVE  ShadowInv'
<1> USE DEF OwnTop, FaultHandler
<1>1. gs \in Areas /\ Area(area) /\ 0 \in Areas /\ BootArea \in Areas /\ at \in Places
  <2>1. 0 \in Areas /\ BootArea \in Areas
    BY EarlyAssumption DEF Areas, BootArea
  <2> QED BY <2>1 DEF EarlyType
<1>2. CASE startup_64 \/ ident_map \/ LoadEarlyTables \/ GlobalFlush
  <2>1. /\ <<at, at'>> \in {<<"startup", "image">>, <<"image", "image">>, <<"image", "global">>,
             <<"global", "shadow">>}
        /\ gs' = gs
    BY <1>2 DEF startup_64, ident_map, LoadEarlyTables, GlobalFlush, Step, percpuVars
  <2>2. tab'[level3_kernel_pgt][0] = Empty
    <3>1. TabInv'
      BY TabStep
    <3> QED BY <2>1, <3>1, Constants DEF TabInv, TopInv, NoHandler, WithIdentity
  <2> QED BY <2>1, <2>2 DEF ShadowInv
<1>3. CASE cr4_init_shadow
  <2>1. /\ at = "shadow" /\ at' = "purge" /\ gs' = gs /\ cr4' = cr4 /\ tab' = tab
        /\ area' = [area EXCEPT ![gs].cr4 = cr4]
    BY <1>3 DEF cr4_init_shadow, Step, tables
  <2>2. area'[gs].cr4 = cr4
    BY <1>1, <2>1, AreaType
  <2> QED BY <2>1, <2>2 DEF ShadowInv
<1>4. CASE early_cpuinfo_init
  <2> DEFINE caps == IF cpu.leaf7 /\ cpu.invpcid THEN {"INVPCID"} ELSE area[gs].caps
  <2>1. /\ at = "cpuinfo" /\ at' = "pat" /\ gs' = gs /\ cr4' = cr4 /\ tab' = tab
        /\ area' = [area EXCEPT ![gs].caps = caps]
    BY <1>4, <1>1 DEF early_cpuinfo_init, Step, tables
  <2> HIDE DEF caps
  <2>2. area'[gs].cr4 = area[gs].cr4
    BY <1>1, <2>1, AreaType
  <2> QED BY <2>1, <2>2 DEF ShadowInv
<1>5. CASE EnablePcid
  <2> DEFINE new == cr4 \cup {"PCIDE"}
  <2>1. /\ at = "pcide" /\ at' = "direct" /\ gs' = gs /\ tab' = tab /\ area[gs].cr4 = cr4
    BY <1>5 DEF EnablePcid, cr4_set_bits, Step, tables, ShadowInv
  <2>2. \/ area' = area /\ cr4' = cr4 /\ cr4 = new
        \/ area' = [area EXCEPT ![gs].cr4 = new] /\ cr4' = new
    BY <1>5, <2>1 DEF EnablePcid, cr4_set_bits, read_cr4
  <2>3. "PCIDE" \in new
    OBVIOUS
  <2> HIDE DEF new
  <2>4. area'[gs].cr4 = cr4' /\ "PCIDE" \in cr4'
    <3>1. ASSUME area' = [area EXCEPT ![gs].cr4 = new] PROVE area'[gs].cr4 = new
      BY <1>1, <3>1, AreaPut
    <3> QED BY <2>1, <2>2, <2>3, <3>1
  <2> QED BY <2>1, <2>4 DEF ShadowInv
<1>6. CASE setup_per_cpu_areas
  <2>1. /\ at = "percpu" /\ at' = (IF img = NrCpus - 1 THEN "done" ELSE "percpu")
        /\ area' = [area EXCEPT ![img] = area[BootArea]]
        /\ gs' = (IF img = 0 THEN 0 ELSE gs) /\ img' = img + 1 /\ cr4' = cr4 /\ tab' = tab
    BY <1>6 DEF setup_per_cpu_areas, Step, tables
  <2>2. /\ img \in 0 .. NrCpus - 1 /\ gs = IF img = 0 THEN BootArea ELSE 0
        /\ \A c \in 0 .. img - 1 : area[c] = area[BootArea]
        /\ area[gs].cr4 = cr4 /\ "PCIDE" \in cr4
    BY <2>1 DEF ShadowInv
  <2>3. gs' = 0 /\ NrCpus \in Nat \ {0}
    BY <2>1, <2>2, EarlyAssumption
  <2>4. \A a \in Areas : area'[a] = IF a = img THEN area[BootArea] ELSE area[a]
    BY <1>1, <2>1 DEF Area
  <2>5. area'[BootArea] = area[BootArea]
    BY <1>1, <2>4
  <2>6. \A c \in 0 .. img : area'[c] = area'[BootArea]
    BY <2>2, <2>3, <2>4, <2>5 DEF Areas
  <2>7. area[BootArea].cr4 = cr4
    BY <2>2, EarlyAssumption
  <2>8. area'[gs'].cr4 = cr4'
    BY <2>1, <2>2, <2>3, <2>5, <2>6, <2>7
  <2>9. at' = "percpu" => img' \in 0 .. NrCpus - 1 /\ \A c \in 0 .. img' - 1 : area'[c] = area'[BootArea]
    BY <2>1, <2>2, <2>3, <2>6
  <2>10. at' = "done" => \A c \in 0 .. NrCpus - 1 : area'[c] = area'[BootArea]
    BY <2>1, <2>2, <2>3, <2>6
  <2>11. at' = "percpu" => gs' = IF img' = 0 THEN BootArea ELSE 0
    BY <2>1, <2>2, <2>3
  <2> QED BY <2>1, <2>2, <2>3, <2>8, <2>9, <2>10, <2>11 DEF ShadowInv
<1>7. CASE cache_bp_init \/ FlushAll
  <2>1. /\ <<at, at'>> \in {<<"pat", "mtrr">>, <<"mtrr", "patcpu">>, <<"patcpu", "inittop">>,
             <<"flush", "idtpf">>}
        /\ UNCHANGED <<area, gs, tab>>
    BY <1>7 DEF cache_bp_init, FlushAll, Step, percpuVars, tables
  <2>2. read_cr4 = cr4
    BY <2>1 DEF ShadowInv, read_cr4
  <2>3. cr4' = cr4
    BY <1>7, <2>2, FlushEmpties DEF cache_bp_init, FlushAll
  <2> QED BY <2>1, <2>3 DEF ShadowInv
<1>8. CASE \/ purge_ident_mapping \/ idt_setup_early_handler \/ init__init_top_pgt \/ MapDirect
           \/ UseInitTop \/ idt_setup_pf \/ DriversMap
  <2>1. /\ <<at, at'>> \in {<<"purge", "idt">>, <<"idt", "ctors">>, <<"inittop", "pcide">>,
             <<"direct", "direct">>, <<"direct", "flush">>, <<"idtpf", "drivers">>,
             <<"ctors", "cpuinfo">>, <<"drivers", "percpu">>}
        /\ UNCHANGED <<area, gs, cr4>>
    BY <1>8 DEF purge_ident_mapping, idt_setup_early_handler, init__init_top_pgt, MapDirect,
       UseInitTop, idt_setup_pf, DriversMap, Step, percpuVars
  <2>2. tab'[level3_kernel_pgt][0] # Empty => "PCIDE" \in cr4
    <3>1. CASE at' \in NoHandler \cup BeforeTop \cup {"pcide"}
      <4>1. TabInv'
        BY TabStep
      <4> QED BY <3>1, <4>1, Constants DEF TabInv, TopInv
    <3>2. CASE at' \notin NoHandler \cup BeforeTop \cup {"pcide"}
      <4>1. at \in {"direct"} \cup OwnTop
        BY <2>1, <3>2 DEF NoHandler, WithIdentity, BeforeTop
      <4> QED BY <4>1 DEF ShadowInv
    <3> QED BY <3>1, <3>2
  <2>3. /\ at' = "drivers" => img' = 0
        /\ at' = "percpu" => img' = 0 /\ gs = BootArea
    BY <1>8, <2>1 DEF purge_ident_mapping, idt_setup_early_handler, init__init_top_pgt, MapDirect,
       UseInitTop, idt_setup_pf, DriversMap, Step, ShadowInv
  <2>4. 0 \in 0 .. NrCpus - 1 /\ 0 .. 0 - 1 = {}
    BY EarlyAssumption
  <2> QED BY <2>1, <2>2, <2>3, <2>4 DEF ShadowInv
<1>9. CASE Access \/ do_early_map \/ FaultHalts \/ Touch \/ Fill \/ Evict
  <2>1. UNCHANGED <<area, gs, cr4, img>>
    BY <1>9 DEF Access, do_early_map, FaultHalts, Touch, Fill, Evict, percpuVars
  <2>2. tab'[level3_kernel_pgt] = tab[level3_kernel_pgt]
    <3>1. CASE do_early_map
      BY <3>1, EarlyMapStep
    <3>2. CASE ~do_early_map
      BY <1>9, <3>2 DEF Access, FaultHalts, Touch, Fill, Evict, tables
    <3> QED BY <3>1, <3>2
  <2>3. at' = at \/ (at' = "halt" /\ at \notin NoHandler)
    BY <1>9 DEF Access, do_early_map, FaultHalts, Faults, Touch, Fill, Evict, ControlInv
  <2>4. CASE at' = at
    BY <2>1, <2>2, <2>4 DEF ShadowInv
  <2>5. CASE at' = "halt" /\ at \notin NoHandler
    BY <2>1, <2>2, <2>5 DEF ShadowInv, NoHandler, WithIdentity
  <2> QED BY <2>3, <2>4, <2>5
<1> QED BY <1>2, <1>3, <1>4, <1>5, <1>6, <1>7, <1>8, <1>9 DEF EarlyNext, BootStep, Resolve

-----------------------------------------------------------------------------
(* Cache modes.                                                            *)

\* The six modes after pat_bp_init: for a mode in two slots, the later one.
LEMMA ModesAre ==
    ASSUME pat_bp_init
    PROVE  cachemode_to_pte' = NewModes
<1> DEFINE ks(m) == {k \in Slots : PatMsrVal[k] = m}
           last(m) == CHOOSE k \in ks(m) : \A j \in ks(m) : j <= k
<1>1. /\ PatMsrVal[0] = "WB" /\ PatMsrVal[1] = "WC" /\ PatMsrVal[2] = "UC-" /\ PatMsrVal[3] = "UC"
      /\ PatMsrVal[4] = "WB" /\ PatMsrVal[5] = "WP" /\ PatMsrVal[6] = "UC-" /\ PatMsrVal[7] = "WT"
  BY DEF PatMsrVal, Slots
<1>2. Slots = {0, 1, 2, 3, 4, 5, 6, 7}
  BY DEF Slots
<1>3. /\ ks("WB") = {0, 4} /\ ks("WC") = {1} /\ ks("UC-") = {2, 6} /\ ks("UC") = {3}
      /\ ks("WP") = {5} /\ ks("WT") = {7}
  BY <1>1, <1>2
<1>4. /\ last("WB") = 4 /\ last("WC") = 1 /\ last("UC-") = 6 /\ last("UC") = 3
      /\ last("WP") = 5 /\ last("WT") = 7
  <2>1. ASSUME NEW a \in Int, NEW b \in Int, a <= b
        PROVE  (CHOOSE k \in {a, b} : \A j \in {a, b} : j <= k) = b
    <3>1. b \in {a, b} /\ \A j \in {a, b} : j <= b
      BY <2>1
    <3>2. \A k \in {a, b} : (\A j \in {a, b} : j <= k) => k = b
      BY <2>1
    <3> QED BY <3>1, <3>2
  <2>2. ASSUME NEW a \in Int PROVE (CHOOSE k \in {a} : \A j \in {a} : j <= k) = a
    OBVIOUS
  <2> QED BY <1>3, <2>1, <2>2
<1>5. \A m \in CacheMode : ks(m) # {}
  BY <1>3 DEF CacheMode
<1>6. cachemode_to_pte' = [m \in CacheMode |-> BitsOf(last(m))]
  <2>1. cachemode_to_pte' = [m \in CacheMode |->
          IF ks(m) = {} THEN cachemode_to_pte[m] ELSE BitsOf(last(m))]
    BY DEF pat_bp_init
  <2> HIDE DEF ks, last
  <2> QED BY <2>1, <1>5
<1> HIDE DEF ks, last
<1> QED BY <1>4, <1>6 DEF NewModes, CacheMode

\* The bits of a slot, and the slot of its bits.
LEMMA SlotBits ==
    /\ \A k \in Slots : SlotOf(BitsOf(k)) = k
    /\ \A k \in Slots : k # 0 => BitsOf(k) # {}
    /\ SlotOf({}) = 0
<1>1. /\ BitsOf(0) = {} /\ BitsOf(1) = {"PWT"} /\ BitsOf(2) = {"PCD"} /\ BitsOf(3) = {"PCD", "PWT"}
      /\ BitsOf(4) = {"PAT"} /\ BitsOf(5) = {"PAT", "PWT"} /\ BitsOf(6) = {"PAT", "PCD"}
      /\ BitsOf(7) = {"PAT", "PCD", "PWT"}
  BY DEF BitsOf
<1>2. /\ SlotOf({}) = 0 /\ SlotOf({"PWT"}) = 1 /\ SlotOf({"PCD"}) = 2 /\ SlotOf({"PCD", "PWT"}) = 3
      /\ SlotOf({"PAT"}) = 4 /\ SlotOf({"PAT", "PWT"}) = 5 /\ SlotOf({"PAT", "PCD"}) = 6
      /\ SlotOf({"PAT", "PCD", "PWT"}) = 7
  BY DEF SlotOf
<1>3. Slots = {0, 1, 2, 3, 4, 5, 6, 7}
  BY DEF Slots
<1> QED BY <1>1, <1>2, <1>3

\* The modes of the slots.
LEMMA PatSlots ==
    /\ PatMsrVal[0] = "WB" /\ PatMsrVal[1] = "WC" /\ PatMsrVal[2] = "UC-" /\ PatMsrVal[3] = "UC"
    /\ PatMsrVal[4] = "WB" /\ PatMsrVal[5] = "WP" /\ PatMsrVal[6] = "UC-" /\ PatMsrVal[7] = "WT"
    /\ ResetPat[2] = "UC-" /\ ResetPat[3] = "UC"
BY DEF PatMsrVal, ResetPat, Slots

\* The two modes in use, in the three states of the tables.
LEMMA ModesMapped ==
    /\ ResetModes["UC-"] = BitsOf(2) /\ ResetModes["UC"] = BitsOf(3)
    /\ NewModes["UC-"] = BitsOf(6) /\ NewModes["UC"] = BitsOf(3)
BY DEF ResetModes, NewModes, CacheMode

\* The steps of cache.c, in the order of the boot.
LEMMA CacheStep ==
    ASSUME EarlyType, ControlInv, CacheInv, EarlyNext
    PROVE  CacheInv'
<1> USE DEF NoHandler, WithIdentity, CachesSet
<1>1. CASE DriversMap
  <2>1. \/ at = "ctors" /\ at' = "cpuinfo"
        \/ at = "drivers" /\ at' = "percpu"
    BY <1>1 DEF DriversMap, Step
  <2>2. /\ UNCHANGED <<cachemode_to_pte, pat_idx_to_cachemode, pat, mtrr>>
        /\ mappings' = mappings \cup {[mode |-> m, bits |-> cachemode2protval(m)] : m \in UsedModes}
    BY <1>1 DEF DriversMap, MapPages
  <2>3. mappings' = mappings \cup {[mode |-> "UC-", bits |-> cachemode_to_pte["UC-"]],
                                   [mode |-> "UC", bits |-> cachemode_to_pte["UC"]]}
    <3>1. /\ cachemode2protval("UC-") = cachemode_to_pte["UC-"]
          /\ cachemode2protval("UC") = cachemode_to_pte["UC"]
      BY DEF cachemode2protval
    <3> QED BY <2>2, <3>1 DEF UsedModes
  <2>4. CASE at = "ctors" /\ at' = "cpuinfo"
    <3>1. ModesReset
      BY <2>4 DEF CacheInv
    <3>2. mappings' = mappings \cup {Mapped("UC-", 2), Mapped("UC", 3)}
      BY <2>3, <3>1, ModesMapped DEF ModesReset, Mapped
    <3>3. ModesReset'
      BY <2>2, <3>1, <3>2 DEF ModesReset
    <3> QED BY <2>4, <3>3 DEF CacheInv
  <2>5. CASE at = "drivers" /\ at' = "percpu"
    <3>1. ModesProgrammed
      BY <2>5 DEF CacheInv
    <3>2. mappings' = mappings \cup {Mapped("UC-", 6), Mapped("UC", 3)}
      BY <2>3, <3>1, ModesMapped DEF ModesProgrammed, Mapped
    <3>3. ModesProgrammed'
      BY <2>2, <3>1, <3>2 DEF ModesProgrammed
    <3> QED BY <2>5, <3>3 DEF CacheInv
  <2> QED BY <2>1, <2>4, <2>5
<1>2. CASE Step("pat", "mtrr") /\ pat_bp_init
  <2>1. at = "pat" /\ at' = "mtrr" /\ cachemode_to_pte' = NewModes
    BY <1>2, ModesAre DEF Step
  <2>2. pat_idx_to_cachemode' = PatMsrVal /\ UNCHANGED mappings
    BY <1>2 DEF pat_bp_init
  <2>3. ModesKnown'
    BY <2>1, <2>2 DEF CacheInv, ModesReset, ModesKnown
  <2> QED BY <2>1, <2>3 DEF CacheInv
<1>3. CASE Step("mtrr", "patcpu") /\ mtrr_cpu_init
  <2>1. /\ at = "mtrr" /\ at' = "patcpu" /\ ~mtrr'
        /\ UNCHANGED <<cachemode_to_pte, pat_idx_to_cachemode, pat, mappings>>
    BY <1>3 DEF Step, mtrr_cpu_init
  <2>2. ModesKnown'
    BY <2>1 DEF CacheInv, ModesKnown
  <2> QED BY <2>1, <2>2 DEF CacheInv
<1>4. CASE Step("patcpu", "inittop") /\ pat_cpu_init
  <2>1. /\ at = "patcpu" /\ at' = "inittop" /\ pat' = PatMsrVal
        /\ UNCHANGED <<cachemode_to_pte, pat_idx_to_cachemode, mtrr, mappings>>
    BY <1>4 DEF Step, pat_cpu_init
  <2>2. ModesKnown /\ ~mtrr
    BY <2>1 DEF CacheInv
  <2>3. ModesProgrammed'
    BY <2>1, <2>2 DEF ModesKnown, ModesProgrammed
  <2> QED BY <2>1, <2>3 DEF CacheInv
<1>5. CASE ~(DriversMap \/ cache_bp_init)
  <2>1. UNCHANGED <<cachemode_to_pte, pat_idx_to_cachemode, pat, mtrr, mappings>>
    BY <1>5 DEF EarlyNext, BootStep, Resolve, startup_64, ident_map, LoadEarlyTables,
     GlobalFlush, cr4_init_shadow, purge_ident_mapping, idt_setup_early_handler,
     early_cpuinfo_init, init__init_top_pgt, EnablePcid, MapDirect, UseInitTop,
     FlushAll, idt_setup_pf, setup_per_cpu_areas, Access, do_early_map, FaultHalts, Touch, Fill,
     Evict, cacheVars
  <2>2. \/ <<at, at'>> \in {<<"startup", "image">>, <<"image", "image">>, <<"image", "global">>,
             <<"global", "shadow">>, <<"shadow", "purge">>, <<"purge", "idt">>, <<"idt", "ctors">>,
             <<"cpuinfo", "pat">>, <<"inittop", "pcide">>, <<"pcide", "direct">>,
             <<"direct", "direct">>, <<"direct", "flush">>, <<"flush", "idtpf">>,
             <<"idtpf", "drivers">>, <<"percpu", "percpu">>, <<"percpu", "done">>}
        \/ at' = at \/ at' = "halt"
    BY <1>5 DEF EarlyNext, BootStep, Resolve, startup_64, ident_map, LoadEarlyTables,
     GlobalFlush, cr4_init_shadow, purge_ident_mapping, idt_setup_early_handler,
     early_cpuinfo_init, init__init_top_pgt, EnablePcid, MapDirect, UseInitTop,
     FlushAll, idt_setup_pf, setup_per_cpu_areas, Access, do_early_map, FaultHalts, Touch, Fill,
     Evict, Step
  <2>3. /\ ModesReset' <=> ModesReset
        /\ ModesKnown' <=> ModesKnown
        /\ ModesProgrammed' <=> ModesProgrammed
        /\ mtrr' = mtrr
    BY <2>1 DEF ModesReset, ModesKnown, ModesProgrammed
  <2> QED BY <2>2, <2>3 DEF CacheInv
<1> QED BY <1>1, <1>2, <1>3, <1>4, <1>5 DEF cache_bp_init

\* The property, from the invariant.
LEMMA ModesNow ==
    ASSUME CacheInv
    PROVE  ModesAgree
<1>1. ASSUME NEW k \in Slots, k # 0, NEW m, NEW x, x = Mapped(m, k),
             pat_idx_to_cachemode[k] = m
      PROVE  /\ pgprot2cachemode(x.bits) = x.mode
             /\ pat[k] = m => pat[SlotOf(x.bits)] = x.mode
  <2>1. x.mode = m /\ x.bits = BitsOf(k)
    BY <1>1 DEF Mapped
  <2>2. SlotOf(x.bits) = k /\ x.bits # {}
    BY <2>1, <1>1, SlotBits
  <2> QED BY <1>1, <2>1, <2>2 DEF pgprot2cachemode
<1>2. 2 \in Slots /\ 3 \in Slots /\ 6 \in Slots
  BY DEF Slots
<1>3. CASE at \notin CachesSet /\ (ModesReset \/ ModesKnown)
  <2>1. /\ mappings \subseteq {Mapped("UC-", 2), Mapped("UC", 3)}
        /\ pat_idx_to_cachemode \in {ResetPat, PatMsrVal}
    BY <1>3 DEF ModesReset, ModesKnown
  <2>2. pat_idx_to_cachemode[2] = "UC-" /\ pat_idx_to_cachemode[3] = "UC"
    BY <2>1, PatSlots
  <2>3. pat = ResetPat => pat[2] = "UC-" /\ pat[3] = "UC"
    BY PatSlots
  <2>4. \A x \in mappings : /\ pgprot2cachemode(x.bits) = x.mode
                            /\ pat = ResetPat => pat[SlotOf(x.bits)] = x.mode
    BY <2>1, <2>2, <2>3, <1>1, <1>2
  <2> QED BY <1>3, <2>4 DEF ModesAgree
<1>4. CASE ModesProgrammed
  <2>1. /\ mappings \subseteq {Mapped("UC-", 2), Mapped("UC-", 6), Mapped("UC", 3)}
        /\ pat = PatMsrVal /\ pat_idx_to_cachemode = PatMsrVal
        /\ cachemode_to_pte = NewModes /\ ~mtrr
    BY <1>4 DEF ModesProgrammed
  <2>2. \A x \in mappings : pat[SlotOf(x.bits)] = x.mode /\ pgprot2cachemode(x.bits) = x.mode
    BY <2>1, <1>1, <1>2, PatSlots
  <2>3. ASSUME NEW m \in CacheMode PROVE pat[SlotOf(cachemode2protval(m))] = m
    <3>1. \A k \in Slots : SlotOf(BitsOf(k)) = k
      BY SlotBits
    <3>2. CASE m = "WB"
      BY <2>1, <3>2, SlotBits, PatSlots DEF cachemode2protval
    <3>3. CASE m # "WB"
      <4>1. cachemode2protval(m) = NewModes[m]
        BY <2>1, <3>3 DEF cachemode2protval
      <4>2. \E k \in {1, 3, 5, 6, 7} : NewModes[m] = BitsOf(k) /\ PatMsrVal[k] = m
        BY <3>3, PatSlots DEF NewModes, CacheMode
      <4> QED BY <2>1, <3>1, <4>1, <4>2 DEF Slots
    <3> QED BY <3>2, <3>3
  <2>4. ASSUME NEW m \in CacheMode
        PROVE  EffectiveModes(cachemode2protval(m)) = IF m = "WC" THEN {"WC"} ELSE {"UC"}
    <3>1. pat[SlotOf(cachemode2protval(m))] = m
      BY <2>3
    <3> QED BY <2>1, <3>1 DEF EffectiveModes
  <2> QED BY <2>2, <2>3, <2>4 DEF ModesAgree
<1> QED BY <1>3, <1>4 DEF CacheInv

-----------------------------------------------------------------------------
(* The theorems.                                                           *)

EarlyInv == EarlyType /\ ControlInv /\ TabInv /\ TlbInv /\ ShadowInv /\ CacheInv

\* Wherever the kernel is loaded, the boot starts in the invariant.
LEMMA StartInv ==
    ASSUME NEW m \in Machines, EarlyStart(m)
    PROVE  EarlyInv
<1> USE Constants
<1>1. /\ at = "startup" /\ img = 0 /\ load = m.load /\ tab = [t \in Tables |-> EmptyTable]
      /\ early_next = 0 /\ cr3 = FirmwareTables /\ tlb = {} /\ touching = NoPage
      /\ handler = "none" /\ area = [a \in Areas |-> [cr4 |-> {}, caps |-> {}]] /\ gs = BootArea
      /\ CacheInit(m)
  BY DEF EarlyStart
<1>2. EmptyTable = [k \in Index |-> Empty]
  BY DEF EmptyTable, Index
<1>3. EarlyType
  <2>1. tab \in [Tables -> [Index -> Entries]]
    BY <1>1, <1>2, Kinds
  <2>2. load \in 0 .. (NPTRS - 2) * NPTRS - 1
    BY <1>1, EarlyAssumption
  <2>3. gs \in Areas
    BY <1>1, EarlyAssumption DEF Areas, BootArea
  <2>4. Area(area)
    BY <1>1 DEF Area
  <2>5. at \in Places
    BY <1>1 DEF Places, NoHandler, WithIdentity
  <2> QED BY <1>1, <2>1, <2>2, <2>3, <2>4, <2>5 DEF EarlyType
<1>4. ControlInv
  BY <1>1 DEF ControlInv, NoHandler, WithIdentity, OnFirmware
<1>5. TabInv
  <2>1. tab[init_top_pgt] = EmptyTable /\ tab[level3_kernel_pgt] = EmptyTable
    BY <1>1
  <2>2. TopInv
    BY <1>1, <1>2, <2>1 DEF TopInv, OwnTop, FaultHandler
  <2>3. ImageInv
    BY <1>1 DEF ImageInv
  <2>4. IdentInv /\ DirectInv
    BY <1>1 DEF IdentInv, DirectInv, WithIdentity
  <2> QED BY <2>2, <2>3, <2>4 DEF TabInv
<1>6. TlbInv
  BY <1>1 DEF TlbInv
<1>7. ShadowInv
  <2>1. tab[level3_kernel_pgt][0] = Empty
    BY <1>1, <1>2
  <2> QED BY <1>1, <2>1 DEF ShadowInv, OwnTop, FaultHandler
<1>8. CacheInv
  <2>1. ModesReset
    BY <1>1 DEF CacheInit, ModesReset, ResetModes
  <2> QED BY <1>1, <2>1 DEF CacheInv, CachesSet
<1> QED BY <1>3, <1>4, <1>5, <1>6, <1>7, <1>8 DEF EarlyInv

\* A step that leaves this part of the state alone keeps the invariant.
LEMMA EarlyStutter ==
    ASSUME EarlyInv, UNCHANGED earlyVars
    PROVE  EarlyInv'
<1>1. /\ UNCHANGED <<at, img, load, tab, early_next, cr3, cr4, tlb, touching, handler, area, gs>>
      /\ UNCHANGED <<cachemode_to_pte, pat_idx_to_cachemode, pat, mtrr, mappings>>
  BY DEF earlyVars, fixedVars, tables, percpuVars, cacheVars
<1>2. EarlyType' /\ ControlInv' /\ ShadowInv'
  BY <1>1 DEF EarlyInv, EarlyType, ControlInv, ShadowInv
<1>3. ImageInv' /\ DirectInv' /\ TopInv'
  BY <1>1 DEF EarlyInv, TabInv, ImageInv, DirectInv, TopInv
<1>4. IdentInv'
  BY <1>1 DEF EarlyInv, TabInv, IdentInv, FirstPud, LastPud, IdentEntry
<1>5. TlbInv'
  BY <1>1, TlbShrinks DEF EarlyInv
<1>6. CacheInv'
  BY <1>1 DEF EarlyInv, CacheInv, ModesReset, ModesKnown, ModesProgrammed
<1> QED BY <1>2, <1>3, <1>4, <1>5, <1>6 DEF EarlyInv, TabInv

\* The invariant holds throughout.
THEOREM EarlyInvariant == PagingSpec => []EarlyInv
<1>1. PagingInit => EarlyInv
  <2>1. AnyMachine \in Machines
    BY EarlyAssumption DEF AnyMachine
  <2> QED BY <2>1, StartInv DEF PagingInit, EarlyInit
<1>2. EarlyInv /\ [PagingNext]_pagingVars => EarlyInv'
  <2> SUFFICES ASSUME EarlyInv, [PagingNext]_pagingVars PROVE EarlyInv'
    OBVIOUS
  <2>1. CASE EarlyNext
    BY <2>1, TypeStep, ControlStep, TabStep, TlbStep, ShadowStep, CacheStep DEF EarlyInv
  <2>2. CASE UNCHANGED earlyVars
    BY <2>2, EarlyStutter
  <2> QED BY <2>1, <2>2 DEF PagingNext, pagingVars
<1> QED BY <1>1, <1>2, PTL DEF PagingSpec

\* Every translation the processor uses while the kernel boots, cached or
\* walked, leads where its address is meant to lead at that step, and the code
\* that runs is mapped: head_64.S, __startup_64, purge_ident_mapping,
\* do_early_map and init_mem_mapping, with a TLB of any size.
THEOREM BootTranslates == PagingSpec => []EarlyTranslates
<1>1. EarlyInv => EarlyTranslates
  BY TranslatesNow DEF EarlyInv
<1> QED BY <1>1, EarlyInvariant, PTL

\* The per-CPU shadow of CR4 is CR4 from cr4_init_shadow to the end of
\* setup_per_cpu_areas, and every CPU's area is the boot CPU's.
THEOREM ShadowRight == PagingSpec => []ShadowAgrees
<1>1. EarlyInv => ShadowAgrees
  <2> SUFFICES ASSUME EarlyInv PROVE ShadowAgrees
    OBVIOUS
  <2>1. at = "done" => \A c \in 0 .. NrCpus - 1 : area[c] = area[gs]
    <3>1. 0 \in 0 .. NrCpus - 1
      BY EarlyAssumption
    <3> QED BY <3>1 DEF EarlyInv, ShadowInv
  <2> QED BY <2>1 DEF EarlyInv, ShadowInv, ShadowAgrees
<1> QED BY <1>1, EarlyInvariant, PTL

\* Whatever the firmware left in the PAT and in the MTRRs: a mapping's mode is
\* read back from its bits at every step, is its mode in the PAT when the PAT is
\* that of a reset or programmed by the kernel, and after cache_bp_init is WC or,
\* for all other modes, UC.
THEOREM ModesKept == PagingSpec => []ModesAgree
<1>1. EarlyInv => ModesAgree
  BY ModesNow DEF EarlyInv
<1> QED BY <1>1, EarlyInvariant, PTL

\* When the boot stops for want of an early page, each of them but the boot PUD
\* is the table of an entry of its own in the direct map: do_early_map never
\* loses a page, nor do the pages of the purged identity mapping.
THEOREM PagesReused == PagingSpec => []EarlyPagesReused
<1>1. EarlyInv => EarlyPagesReused
  <2> SUFFICES ASSUME EarlyInv, at = "halt" PROVE EarlyPagesReused
    BY DEF EarlyPagesReused
  <2> USE Constants
  <2>1. early_next = EARLY_FREE_PAGES /\ DirectInv /\ at \notin WithIdentity
    BY DEF EarlyInv, ControlInv, TabInv, WithIdentity
  <2> DEFINE S == {k \in DirectIndex : tab[0][k].kind = "table"}
             T == 1 .. EARLY_FREE_PAGES - 1
             f == [k \in S |-> tab[0][k].to]
  <2>2. ASSUME NEW k \in S PROVE tab[0][k].to \in T /\ tab[0][k] = TableAt(tab[0][k].to)
    <3>1. tab[0][k] # Empty
      BY <2>2, Kinds
    <3>2. PICK t \in T : tab[0][k] = TableAt(t)
      BY <3>1, <2>1, <2>2 DEF DirectInv
    <3> QED BY <3>2, Kinds
  <2>3. ASSUME NEW k \in S, NEW l \in S, tab[0][k].to = tab[0][l].to PROVE k = l
    <3>1. tab[0][k] # Empty /\ tab[0][k] = tab[0][l]
      BY <2>2, <2>3, Kinds
    <3> QED BY <3>1, <2>1, <2>3 DEF DirectInv
  <2>4. ASSUME NEW t \in T PROVE \E k \in S : tab[0][k].to = t
    <3>1. PICK k \in DirectIndex : tab[0][k] = TableAt(t)
      BY <2>1 DEF DirectInv
    <3>2. tab[0][k].kind = "table" /\ tab[0][k].to = t
      BY <3>1, Kinds
    <3> QED BY <3>2
  <2>5. f \in [S -> T] /\ \A k \in S : f[k] = tab[0][k].to
    BY <2>2
  <2>6. f \in Bijection(S, T)
    <3> HIDE DEF f, S, T
    <3>1. f \in Injection(S, T)
      BY <2>3, <2>5 DEF Injection, IsInjective
    <3>2. f \in Surjection(S, T)
      BY <2>4, <2>5 DEF Surjection
    <3> QED BY <3>1, <3>2 DEF Bijection
  <2>7. IsFiniteSet(DirectIndex) /\ Cardinality(T) = EARLY_FREE_PAGES - 1
    BY FS_Interval DEF DirectIndex
  <2>8. IsFiniteSet(S)
    BY <2>7, FS_Subset
  <2>9. Cardinality(S) = EARLY_FREE_PAGES - 1
    <3> HIDE DEF f, S, T
    <3> QED BY <2>6, <2>7, <2>8, FS_Bijection DEF ExistsBijection
  <2> QED BY <2>9 DEF EarlyPagesReused, DirectIndex
<1> QED BY <1>1, EarlyInvariant, PTL

-----------------------------------------------------------------------------
(* DirectMap: the inductive invariant.                                     *)

\* Page numbers, with the one past the last page.
PageNumbers == 0 .. MaxPages
TreeEntries == [kind : {"none", "table", "page"}, pfn : Nat]

Between == {"next", "done"}
Mapping == {"map", "overlap", "nomem", "clash"}

LayoutInv ==
    /\ regions \in Seq([base : Nat, size : Nat])
    /\ Ordered(regions)
    /\ \A j \in DOMAIN regions :
          regions[j].base + regions[j].size <= MaxPages * PAGE_SIZE

EntType ==
    /\ \A l \in Levels : ent[l] \in [0 .. MaxPages \div Span(l) -> TreeEntries]
    /\ ent = [l \in Levels |-> ent[l]]

DirectType ==
    /\ LayoutInv /\ EntType
    /\ pc \in Between \cup Mapping \cup {"phase"}
    /\ i \in 0 .. Len(regions)
    /\ phase \in 1 .. 6 /\ (pc \in Mapping => phase \in 1 .. 5)
    /\ start \in PageNumbers /\ pfn \in PageNumbers /\ limit \in PageNumbers
    /\ vaddr \in PageNumbers /\ vend \in PageNumbers
    /\ max_pfn_mapped \in PageNumbers /\ max_low_pfn_mapped \in PageNumbers

\* Two pages have the same entry of level l.
Same(l, p, q) == p \div Span(l) = q \div Span(l)
HasLeaf(p) == \E l \in 1 .. 3 : Entry(l, p).kind = "page"

\* The four levels form a tree: only PMD and PUD entries map large pages, an
\* entry is reached through tables alone, and a table is there for some page, but
\* for the one the kernel's image has brought.
TreeInv ==
    \A p \in PageNumbers : \A l \in Levels :
        /\ \/ Entry(l, p) = None
           \/ Entry(l, p) = Table /\ l # 1
           \/ Entry(l, p) = Leaf(ROUND_DOWN(p, Span(l))) /\ l # 4
        /\ \A m \in Levels : l < m /\ Entry(l, p) # None => Entry(m, p) = Table
        /\ Entry(l, p) = Table =>
              \/ l = 4 /\ p < Wrap
              \/ \E q \in PageNumbers : Same(l, p, q) /\ HasLeaf(q)

\* Exactly the pages of the regions that are done, and of the region at hand
\* those below the next one to map, are mapped, but for the lost ones.
Current == IF pc \in Mapping THEN vaddr ELSE pfn
DoneRegions == IF pc \in Between THEN 1 .. i ELSE 1 .. i - 1
InDone(p) == \E j \in DoneRegions : p \in WholePages(regions[j])
IsLost(p) == \E j \in DOMAIN regions : p \in Lost(regions[j])
ExactInv ==
    \A p \in PageNumbers :
        HasLeaf(p) <=> /\ InDone(p) \/ (pc \notin Between /\ start <= p /\ p < Current)
                       /\ ~IsLost(p)

\* What physical_mapping_init has to map is lost as a whole or not at all.
Across(p, q) == p < Wrap /\ Wrap <= q
LostInv ==
    pc \in Mapping =>
        \A p \in PageNumbers :
            vaddr <= p /\ p < vend => (IsLost(p) <=> Across(vaddr, vend))

\* Where 'pfn' can be before the mapping of each phase of a region.
AtPhase(ph, first, p, last) ==
    /\ first <= p /\ p <= last
    /\ ph = 1 => p = first
    /\ ph = 2 => /\ p % Span(2) = 0 \/ p = last
                 /\ p <= ROUND_UP(first, Span(2))
    /\ ph = 3 => /\ p % Span(3) = 0 \/ p >= ROUND_DOWN(last, Span(2))
                 /\ p <= ROUND_UP(first, Span(3))
    /\ ph = 4 => /\ p % Span(2) = 0 \/ p >= ROUND_DOWN(last, Span(2))
                 /\ p >= ROUND_DOWN(last, Span(3))
    /\ ph = 5 => p >= ROUND_DOWN(last, Span(2))
    /\ ph = 6 => p = last

\* What physical_mapping_init has to map in each phase.
InPhase(ph, first, from, to, last) ==
    /\ first <= from /\ from <= to /\ to <= last
    /\ from % Span(PageLevel(ph)) = 0 /\ to % Span(PageLevel(ph)) = 0
    /\ ph = 1 => to <= ROUND_UP(first, Span(2))
    /\ ph = 2 => to <= ROUND_UP(first, Span(3))
    /\ ph = 4 => from >= ROUND_DOWN(last, Span(3))
    /\ ph = 5 => from >= ROUND_DOWN(last, Span(2))

PhaseInv ==
    /\ pc \notin Between =>
          /\ i # 0 /\ start < limit
          /\ start = FirstPage(regions[i]) /\ limit = LimitPage(regions[i])
    /\ pc = "phase" => AtPhase(phase, start, pfn, limit)
    /\ pc \in Mapping => /\ InPhase(phase, start, vaddr, vend, limit) /\ vend = pfn
                         /\ AtPhase(phase + 1, start, pfn, limit)
    /\ pc = "done" => \A j \in i + 1 .. Len(regions) : ~HasPage(regions[j])

\* A mapped page lies in a page as large as its region allows.
LargeInv ==
    \A j \in DOMAIN regions : \A p \in PageNumbers :
        LET first == FirstPage(regions[j])
            last  == LimitPage(regions[j])
            covered(l) == /\ HasLeaf(p) /\ ROUND_UP(first, Span(l)) <= p
                          /\ p < ROUND_DOWN(last, Span(l))
        IN  /\ covered(3) => Entry(3, p).kind = "page"
            /\ covered(2) => \E l \in {2, 3} : Entry(l, p).kind = "page"

\* The limits are one past the last page of the regions that are done.
HighestInv ==
    /\ \A p \in PageNumbers : InDone(p) => p < max_pfn_mapped
    /\ max_pfn_mapped # 0 => InDone(max_pfn_mapped - 1)
    /\ \A p \in PageNumbers : InDone(p) /\ p < LowPages => p < max_low_pfn_mapped
    /\ max_low_pfn_mapped # 0 => /\ InDone(max_low_pfn_mapped - 1)
                                 /\ max_low_pfn_mapped <= LowPages

NoClash == pc # "clash"

DirectInvariant ==
    /\ DirectType /\ TreeInv /\ ExactInv /\ LostInv /\ PhaseInv /\ LargeInv
    /\ HighestInv /\ NoClash

-----------------------------------------------------------------------------
(* Rounding.                                                               *)

\* Division and remainder, once and for all.
LEMMA DivisionIs ==
    ASSUME NEW x \in Nat, NEW n \in Nat \ {0}
    PROVE  /\ x \div n \in Nat /\ x % n \in 0 .. n - 1
           /\ x = (x \div n) * n + (x % n)
OBVIOUS

\* Quotient and remainder are the only ones of their kind.
LEMMA DivisionOf ==
    ASSUME NEW q \in Nat, NEW n \in Nat \ {0}, NEW r \in 0 .. n - 1
    PROVE  (q * n + r) \div n = q /\ (q * n + r) % n = r
OBVIOUS

\* A product is as large as its factor.
LEMMA TimesMonotone ==
    ASSUME NEW a \in Nat, NEW b \in Nat, NEW n \in Nat, a <= b
    PROVE  a * n <= b * n /\ a * n \in Nat /\ b * n \in Nat
<1>1. PICK d \in Nat : b = a + d
  <2>1. b - a \in Nat /\ b = a + (b - a)
    OBVIOUS
  <2> QED BY <2>1
<1>2. b * n = a * n + d * n /\ d * n \in Nat /\ a * n \in Nat
  BY <1>1
<1> QED BY <1>2

\* Rounding down: to the last multiple that is not larger.
LEMMA DownIs ==
    ASSUME NEW x \in Nat, NEW n \in Nat \ {0}
    PROVE  /\ ROUND_DOWN(x, n) = (x \div n) * n
           /\ ROUND_DOWN(x, n) \in Nat
           /\ ROUND_DOWN(x, n) <= x /\ x < ROUND_DOWN(x, n) + n
           /\ ROUND_DOWN(x, n) % n = 0
           /\ x % n = 0 <=> ROUND_DOWN(x, n) = x
<1>1. x \div n \in Nat /\ x % n \in 0 .. n - 1 /\ x = (x \div n) * n + (x % n)
  BY DivisionIs
<1>2. (x \div n) * n \in Nat
  BY <1>1
<1>3. ((x \div n) * n + 0) % n = 0
  <2>1. 0 \in 0 .. n - 1
    OBVIOUS
  <2> QED BY <1>1, <2>1, DivisionOf
<1>4. ROUND_DOWN(x, n) = (x \div n) * n
  BY <1>1, <1>2 DEF ROUND_DOWN
<1>5. ROUND_DOWN(x, n) % n = 0
  BY <1>2, <1>3, <1>4
<1> QED BY <1>1, <1>2, <1>4, <1>5 DEF ROUND_DOWN

\* The quotients order the numbers.
LEMMA QuotientMonotone ==
    ASSUME NEW x \in Nat, NEW y \in Nat, NEW n \in Nat \ {0}, x <= y
    PROVE  x \div n <= y \div n
<1> DEFINE a == x \div n  b == y \div n
<1>1. /\ a \in Nat /\ x % n \in 0 .. n - 1 /\ x = a * n + (x % n)
      /\ b \in Nat /\ y % n \in 0 .. n - 1 /\ y = b * n + (y % n)
  BY DivisionIs
<1> HIDE DEF a, b
<1>2. ASSUME b < a PROVE FALSE
  <2>1. (b + 1) * n <= a * n /\ (b + 1) * n = b * n + n /\ b * n \in Nat /\ a * n \in Nat
    BY <1>1, <1>2, TimesMonotone
  <2> QED BY <1>1, <2>1
<1>3. a <= b
  BY <1>1, <1>2
<1> QED BY <1>3 DEF a, b

\* Multiples are a multiple apart.
LEMMA MultiplesApart ==
    ASSUME NEW x \in Nat, NEW y \in Nat, NEW n \in Nat \ {0}, x % n = 0, y % n = 0, x < y
    PROVE  x + n <= y
<1> DEFINE a == x \div n  b == y \div n
<1>1. /\ a \in Nat /\ x = a * n + (x % n)
      /\ b \in Nat /\ y = b * n + (y % n)
  BY DivisionIs
<1>2. a * n \in Nat /\ b * n \in Nat
  BY <1>1
<1>3. x = a * n /\ y = b * n
  BY <1>1, <1>2
<1> HIDE DEF a, b
<1>4. ASSUME b <= a PROVE FALSE
  BY <1>1, <1>3, <1>4, TimesMonotone
<1>5. (a + 1) * n <= b * n /\ (a + 1) * n = a * n + n
  BY <1>1, <1>4, TimesMonotone
<1> QED BY <1>2, <1>3, <1>5

\* Rounding down keeps what is a multiple already and not larger.
LEMMA DownLargest ==
    ASSUME NEW x \in Nat, NEW y \in Nat, NEW n \in Nat \ {0}, y % n = 0, y <= x
    PROVE  y <= ROUND_DOWN(x, n)
<1>1. /\ ROUND_DOWN(x, n) \in Nat /\ x < ROUND_DOWN(x, n) + n /\ ROUND_DOWN(x, n) % n = 0
  BY DownIs
<1>2. ROUND_DOWN(x, n) < y => ROUND_DOWN(x, n) + n <= y
  BY <1>1, MultiplesApart
<1> QED BY <1>1, <1>2

\* Rounding up: to the first multiple that is not smaller.
LEMMA UpIs ==
    ASSUME NEW x \in Nat, NEW n \in Nat \ {0}
    PROVE  /\ ROUND_UP(x, n) \in Nat /\ ROUND_UP(x, n) % n = 0
           /\ x <= ROUND_UP(x, n)
           /\ x % n = 0 => ROUND_UP(x, n) = x
           /\ \A y \in Nat : y % n = 0 /\ x <= y => ROUND_UP(x, n) <= y
<1> DEFINE u == ROUND_UP(x, n)
<1>1. x + n - 1 \in Nat
  OBVIOUS
<1>2. /\ u \in Nat /\ u <= x + n - 1 /\ x + n - 1 < u + n /\ u % n = 0
  BY <1>1, DownIs DEF ROUND_UP
<1>3. ASSUME NEW y \in Nat, y % n = 0, x <= y PROVE u <= y
  <2>1. y < u => y + n <= u
    BY <1>2, <1>3, MultiplesApart
  <2> QED BY <1>2, <1>3, <2>1
<1> QED BY <1>2, <1>3

\* Two numbers have one quotient if they are rounded down to one number.
LEMMA SameQuotient ==
    ASSUME NEW x \in Nat, NEW y \in Nat, NEW n \in Nat \ {0}
    PROVE  x \div n = y \div n <=> ROUND_DOWN(x, n) = ROUND_DOWN(y, n)
<1> DEFINE a == x \div n  b == y \div n
<1>1. a \in Nat /\ b \in Nat
  BY DivisionIs
<1>2. ROUND_DOWN(x, n) = a * n /\ ROUND_DOWN(y, n) = b * n
  BY DownIs
<1>3. (a * n + 0) \div n = a /\ (b * n + 0) \div n = b
  BY <1>1, DivisionOf
<1>4. a * n \in Nat /\ b * n \in Nat
  BY <1>1
<1>5. a * n = b * n => a = b
  BY <1>3, <1>4
<1> QED BY <1>2, <1>5

\* Products, put in another order.
LEMMA Regrouped ==
    \A u, v, w \in Nat : u * (v * w) = (u * w) * v /\ u * w \in Nat
OBVIOUS

\* Dividing twice is dividing by the product.
LEMMA QuotientTwice ==
    ASSUME NEW x \in Nat, NEW n \in Nat \ {0}, NEW k \in Nat \ {0}
    PROVE  n * k \in Nat \ {0} /\ x \div (n * k) = (x \div n) \div k
<1> DEFINE a == x \div n  r == x % n  b == a \div k  s == a % k
<1>1. /\ a \in Nat /\ r \in 0 .. n - 1 /\ x = a * n + r
  BY DivisionIs
<1>2. /\ b \in Nat /\ s \in 0 .. k - 1 /\ a = b * k + s
  BY <1>1, DivisionIs
<1> HIDE DEF a, r, b, s
<1>3. n * k \in Nat \ {0}
  OBVIOUS
<1>4. s * n <= (k - 1) * n /\ s * n \in Nat /\ (k - 1) * n = n * k - n
  BY <1>2, TimesMonotone
<1>5. s * n + r \in 0 .. n * k - 1
  BY <1>1, <1>3, <1>4
<1>6. a * n = b * (n * k) + s * n
  BY <1>2
<1>7. b * (n * k) \in Nat
  BY <1>2
<1>8. x = b * (n * k) + (s * n + r)
  <2> DEFINE u == a * n  v == b * (n * k)  w == s * n
  <2>1. u \in Nat /\ v \in Nat /\ w \in Nat /\ r \in Nat /\ u = v + w /\ x = u + r
    BY <1>1, <1>4, <1>6, <1>7
  <2> HIDE DEF u, v, w
  <2>2. x = v + (w + r)
    BY <2>1
  <2> QED BY <2>2 DEF v, w
<1>9. (b * (n * k) + (s * n + r)) \div (n * k) = b
  BY <1>2, <1>3, <1>5, DivisionOf
<1> QED BY <1>3, <1>8, <1>9 DEF a, b

\* A multiple of the product is a multiple of the factor.
LEMMA MultipleOfFactor ==
    ASSUME NEW x \in Nat, NEW n \in Nat \ {0}, NEW k \in Nat \ {0}, x % (n * k) = 0
    PROVE  x % n = 0
<1> DEFINE q == x \div (n * k)
<1>1. n * k \in Nat \ {0}
  OBVIOUS
<1>2. q \in Nat /\ x = q * (n * k) + (x % (n * k))
  BY <1>1, DivisionIs
<1> DEFINE t == q * k
<1>3. q * (n * k) = t * n /\ t \in Nat
  BY <1>2, Regrouped
<1>4. x = q * (n * k)
  <2>1. q * (n * k) \in Nat
    BY <1>1, <1>2
  <2> QED BY <1>2, <2>1
<1> HIDE DEF q, t
<1>5. x = t * n + 0
  BY <1>3, <1>4
<1>6. (t * n + 0) % n = 0
  <2>1. 0 \in 0 .. n - 1
    OBVIOUS
  <2>2. t \in Nat
    BY <1>3
  <2> QED BY <2>1, <2>2, DivisionOf
<1> QED BY <1>5, <1>6

\* The pages below an entry of a level are PTRS times those of the level below.
LEMMA SpanIs ==
    /\ Span(1) = 1
    /\ \A l \in Levels : Span(l) \in Nat \ {0}
    /\ Span(2) = Span(1) * PTRS /\ Span(3) = Span(2) * PTRS /\ Span(4) = Span(3) * PTRS
<1>1. Span(1) = 1 /\ Span(2) = PTRS /\ Span(3) = PTRS * PTRS /\ Span(4) = PTRS * PTRS * PTRS
  BY DEF Span
<1>2. PTRS \in Nat \ {0}
  BY DirectMapAssumption
<1>3. PTRS * PTRS \in Nat \ {0} /\ PTRS * PTRS * PTRS \in Nat \ {0}
  BY <1>2
<1> QED BY <1>1, <1>2, <1>3 DEF Levels

\* Two pages with the same entry of a level have the same entries above it.
LEMMA SameAbove ==
    ASSUME NEW p \in Nat, NEW q \in Nat, NEW l \in Levels, NEW m \in Levels, l <= m,
           Same(l, p, q)
    PROVE  Same(m, p, q)
<1>1. PTRS \in Nat \ {0}
  BY DirectMapAssumption
<1>2. Span(1) \in Nat \ {0} /\ Span(2) \in Nat \ {0} /\ Span(3) \in Nat \ {0}
  BY SpanIs DEF Levels
<1>a. \A x \in Nat : x \div Span(2) = (x \div Span(1)) \div PTRS
  BY <1>1, <1>2, SpanIs, QuotientTwice
<1>b. \A x \in Nat : x \div Span(3) = (x \div Span(2)) \div PTRS
  BY <1>1, <1>2, SpanIs, QuotientTwice
<1>c. \A x \in Nat : x \div Span(4) = (x \div Span(3)) \div PTRS
  BY <1>1, <1>2, SpanIs, QuotientTwice
<1>3. Same(1, p, q) => Same(2, p, q)
  BY <1>a, Zenon DEF Same
<1>4. Same(2, p, q) => Same(3, p, q)
  BY <1>b, Zenon DEF Same
<1>5. Same(3, p, q) => Same(4, p, q)
  BY <1>c, Zenon DEF Same
<1>6. /\ l = 1 \/ l = 2 \/ l = 3 \/ l = 4
      /\ m = 1 \/ m = 2 \/ m = 3 \/ m = 4
  BY DEF Levels
<1> QED BY <1>3, <1>4, <1>5, <1>6

\* A page that starts a block of a level starts one of every level below it.
LEMMA AlignedBelow ==
    ASSUME NEW x \in Nat
    PROVE  /\ x % Span(1) = 0
           /\ x % Span(3) = 0 => x % Span(2) = 0
<1>1. PTRS \in Nat \ {0} /\ Span(2) \in Nat \ {0}
  BY DirectMapAssumption, SpanIs DEF Levels
<1>2. x % 1 = 0
  OBVIOUS
<1> QED BY <1>1, <1>2, SpanIs, MultipleOfFactor

-----------------------------------------------------------------------------
(* The pages of a region.                                                  *)

\* How many blocks of n fit below a number, and how many reach it.
LEMMA BlocksBelow ==
    ASSUME NEW x \in Nat, NEW p \in Nat, NEW n \in Nat \ {0}
    PROVE  /\ p * n \in Nat
           /\ p <= x \div n <=> p * n <= x
           /\ (x + n - 1) \div n <= p <=> x <= p * n
<1>1. ASSUME NEW y \in Nat, NEW q \in Nat PROVE q <= y \div n <=> q * n <= y
  <2> DEFINE a == y \div n  u == a * n  v == q * n
  <2>1. a \in Nat /\ y % n \in 0 .. n - 1 /\ y = u + (y % n)
    BY DivisionIs
  <2>2. u \in Nat /\ v \in Nat /\ (a + 1) * n = u + n
    BY <2>1
  <2>3. q <= a => v <= u
    BY <2>1, TimesMonotone
  <2>4. a + 1 <= q => u + n <= v
    BY <2>1, <2>2, TimesMonotone
  <2> HIDE DEF a, u, v
  <2>5. q <= a <=> v <= y
    BY <2>1, <2>2, <2>3, <2>4
  <2> QED BY <2>5 DEF a, v
<1>2. p * n \in Nat /\ (p + 1) * n = p * n + n
  OBVIOUS
<1>3. x + n - 1 \in Nat /\ (x + n - 1) \div n \in Nat
  BY DivisionIs
<1>4. p + 1 <= (x + n - 1) \div n <=> (p + 1) * n <= x + n - 1
  BY <1>1, <1>3
<1>5. (x + n - 1) \div n <= p <=> x <= p * n
  BY <1>2, <1>3, <1>4
<1> QED BY <1>1, <1>2, <1>5

Region == [base : Nat, size : Nat]

\* The pages next_mem_pfn_range counts to a region are those all of whose bytes
\* are the region's.
LEMMA PagesAre ==
    ASSUME NEW r \in Region
    PROVE  /\ FirstPage(r) \in Nat /\ LimitPage(r) \in Nat
           /\ \A p \in Nat : Inside(p) \subseteq BytesOf(r) <=> p \in WholePages(r)
<1>1. r.base \in Nat /\ r.size \in Nat /\ PAGE_SIZE \in Nat \ {0}
  BY DirectMapAssumption DEF Region
<1>2. FirstPage(r) \in Nat /\ LimitPage(r) \in Nat
  <2>1. r.base + PAGE_SIZE - 1 \in Nat /\ r.base + r.size \in Nat
    BY <1>1
  <2> QED BY <1>1, <2>1, DivisionIs DEF FirstPage, LimitPage
<1>3. ASSUME NEW p \in Nat
      PROVE  Inside(p) \subseteq BytesOf(r) <=> p \in WholePages(r)
  <2> DEFINE u == p * PAGE_SIZE  v == (p + 1) * PAGE_SIZE
  <2>1. u \in Nat /\ v = u + PAGE_SIZE
    BY <1>1
  <2>2. FirstPage(r) <= p <=> r.base <= u
    BY <1>1, BlocksBelow DEF FirstPage
  <2>3. p + 1 <= LimitPage(r) <=> v <= r.base + r.size
    <3>1. r.base + r.size \in Nat /\ p + 1 \in Nat
      BY <1>1
    <3>2. p + 1 <= (r.base + r.size) \div PAGE_SIZE <=> v <= r.base + r.size
      BY <1>1, <3>1, BlocksBelow
    <3> QED BY <3>2 DEF LimitPage
  <2>4. Inside(p) = u .. v - 1 /\ BytesOf(r) = r.base .. r.base + r.size - 1
    BY DEF Inside, BytesOf
  <2> HIDE DEF u, v
  <2>5. u \in u .. v - 1 /\ v - 1 \in u .. v - 1
    BY <1>1, <2>1
  <2>6. u .. v - 1 \subseteq r.base .. r.base + r.size - 1 <=>
           r.base <= u /\ v <= r.base + r.size
    BY <1>1, <2>1, <2>5
  <2>7. p \in WholePages(r) <=> FirstPage(r) <= p /\ p + 1 <= LimitPage(r)
    BY <1>2 DEF WholePages
  <2> QED BY <2>2, <2>3, <2>4, <2>6, <2>7
<1> QED BY <1>2, <1>3

\* The regions' pages are in order, and all of them below MaxPages.
LEMMA PagesInOrder ==
    ASSUME LayoutInv, NEW j \in DOMAIN regions
    PROVE  /\ regions[j] \in Region
           /\ FirstPage(regions[j]) \in Nat /\ LimitPage(regions[j]) \in PageNumbers
           /\ \A k \in DOMAIN regions : j < k => LimitPage(regions[j]) <= FirstPage(regions[k])
<1>1. /\ \A k \in DOMAIN regions : regions[k] \in Region
      /\ PAGE_SIZE \in Nat \ {0} /\ MaxPages \in Nat
  <2>1. regions \in Seq(Region)
    BY DEF LayoutInv, Region
  <2>2. PAGE_SIZE \in Nat \ {0} /\ MaxPages \in Nat
    BY DirectMapAssumption
  <2> QED BY <2>1, <2>2
<1>2. \A k \in DOMAIN regions : regions[k].base \in Nat /\ regions[k].size \in Nat
  BY <1>1 DEF Region
<1> DEFINE last == LimitPage(regions[j])
<1>3. last \in Nat /\ FirstPage(regions[j]) \in Nat
  BY <1>1, PagesAre
<1>4. last * PAGE_SIZE <= regions[j].base + regions[j].size /\ last * PAGE_SIZE \in Nat
  BY <1>1, <1>2, <1>3, BlocksBelow DEF LimitPage
<1>5. ASSUME NEW q \in Nat, regions[j].base + regions[j].size <= q * PAGE_SIZE
      PROVE  last <= q
  <2> DEFINE u == last * PAGE_SIZE  v == q * PAGE_SIZE
  <2>1. u \in Nat /\ v \in Nat /\ (q + 1) * PAGE_SIZE = v + PAGE_SIZE
    BY <1>1, <1>3
  <2>2. q + 1 <= last => v + PAGE_SIZE <= u
    BY <1>1, <1>3, <2>1, TimesMonotone
  <2>3. u <= v
    BY <1>2, <1>4, <1>5, <2>1
  <2> HIDE DEF u, v
  <2> QED BY <1>1, <1>3, <2>1, <2>2, <2>3
<1>6. last <= MaxPages
  BY <1>1, <1>5 DEF LayoutInv
<1>7. ASSUME NEW k \in DOMAIN regions, j < k PROVE last <= FirstPage(regions[k])
  <2>1. FirstPage(regions[k]) \in Nat
    BY <1>1, PagesAre
  <2>2. regions[k].base <= FirstPage(regions[k]) * PAGE_SIZE /\ FirstPage(regions[k]) * PAGE_SIZE \in Nat
    <3> DEFINE b == regions[k].base  f == FirstPage(regions[k])
    <3>1. b \in Nat /\ f \in Nat /\ f = (b + PAGE_SIZE - 1) \div PAGE_SIZE
      BY <1>2, <2>1 DEF FirstPage
    <3> HIDE DEF b, f
    <3>2. f <= f => b <= f * PAGE_SIZE /\ f * PAGE_SIZE \in Nat
      BY <1>1, <3>1, BlocksBelow
    <3>3. b <= f * PAGE_SIZE /\ f * PAGE_SIZE \in Nat
      BY <3>1, <3>2
    <3> QED BY <3>3 DEF b, f
  <2>3. regions[j].base + regions[j].size <= regions[k].base
    BY <1>7 DEF LayoutInv, Ordered
  <2>4. regions[j].base + regions[j].size <= FirstPage(regions[k]) * PAGE_SIZE
    BY <1>2, <2>2, <2>3
  <2> QED BY <1>5, <2>1, <2>4
<1> QED BY <1>1, <1>3, <1>6, <1>7 DEF PageNumbers

\* Rounding to the two larger sizes of page.
LEMMA Roundings ==
    \A x \in Nat :
        /\ \A l \in {2, 3} :
              /\ ROUND_UP(x, Span(l)) \in Nat /\ ROUND_UP(x, Span(l)) % Span(l) = 0
              /\ x <= ROUND_UP(x, Span(l))
              /\ x % Span(l) = 0 => ROUND_UP(x, Span(l)) = x
              /\ \A y \in Nat : y % Span(l) = 0 /\ x <= y => ROUND_UP(x, Span(l)) <= y
              /\ ROUND_DOWN(x, Span(l)) \in Nat /\ ROUND_DOWN(x, Span(l)) % Span(l) = 0
              /\ ROUND_DOWN(x, Span(l)) <= x
              /\ \A y \in Nat : y % Span(l) = 0 /\ y <= x => y <= ROUND_DOWN(x, Span(l))
        /\ x % Span(1) = 0 /\ (x % Span(3) = 0 => x % Span(2) = 0)
<1> TAKE x \in Nat
<1>1. ASSUME NEW l \in {2, 3} PROVE Span(l) \in Nat \ {0}
  BY SpanIs DEF Levels
<1>2. ASSUME NEW l \in {2, 3}
      PROVE /\ ROUND_UP(x, Span(l)) \in Nat /\ ROUND_UP(x, Span(l)) % Span(l) = 0
            /\ x <= ROUND_UP(x, Span(l))
            /\ x % Span(l) = 0 => ROUND_UP(x, Span(l)) = x
            /\ \A y \in Nat : y % Span(l) = 0 /\ x <= y => ROUND_UP(x, Span(l)) <= y
  BY <1>1, UpIs
<1>3. ASSUME NEW l \in {2, 3}
      PROVE /\ ROUND_DOWN(x, Span(l)) \in Nat /\ ROUND_DOWN(x, Span(l)) % Span(l) = 0
            /\ ROUND_DOWN(x, Span(l)) <= x
            /\ \A y \in Nat : y % Span(l) = 0 /\ y <= x => y <= ROUND_DOWN(x, Span(l))
  BY <1>1, DownIs, DownLargest
<1> QED BY <1>2, <1>3, AlignedBelow

-----------------------------------------------------------------------------
(* What the wrap of __va loses.                                            *)

\* The first page past the wrap starts a block of every size.
LEMMA WrapIs == Wrap \in Nat /\ Wrap % Span(2) = 0 /\ Wrap % Span(3) = 0
<1>a. PTRS \in Nat \ {0} /\ Span(3) \in Nat \ {0} /\ Wrap = Span(3) * PTRS
  BY DirectMapAssumption, SpanIs DEF Levels, Wrap
<1> DEFINE n == Span(3)
<1> HIDE DEF n
<1>b. PTRS \in Nat \ {0} /\ n \in Nat \ {0} /\ Wrap = n * PTRS
  BY <1>a DEF n
<1>c. n * PTRS = PTRS * n + 0
  BY <1>b
<1>1. PTRS \in Nat \ {0} /\ Span(3) \in Nat \ {0} /\ Wrap = PTRS * Span(3) + 0
  BY <1>b, <1>c DEF n
<1>2. (PTRS * Span(3) + 0) % Span(3) = 0
  <2>1. 0 \in 0 .. Span(3) - 1
    BY <1>1
  <2> QED BY <1>1, <2>1, DivisionOf
<1>3. Wrap \in Nat
  BY <1>1
<1> QED BY <1>1, <1>2, <1>3, AlignedBelow

\* One address is below another, for pages that are in order.
LEMMA BelowIs ==
    ASSUME NEW p \in Nat, NEW q \in Nat, p <= q
    PROVE  Below(p, q) <=> p < q /\ ~Across(p, q)
BY WrapIs DEF Below, Across

\* The lost pages of a region, spelled out.
LEMMA LostIs ==
    ASSUME NEW r \in Region
    PROVE  /\ LimitPage(r) < Wrap \/ Wrap <= FirstPage(r) => Lost(r) = {}
           /\ FirstPage(r) < Wrap /\ Wrap <= LimitPage(r) =>
                 /\ Wrap <= ROUND_UP(FirstPage(r), Span(2)) =>
                       Lost(r) = FirstPage(r) .. Wrap - 1
                 /\ ROUND_UP(FirstPage(r), Span(2)) < Wrap /\ Wrap <= ROUND_UP(FirstPage(r), Span(3)) =>
                       Lost(r) = ROUND_UP(FirstPage(r), Span(2)) .. Wrap - 1
                 /\ ROUND_UP(FirstPage(r), Span(3)) < Wrap =>
                       Lost(r) = ROUND_UP(FirstPage(r), Span(3)) .. ROUND_DOWN(LimitPage(r), Span(3)) - 1
<1> DEFINE f == FirstPage(r)  g == LimitPage(r)  d3 == ROUND_DOWN(g, Span(3))
           up(l) == ROUND_UP(f, Span(l))
           reach == {l \in 1 .. 3 : up(l) < Wrap}
           top == CHOOSE m \in reach : \A n \in reach : n <= m
<1>1. f \in Nat /\ g \in Nat /\ Wrap \in Nat
  BY PagesAre, WrapIs
<1>2. up(1) = f
  <2>1. Span(1) = 1 /\ f % 1 = 0
    BY <1>1, SpanIs
  <2> QED BY <1>1, <2>1 DEF ROUND_UP, ROUND_DOWN
<1>3. up(2) \in Nat /\ up(3) \in Nat /\ f <= up(2) /\ up(2) <= up(3)
  <2>1. up(3) % Span(2) = 0 /\ f <= up(3) /\ up(2) \in Nat /\ up(3) \in Nat /\ f <= up(2)
    BY <1>1, Roundings
  <2> QED BY <1>1, <2>1, Roundings
<1>4. Lost(r) = IF g < Wrap \/ reach = {} THEN {}
                ELSE up(top) .. (IF top = 3 THEN d3 ELSE Wrap) - 1
  BY DEF Lost
<1> HIDE DEF f, g, d3, up
<1>5. \A l \in 1 .. 3 : l = 1 \/ l = 2 \/ l = 3
  OBVIOUS
<1>6. Wrap <= f => reach = {}
  BY <1>1, <1>2, <1>3, <1>5
<1>7. ASSUME f < Wrap, Wrap <= up(2) PROVE top = 1 /\ reach # {}
  <2>1. reach = {1}
    BY <1>1, <1>2, <1>3, <1>7
  <2> HIDE DEF reach
  <2> QED BY <2>1
<1>8. ASSUME up(2) < Wrap, Wrap <= up(3) PROVE top = 2 /\ reach # {}
  <2>1. reach = {1, 2}
    BY <1>1, <1>2, <1>3, <1>8
  <2> HIDE DEF reach
  <2>2. 2 \in reach /\ \A n \in reach : n <= 2
    BY <2>1
  <2>3. \A m \in reach : (\A n \in reach : n <= m) => m = 2
    BY <2>1, <2>2
  <2> QED BY <2>2, <2>3
<1>9. ASSUME up(3) < Wrap PROVE top = 3 /\ reach # {}
  <2>1. reach = {1, 2, 3}
    BY <1>1, <1>2, <1>3, <1>9
  <2> HIDE DEF reach
  <2>2. 3 \in reach /\ \A n \in reach : n <= 3
    BY <2>1
  <2>3. \A m \in reach : (\A n \in reach : n <= m) => m = 3
    BY <2>1, <2>2
  <2> QED BY <2>2, <2>3
<1> HIDE DEF top, reach
<1>10. /\ g < Wrap \/ Wrap <= f => Lost(r) = {}
       /\ f < Wrap /\ Wrap <= g =>
             /\ Wrap <= up(2) => Lost(r) = f .. Wrap - 1
             /\ up(2) < Wrap /\ Wrap <= up(3) => Lost(r) = up(2) .. Wrap - 1
             /\ up(3) < Wrap => Lost(r) = up(3) .. d3 - 1
  <2>1. ~(g < Wrap) <=> Wrap <= g
    BY <1>1
  <2> QED BY <1>2, <1>4, <1>6, <1>7, <1>8, <1>9, <2>1
<1> QED BY <1>10 DEF f, g, d3, up

\* A region that reaches the wrap has a place there for every size of page.
LEMMA AtWrap ==
    ASSUME NEW f \in Nat, NEW g \in Nat, f < Wrap, Wrap <= g
    PROVE  /\ f <= ROUND_UP(f, Span(2)) /\ ROUND_UP(f, Span(2)) <= ROUND_UP(f, Span(3))
           /\ ROUND_UP(f, Span(3)) <= Wrap /\ Wrap <= ROUND_DOWN(g, Span(3))
           /\ ROUND_DOWN(g, Span(3)) <= ROUND_DOWN(g, Span(2)) /\ ROUND_DOWN(g, Span(2)) <= g
           /\ ROUND_UP(f, Span(2)) \in Nat /\ ROUND_UP(f, Span(3)) \in Nat
           /\ ROUND_DOWN(g, Span(2)) \in Nat /\ ROUND_DOWN(g, Span(3)) \in Nat
<1> DEFINE u2 == ROUND_UP(f, Span(2))  u3 == ROUND_UP(f, Span(3))
           d2 == ROUND_DOWN(g, Span(2))  d3 == ROUND_DOWN(g, Span(3))
<1>1. Wrap \in Nat /\ Wrap % Span(3) = 0 /\ f <= Wrap
  BY WrapIs
<1>2. /\ u2 \in Nat /\ u3 \in Nat /\ d2 \in Nat /\ d3 \in Nat /\ f <= u2 /\ f <= u3
      /\ d2 <= g /\ d3 <= g /\ u3 % Span(3) = 0 /\ d3 % Span(3) = 0
  BY Roundings
<1>3. u3 % Span(2) = 0 /\ d3 % Span(2) = 0
  BY <1>2, Roundings
<1>4. \A y \in Nat : /\ y % Span(2) = 0 /\ f <= y => u2 <= y
                     /\ y % Span(3) = 0 /\ f <= y => u3 <= y
                     /\ y % Span(2) = 0 /\ y <= g => y <= d2
                     /\ y % Span(3) = 0 /\ y <= g => y <= d3
  BY Roundings
<1> HIDE DEF u2, u3, d2, d3
<1>5. u2 <= u3 /\ u3 <= Wrap /\ Wrap <= d3 /\ d3 <= d2
  BY <1>1, <1>2, <1>3, <1>4
<1> QED BY <1>2, <1>5 DEF u2, u3, d2, d3

\* A region loses pages of its own only.
LEMMA LostInside ==
    ASSUME NEW r \in Region
    PROVE  Lost(r) \subseteq WholePages(r)
<1> DEFINE f == FirstPage(r)  g == LimitPage(r)
<1>1. f \in Nat /\ g \in Nat /\ Wrap \in Nat
  BY PagesAre, WrapIs
<1>2. CASE ~(f < Wrap /\ Wrap <= g)
  <2>1. g < Wrap \/ Wrap <= f
    BY <1>1, <1>2
  <2> QED BY <2>1, LostIs
<1>3. CASE f < Wrap /\ Wrap <= g
  <2> DEFINE u2 == ROUND_UP(f, Span(2))  u3 == ROUND_UP(f, Span(3))  d3 == ROUND_DOWN(g, Span(3))
  <2>1. /\ f <= u2 /\ u2 <= u3 /\ u3 <= Wrap /\ Wrap <= d3 /\ d3 <= g
        /\ u2 \in Nat /\ u3 \in Nat /\ d3 \in Nat
    BY <1>1, <1>3, AtWrap
  <2>2. /\ Wrap <= u2 => Lost(r) = f .. Wrap - 1
        /\ u2 < Wrap /\ Wrap <= u3 => Lost(r) = u2 .. Wrap - 1
        /\ u3 < Wrap => Lost(r) = u3 .. d3 - 1
    BY <1>3, LostIs
  <2>3. WholePages(r) = f .. g - 1
    BY DEF WholePages
  <2> HIDE DEF f, g, u2, u3, d3
  <2> QED BY <1>1, <1>3, <2>1, <2>2, <2>3
<1> QED BY <1>2, <1>3

\* A page of a region is lost with that region or not at all.
LEMMA LostOwn ==
    ASSUME LayoutInv, NEW j \in DOMAIN regions, NEW p \in WholePages(regions[j])
    PROVE  IsLost(p) <=> p \in Lost(regions[j])
<1>1. SUFFICES ASSUME NEW k \in DOMAIN regions, p \in Lost(regions[k]), k # j PROVE FALSE
  BY DEF IsLost
<1>2. p \in WholePages(regions[k])
  BY <1>1, LostInside, PagesInOrder
<1>3. j \in Nat /\ k \in Nat
  BY <1>1 DEF LayoutInv
<1>4. \A m, n \in DOMAIN regions :
         /\ FirstPage(regions[m]) \in Nat /\ LimitPage(regions[m]) \in Nat
         /\ m < n => LimitPage(regions[m]) <= FirstPage(regions[n])
  BY PagesInOrder, DirectMapAssumption DEF PageNumbers
<1> DEFINE f(m) == FirstPage(regions[m])  g(m) == LimitPage(regions[m])
<1>5. /\ f(j) \in Nat /\ g(j) \in Nat /\ f(k) \in Nat /\ g(k) \in Nat
      /\ j < k => g(j) <= f(k)
      /\ k < j => g(k) <= f(j)
  BY <1>1, <1>4
<1>6. p \in f(j) .. g(j) - 1 /\ p \in f(k) .. g(k) - 1
  BY <1>2 DEF WholePages
<1> HIDE DEF f, g
<1> QED BY <1>1, <1>3, <1>5, <1>6

-----------------------------------------------------------------------------
(* The tree.                                                               *)

\* Every page has an entry at every level.
LEMMA EntryIs ==
    ASSUME DirectType, NEW p \in PageNumbers, NEW l \in Levels
    PROVE  /\ p \in Nat /\ p \div Span(l) \in 0 .. MaxPages \div Span(l)
           /\ Entry(l, p) \in TreeEntries
<1>1. p \in Nat /\ MaxPages \in Nat /\ p <= MaxPages /\ Span(l) \in Nat \ {0}
  BY DirectMapAssumption, SpanIs DEF PageNumbers
<1>2. p \div Span(l) \in Nat /\ MaxPages \div Span(l) \in Nat /\ p \div Span(l) <= MaxPages \div Span(l)
  BY <1>1, DivisionIs, QuotientMonotone
<1>3. p \div Span(l) \in 0 .. MaxPages \div Span(l)
  BY <1>2
<1>4. ent[l] \in [0 .. MaxPages \div Span(l) -> TreeEntries]
  BY DEF DirectType, EntType
<1> QED BY <1>1, <1>3, <1>4 DEF Entry

\* The page walk finds the page itself, or nothing.
LEMMA TranslateIs ==
    ASSUME DirectType, TreeInv, NEW p \in PageNumbers
    PROVE  Translate(p) = IF HasLeaf(p) THEN {p} ELSE {}
<1> DEFINE At(k) == /\ Entry(k, p).kind # "table"
                    /\ \A m \in k + 1 .. 4 : Entry(m, p).kind = "table"
           l == CHOOSE k \in Levels : At(k)
<1>1. /\ None.kind = "none" /\ Table.kind = "table"
      /\ \A q : Leaf(q).kind = "page" /\ Leaf(q).pfn = q
  BY DEF None, Table, Leaf
<1>2. \A k \in Levels : \/ Entry(k, p) = None
                        \/ Entry(k, p) = Table /\ k # 1
                        \/ Entry(k, p) = Leaf(ROUND_DOWN(p, Span(k))) /\ k # 4
  BY DEF TreeInv
<1>3. \A k, m \in Levels : k < m /\ Entry(k, p) # None => Entry(m, p) = Table
  BY DEF TreeInv
<1>4. Levels = {1, 2, 3, 4}
  BY DEF Levels
<1>5. \E k \in Levels : At(k)
  <2>1. Entry(4, p).kind # "table" => At(4)
    BY <1>4
  <2>2. Entry(4, p).kind = "table" /\ Entry(3, p).kind # "table" => At(3)
    BY <1>4
  <2>3. Entry(4, p).kind = "table" /\ Entry(3, p).kind = "table" /\ Entry(2, p).kind # "table" => At(2)
    BY <1>4
  <2>4. /\ Entry(4, p).kind = "table" /\ Entry(3, p).kind = "table" /\ Entry(2, p).kind = "table"
        /\ Entry(1, p).kind # "table"
        => At(1)
    BY <1>4
  <2>5. Entry(1, p).kind # "table"
    BY <1>1, <1>2, <1>4
  <2> QED BY <1>4, <2>1, <2>2, <2>3, <2>4, <2>5
<1>6. l \in Levels /\ At(l)
  BY <1>5
<1>7. Translate(p) = IF Entry(l, p) = None THEN {} ELSE {Entry(l, p).pfn + (p % Span(l))}
  BY DEF Translate
<1> HIDE DEF l
<1>8. CASE Entry(l, p) = None
  <2>1. ASSUME NEW k \in 1 .. 3, Entry(k, p).kind = "page" PROVE FALSE
    <3>1. k \in Levels /\ Entry(k, p) # None /\ k # l
      BY <1>1, <1>4, <1>8, <2>1
    <3>2. k < l => Entry(l, p) = Table
      BY <1>3, <1>6, <3>1
    <3>3. l < k => Entry(k, p).kind = "table"
      BY <1>4, <1>6, <3>1
    <3> QED BY <1>1, <1>4, <1>6, <1>8, <2>1, <3>1, <3>2, <3>3
  <2> QED BY <1>7, <1>8, <2>1 DEF HasLeaf
<1>9. CASE Entry(l, p) # None
  <2>1. Entry(l, p) = Leaf(ROUND_DOWN(p, Span(l))) /\ l # 4
    BY <1>1, <1>2, <1>6, <1>9
  <2>2. Entry(l, p).kind = "page" /\ Entry(l, p).pfn = ROUND_DOWN(p, Span(l))
    BY <1>1, <2>1
  <2>3. p \in Nat /\ Span(l) \in Nat \ {0}
    BY <1>6, EntryIs, SpanIs
  <2>4. p % Span(l) \in Nat
    BY <2>3, DivisionIs
  <2>5. Entry(l, p).pfn + (p % Span(l)) = p
    BY <2>2, <2>3, <2>4 DEF ROUND_DOWN
  <2>6. HasLeaf(p)
    BY <1>4, <1>6, <2>1, <2>2 DEF HasLeaf
  <2> QED BY <1>7, <1>9, <2>5, <2>6
<1> QED BY <1>8, <1>9

-----------------------------------------------------------------------------
(* What the invariant says of the run's properties.                        *)

LEMMA PropertiesHold ==
    ASSUME DirectInvariant
    PROVE  OnlyMemory /\ AllMapped /\ LargestPages
<1> USE DEF DirectInvariant
<1>1. /\ Pages \subseteq PageNumbers /\ PageNumbers \subseteq Nat
      /\ \A q \in PageNumbers : q # 0 => q - 1 \in Pages
      /\ MaxPages \in Nat /\ LowPages \in Nat
  BY DirectMapAssumption DEF Pages, PageNumbers
<1>2. \A p \in PageNumbers : Translate(p) = IF HasLeaf(p) THEN {p} ELSE {}
  BY TranslateIs
<1>3. \A p \in PageNumbers : /\ Translate(p) \subseteq {p}
                             /\ Translate(p) # {} <=> HasLeaf(p)
  BY <1>2
<1>4. \A j \in DOMAIN regions :
         /\ regions[j] \in Region /\ FirstPage(regions[j]) \in Nat
         /\ LimitPage(regions[j]) \in PageNumbers
         /\ \A p \in PageNumbers :
               Inside(p) \subseteq BytesOf(regions[j]) <=> p \in WholePages(regions[j])
  BY <1>1, PagesInOrder, PagesAre DEF DirectType
<1>5. DOMAIN regions = 1 .. Len(regions) /\ Len(regions) \in Nat /\ i \in 0 .. Len(regions)
  BY DEF DirectType, LayoutInv
<1>6. ASSUME NEW p \in PageNumbers, InDone(p)
      PROVE  \E j \in DOMAIN regions : p \in WholePages(regions[j])
  <2>1. DoneRegions \subseteq DOMAIN regions
    BY <1>5 DEF DoneRegions
  <2> QED BY <1>6, <2>1 DEF InDone
<1>7. ASSUME NEW p \in PageNumbers, HasLeaf(p)
      PROVE  \E j \in DOMAIN regions : p \in WholePages(regions[j])
  <2>1. CASE InDone(p)
    BY <1>6, <2>1
  <2>2. CASE pc \notin Between /\ start <= p /\ p < Current
    <3>1. /\ i \in DOMAIN regions /\ start = FirstPage(regions[i])
          /\ limit = LimitPage(regions[i])
      BY <1>5, <2>2 DEF PhaseInv
    <3>2. p < limit /\ limit \in Nat /\ start \in Nat /\ p \in Nat
      <4>1. CASE pc = "phase"
        BY <1>1, <2>2, <4>1 DEF PhaseInv, AtPhase, Current, Mapping, DirectType
      <4>2. CASE pc \in Mapping
        <5>1. InPhase(phase, start, vaddr, vend, limit) /\ Current = vaddr
          BY <4>2 DEF PhaseInv, Mapping, Current
        <5>2. vaddr <= vend /\ vend <= limit
          BY <5>1 DEF InPhase
        <5>3. /\ vaddr \in Nat /\ vend \in Nat /\ limit \in Nat /\ start \in Nat /\ p \in Nat
          BY <1>1 DEF DirectType
        <5> QED BY <2>2, <5>1, <5>2, <5>3
      <4> QED BY <2>2, <4>1, <4>2 DEF DirectType
    <3>3. p \in WholePages(regions[i])
      BY <2>2, <3>1, <3>2 DEF WholePages
    <3> QED BY <3>1, <3>3
  <2> QED BY <1>7, <2>1, <2>2 DEF ExactInv
<1>8. OnlyMemory
  <2>1. ASSUME NEW p \in Pages
        PROVE  /\ Translate(p) \subseteq {p}
               /\ Translate(p) # {} =>
                     \E j \in DOMAIN regions : Inside(p) \subseteq BytesOf(regions[j])
    <3>1. p \in PageNumbers
      BY <1>1
    <3> QED BY <1>3, <1>4, <1>7, <3>1
  <2> QED BY <2>1 DEF OnlyMemory, NoClash
<1>9. pc \in Between => \A p \in PageNumbers : HasLeaf(p) <=> InDone(p) /\ ~IsLost(p)
  BY DEF ExactInv
<1>10. ASSUME pc = "done", NEW p \in Pages, NEW j \in DOMAIN regions,
              Inside(p) \subseteq BytesOf(regions[j])
       PROVE  Translate(p) # {} <=> ~IsLost(p)
  <2>1. p \in PageNumbers
    BY <1>1
  <2>2. p \in WholePages(regions[j])
    BY <1>4, <1>10, <2>1
  <2>3. HasPage(regions[j])
    <3> DEFINE f == FirstPage(regions[j])  g == LimitPage(regions[j])
    <3>1. f \in Nat /\ g \in Nat /\ p \in f .. g - 1
      BY <1>1, <1>4, <2>2 DEF WholePages
    <3> HIDE DEF f, g
    <3>2. f < g
      BY <3>1
    <3> QED BY <3>2 DEF HasPage, f, g
  <2>4. j \in 1 .. i
    BY <1>5, <1>10, <2>3 DEF PhaseInv, Between
  <2>5. InDone(p)
    BY <1>10, <2>2, <2>4 DEF InDone, DoneRegions, Between
  <2> QED BY <1>3, <1>9, <1>10, <2>1, <2>5 DEF Between
<1>11. AllMapped
  <2> DEFINE mapped == {p \in Pages : Translate(p) # {}}
             lost == UNION {Lost(regions[j]) : j \in DOMAIN regions}
             handled == UNION {WholePages(regions[j]) : j \in 1 .. i}
             low == {p \in handled : p < LowPages}
  <2>1. \A p : p \in lost <=> IsLost(p)
    BY DEF IsLost
  <2>2. ASSUME pc = "done", NEW p \in Pages, NEW j \in DOMAIN regions,
               Inside(p) \subseteq BytesOf(regions[j])
        PROVE  p \in mapped <=> p \notin lost
    BY <1>10, <2>1, <2>2
  <2>3. ASSUME pc \in Between
        PROVE  /\ mapped = handled \ lost
               /\ \A p \in handled : p < max_pfn_mapped
               /\ max_pfn_mapped # 0 => max_pfn_mapped - 1 \in handled
               /\ \A p \in low : p < max_low_pfn_mapped
               /\ max_low_pfn_mapped # 0 => max_low_pfn_mapped - 1 \in low
    <3>1. \A p : p \in handled <=> InDone(p)
      BY <2>3 DEF InDone, DoneRegions
    <3>2. handled \subseteq Pages
      <4>1. ASSUME NEW j \in 1 .. i, NEW p \in WholePages(regions[j]) PROVE p \in Pages
        <5> DEFINE f == FirstPage(regions[j])  g == LimitPage(regions[j])
        <5>1. f \in Nat /\ g \in Nat /\ g <= MaxPages /\ p \in f .. g - 1
          BY <1>1, <1>4, <1>5 DEF WholePages, PageNumbers
        <5> HIDE DEF f, g
        <5> QED BY <1>1, <5>1 DEF Pages
      <4> QED BY <4>1
    <3> HIDE DEF handled, lost
    <3>3. ASSUME NEW p \in Pages PROVE p \in mapped <=> p \in handled /\ p \notin lost
      BY <1>1, <1>3, <1>9, <2>1, <2>3, <3>1
    <3>4. mapped = handled \ lost
      BY <3>2, <3>3
    <3>5. max_pfn_mapped \in PageNumbers /\ max_low_pfn_mapped \in PageNumbers
      BY DEF DirectType
    <3>6. \A p \in handled : p < max_pfn_mapped /\ (p < LowPages => p < max_low_pfn_mapped)
      BY <1>1, <3>1, <3>2 DEF HighestInv
    <3>7. max_pfn_mapped # 0 => max_pfn_mapped - 1 \in handled
      BY <3>1 DEF HighestInv
    <3>8. max_low_pfn_mapped # 0 => max_low_pfn_mapped - 1 \in handled /\ max_low_pfn_mapped - 1 < LowPages
      BY <1>1, <3>1, <3>5 DEF HighestInv
    <3> QED BY <3>4, <3>6, <3>7, <3>8
  <2> HIDE DEF mapped, lost, handled, low
  <2>4. AllMapped <=>
          /\ pc = "done" =>
                \A p \in Pages : \A j \in DOMAIN regions :
                    Inside(p) \subseteq BytesOf(regions[j]) => (p \in mapped <=> p \notin lost)
          /\ pc \in {"next", "done"} =>
                /\ mapped = handled \ lost
                /\ \A p \in handled : p < max_pfn_mapped
                /\ max_pfn_mapped # 0 => max_pfn_mapped - 1 \in handled
                /\ \A p \in low : p < max_low_pfn_mapped
                /\ max_low_pfn_mapped # 0 => max_low_pfn_mapped - 1 \in low
    BY DEF AllMapped, mapped, lost, handled, low
  <2> QED BY <2>2, <2>3, <2>4 DEF Between
<1>12. LargestPages
  <2> SUFFICES ASSUME pc = "done", NEW j \in DOMAIN regions, NEW l \in {2, 3},
                      NEW k \in 0 .. MaxPages \div Span(l),
                      (k * Span(l)) .. ((k + 1) * Span(l) - 1)
                         \subseteq WholePages(regions[j]) \ Lost(regions[j])
               PROVE  \E m \in l .. 3 : Entry(m, k * Span(l)).kind = "page"
    BY DEF LargestPages
  <2> DEFINE p == k * Span(l)  n == Span(l)  q == (k + 1) * n
             first == FirstPage(regions[j])  last == LimitPage(regions[j])
  <2>1. n \in Nat \ {0} /\ l \in Levels
    BY SpanIs DEF Levels
  <2>2. k \in Nat /\ k + 1 \in Nat
    BY <2>1, DivisionIs, <1>1
  <2>3. p \in Nat /\ p % n = 0 /\ q \in Nat /\ q % n = 0 /\ q = p + n
    <3>1. p \in Nat /\ q = p + n
      BY <2>1, <2>2
    <3>a. 0 \in 0 .. n - 1
      BY <2>1
    <3>b. (k * n + 0) % n = 0
      BY <2>1, <2>2, <3>a, DivisionOf
    <3>c. ((k + 1) * n + 0) % n = 0
      BY <2>1, <2>2, <3>a, DivisionOf
    <3>2. (k * n + 0) % n = 0 /\ ((k + 1) * n + 0) % n = 0
      BY <3>b, <3>c
    <3>3. k * n + 0 = p /\ (k + 1) * n + 0 = q
      BY <2>1, <3>1
    <3> QED BY <2>1, <3>1, <3>2, <3>3
  <2>4. p .. q - 1 \subseteq first .. last - 1
    BY DEF WholePages
  <2>5. first \in Nat /\ last \in Nat /\ last <= MaxPages
    BY <1>1, <1>4 DEF PageNumbers
  <2> HIDE DEF p, n, q, first, last
  <2>6. first <= p /\ q <= last /\ p < last
    <3>1. p \in p .. q - 1 /\ q - 1 \in p .. q - 1
      BY <2>1, <2>3
    <3>2. p \in first .. last - 1 /\ q - 1 \in first .. last - 1
      BY <2>4, <3>1
    <3> QED BY <2>1, <2>3, <2>5, <3>2
  <2>7. ROUND_UP(first, n) <= p /\ q <= ROUND_DOWN(last, n) /\ ROUND_DOWN(last, n) \in Nat
    BY <2>1, <2>3, <2>5, <2>6, UpIs, DownLargest, DownIs
  <2>8. p < ROUND_DOWN(last, n)
    BY <2>1, <2>3, <2>7
  <2>9. p \in Pages /\ p \in PageNumbers
    BY <1>1, <2>3, <2>5, <2>6 DEF Pages, PageNumbers
  <2>10. p \in WholePages(regions[j])
    BY <2>3, <2>5, <2>6 DEF WholePages, first, last
  <2>a. p \notin Lost(regions[j])
    <3>1. p \in p .. q - 1
      BY <2>1, <2>3
    <3> QED BY <3>1 DEF p, q, n
  <2>b. ~IsLost(p)
    BY <2>10, <2>a, LostOwn DEF DirectType
  <2>11. HasLeaf(p)
    BY <1>3, <1>4, <1>10, <2>9, <2>10, <2>b
  <2>12. l = 3 => Entry(3, p).kind = "page"
    BY <2>7, <2>8, <2>9, <2>11 DEF LargeInv, n, first, last
  <2>13. l = 2 => \E m \in {2, 3} : Entry(m, p).kind = "page"
    BY <2>7, <2>8, <2>9, <2>11 DEF LargeInv, n, first, last
  <2>14. 3 \in 3 .. 3 /\ {2, 3} \subseteq 2 .. 3
    OBVIOUS
  <2>15. \E m \in l .. 3 : Entry(m, p).kind = "page"
    BY <2>12, <2>13, <2>14
  <2> QED BY <2>15 DEF p
<1> QED BY <1>8, <1>11, <1>12

-----------------------------------------------------------------------------
(* The steps that leave the tables alone.                                  *)

\* The tree and the large pages depend on the regions and the tables alone.
LEMMA TablesKept ==
    ASSUME DirectInvariant, regions' = regions, ent' = ent
    PROVE  /\ LayoutInv' /\ EntType' /\ TreeInv' /\ LargeInv'
           /\ \A p : HasLeaf(p)' <=> HasLeaf(p)
           /\ \A p : IsLost(p)' <=> IsLost(p)
<1>1. LayoutInv'
  BY DEF DirectInvariant, DirectType, LayoutInv, Ordered
<1>2. EntType'
  BY DEF DirectInvariant, DirectType, EntType
<1>3. \A l, p : Entry(l, p)' = Entry(l, p)
  BY DEF Entry
<1>4. \A p : HasLeaf(p)' <=> HasLeaf(p)
  BY <1>3 DEF HasLeaf
<1>5. TreeInv'
  BY <1>3, <1>4 DEF DirectInvariant, TreeInv
<1>6. LargeInv'
  BY <1>3, <1>4 DEF DirectInvariant, LargeInv
<1>7. \A p : IsLost(p)' <=> IsLost(p)
  BY DEF IsLost
<1> QED BY <1>1, <1>2, <1>4, <1>5, <1>6, <1>7

\* What is done stays known, when the same regions are.
LEMMA DoneKept ==
    ASSUME DirectInvariant, regions' = regions, DoneRegions' = DoneRegions,
           max_pfn_mapped' = max_pfn_mapped, max_low_pfn_mapped' = max_low_pfn_mapped
    PROVE  HighestInv' /\ \A p : InDone(p)' <=> InDone(p)
<1>1. \A p : InDone(p)' <=> InDone(p)
  BY DEF InDone
<1>2. HighestInv'
  BY <1>1 DEF DirectInvariant, HighestInv
<1> QED BY <1>1, <1>2

\* The control state, spelled out.
LEMMA ControlIs ==
    ASSUME DirectInvariant
    PROVE  /\ start \in Nat /\ pfn \in Nat /\ limit \in Nat /\ vaddr \in Nat /\ vend \in Nat
           /\ limit <= MaxPages /\ MaxPages \in Nat
           /\ phase \in 1 .. 6 /\ i \in Nat /\ Len(regions) \in Nat /\ i <= Len(regions)
           /\ DOMAIN regions = 1 .. Len(regions)
<1>1. MaxPages \in Nat
  BY DirectMapAssumption
<1>2. DOMAIN regions = 1 .. Len(regions) /\ Len(regions) \in Nat
  BY DEF DirectInvariant, DirectType, LayoutInv
<1> QED BY <1>1, <1>2 DEF DirectInvariant, DirectType, PageNumbers

LEMMA NextRegionStep ==
    ASSUME DirectInvariant, NextRegion
    PROVE  DirectInvariant'
<1>1. /\ pc = "next" /\ pc' = "phase" /\ phase' = 1 /\ regions' = regions /\ ent' = ent
      /\ vaddr' = vaddr /\ vend' = vend
      /\ max_pfn_mapped' = max_pfn_mapped /\ max_low_pfn_mapped' = max_low_pfn_mapped
  BY DEF NextRegion, highest
<1>2. PICK j \in i + 1 .. Len(regions) :
          /\ HasPage(regions[j])
          /\ \A k \in i + 1 .. j - 1 : ~HasPage(regions[k])
          /\ i' = j
          /\ start' = FirstPage(regions[j])
          /\ pfn' = FirstPage(regions[j])
          /\ limit' = LimitPage(regions[j])
  BY DEF NextRegion
<1>3. /\ i \in Nat /\ Len(regions) \in Nat /\ j \in DOMAIN regions /\ j \in 1 .. Len(regions)
      /\ j \in Nat /\ i < j
  BY ControlIs
<1>4. /\ \A k \in DOMAIN regions : FirstPage(regions[k]) \in Nat /\ LimitPage(regions[k]) \in Nat
      /\ LimitPage(regions[j]) \in PageNumbers
  BY <1>3, PagesInOrder DEF DirectInvariant, DirectType, PageNumbers
<1>5. start' \in PageNumbers /\ start' < limit' /\ start' \in Nat /\ limit' \in Nat
  BY <1>2, <1>3, <1>4, ControlIs DEF HasPage, PageNumbers
<1>6. DirectType'
  BY <1>1, <1>2, <1>3, <1>4, <1>5, TablesKept
     DEF DirectInvariant, DirectType, Mapping, Between
<1>7. ASSUME NEW p PROVE InDone(p)' <=> InDone(p)
  <2>1. DoneRegions = 1 .. i /\ DoneRegions' = 1 .. j - 1
    BY <1>1, <1>2 DEF DoneRegions, Between
  <2>2. ASSUME NEW k \in 1 .. j - 1, k \notin 1 .. i, p \in WholePages(regions[k]) PROVE FALSE
    <3>1. k \in i + 1 .. j - 1 /\ k \in DOMAIN regions
      BY <1>3, <2>2, ControlIs
    <3> DEFINE f == FirstPage(regions[k])  g == LimitPage(regions[k])
    <3>2. f \in Nat /\ g \in Nat /\ ~(f < g) /\ p \in f .. g - 1
      BY <1>2, <1>4, <2>2, <3>1 DEF HasPage, WholePages
    <3> HIDE DEF f, g
    <3> QED BY <3>2
  <2>3. 1 .. i \subseteq 1 .. j - 1
    BY <1>3
  <2> QED BY <1>1, <2>1, <2>2, <2>3 DEF InDone
<1>8. ExactInv'
  <2>1. Current' = start' /\ pc' \notin Between
    BY <1>1, <1>2 DEF Current, Mapping, Between
  <2>2. \A p \in PageNumbers : HasLeaf(p) <=> InDone(p) /\ ~IsLost(p)
    BY <1>1 DEF DirectInvariant, ExactInv, Between
  <2>3. \A p \in PageNumbers : ~(start' <= p /\ p < start')
    BY <1>5, DirectMapAssumption DEF PageNumbers
  <2>4. \A p \in PageNumbers : HasLeaf(p)' <=> InDone(p)' /\ ~IsLost(p)'
    BY <1>1, <1>7, <2>2, TablesKept
  <2> QED BY <2>1, <2>3, <2>4 DEF ExactInv
<1>9. PhaseInv'
  <2>1. AtPhase(1, start', pfn', limit')
    BY <1>2, <1>4, <1>5 DEF AtPhase
  <2>2. pc' \notin Mapping /\ pc' # "done"
    BY <1>1 DEF Mapping
  <2>3. i' # 0 /\ start' = FirstPage(regions'[i']) /\ limit' = LimitPage(regions'[i'])
    BY <1>1, <1>2, <1>3
  <2> QED BY <1>1, <1>5, <2>1, <2>2, <2>3 DEF PhaseInv
<1>10. HighestInv'
  BY <1>1, <1>7 DEF DirectInvariant, HighestInv
<1>11. LostInv'
  BY <1>1 DEF LostInv, Mapping
<1> QED BY <1>1, <1>6, <1>8, <1>9, <1>10, <1>11, TablesKept DEF DirectInvariant, NoClash

LEMMA FinishStep ==
    ASSUME DirectInvariant, Finish
    PROVE  DirectInvariant'
<1>1. /\ pc = "next" /\ pc' = "done" /\ phase' = phase /\ regions' = regions /\ ent' = ent
      /\ i' = i /\ start' = start /\ pfn' = pfn /\ limit' = limit
      /\ vaddr' = vaddr /\ vend' = vend
      /\ max_pfn_mapped' = max_pfn_mapped /\ max_low_pfn_mapped' = max_low_pfn_mapped
      /\ \A j \in i + 1 .. Len(regions) : ~HasPage(regions[j])
  BY DEF Finish, highest, region
<1>2. DirectType'
  BY <1>1, TablesKept DEF DirectInvariant, DirectType, Mapping, Between
<1>3. DoneRegions' = DoneRegions
  BY <1>1 DEF DoneRegions, Between
<1>4. HighestInv' /\ \A p : InDone(p)' <=> InDone(p)
  BY <1>1, <1>3, DoneKept
<1>5. ExactInv'
  <2>1. pc \in Between /\ pc' \in Between
    BY <1>1 DEF Between
  <2> QED BY <1>1, <1>4, <2>1, TablesKept DEF DirectInvariant, ExactInv
<1>6. PhaseInv'
  BY <1>1 DEF PhaseInv, Between, Mapping
<1>7. LostInv'
  BY <1>1 DEF LostInv, Mapping
<1> QED BY <1>1, <1>2, <1>4, <1>5, <1>6, <1>7, TablesKept DEF DirectInvariant, NoClash

\* How the phases of a region follow one another: a phase that has nothing to
\* map leaves 'pfn' where the next one may start, and so does, at the end of what
\* it maps, one that maps.
LEMMA PhaseMoves ==
    ASSUME DirectInvariant, pc = "phase", phase \in 1 .. 5
    PROVE  /\ PhaseStart(phase) >= PhaseEnd(phase) => AtPhase(phase + 1, start, pfn, limit)
           /\ PhaseStart(phase) < PhaseEnd(phase) =>
                 /\ PhaseStart(phase) = pfn /\ PhaseEnd(phase) \in Nat
                 /\ InPhase(phase, start, PhaseStart(phase), PhaseEnd(phase), limit)
                 /\ AtPhase(phase + 1, start, PhaseEnd(phase), limit)
<1> DEFINE u2(x) == ROUND_UP(x, Span(2))  u3(x) == ROUND_UP(x, Span(3))
           d2(x) == ROUND_DOWN(x, Span(2))  d3(x) == ROUND_DOWN(x, Span(3))
           a2(x) == x % Span(2) = 0  a3(x) == x % Span(3) = 0
           from == PhaseStart(phase)  to == PhaseEnd(phase)
           Next1(p) == AtPhase(phase + 1, start, p, limit)
           Range1 == InPhase(phase, start, from, to, limit)
<1>1. /\ start \in Nat /\ pfn \in Nat /\ limit \in Nat
      /\ AtPhase(phase, start, pfn, limit) /\ start < limit
  BY ControlIs DEF DirectInvariant, PhaseInv, Between
<1>2. \A x \in Nat : /\ u2(x) \in Nat /\ u3(x) \in Nat /\ x <= u2(x) /\ x <= u3(x)
                     /\ d2(x) \in Nat /\ d3(x) \in Nat /\ d2(x) <= x /\ d3(x) <= x
                     /\ (a2(x) => u2(x) = x) /\ (a3(x) => u3(x) = x) /\ (a3(x) => a2(x))
                     /\ a2(u2(x)) /\ a3(u3(x)) /\ a2(d2(x)) /\ a3(d3(x))
  BY Roundings
<1>0. \A x, y \in Nat : /\ a2(y) /\ x <= y => u2(x) <= y
                        /\ a3(y) /\ x <= y => u3(x) <= y
                        /\ a2(y) /\ y <= x => y <= d2(x)
  BY Roundings
<1>3. \A x \in Nat : x % Span(1) = 0
  BY Roundings
<1>4. /\ PageLevel(1) = 1 /\ PageLevel(2) = 2 /\ PageLevel(3) = 3
      /\ PageLevel(4) = 2 /\ PageLevel(5) = 1
  BY DEF PageLevel
<1>5. \A x, y \in Nat : /\ Lesser(x, y) \in {x, y} /\ Lesser(x, y) <= x /\ Lesser(x, y) <= y
  BY DEF Lesser
<1>6. \A f, p, l \in Nat :
         /\ AtPhase(1, f, p, l) <=> f <= p /\ p <= l /\ p = f
         /\ AtPhase(2, f, p, l) <=> f <= p /\ p <= l /\ (a2(p) \/ p = l) /\ p <= u2(f)
         /\ AtPhase(3, f, p, l) <=> f <= p /\ p <= l /\ (a3(p) \/ p >= d2(l)) /\ p <= u3(f)
         /\ AtPhase(4, f, p, l) <=> f <= p /\ p <= l /\ (a2(p) \/ p >= d2(l)) /\ p >= d3(l)
         /\ AtPhase(5, f, p, l) <=> f <= p /\ p <= l /\ p >= d2(l)
         /\ AtPhase(6, f, p, l) <=> f <= p /\ p <= l /\ p = l
  BY DEF AtPhase
<1>7. \A f, v, e, l \in Nat :
         /\ InPhase(1, f, v, e, l) <=> /\ f <= v /\ v <= e /\ e <= l
                                      /\ v % Span(1) = 0 /\ e % Span(1) = 0 /\ e <= u2(f)
         /\ InPhase(2, f, v, e, l) <=> f <= v /\ v <= e /\ e <= l /\ a2(v) /\ a2(e) /\ e <= u3(f)
         /\ InPhase(3, f, v, e, l) <=> f <= v /\ v <= e /\ e <= l /\ a3(v) /\ a3(e)
         /\ InPhase(4, f, v, e, l) <=> f <= v /\ v <= e /\ e <= l /\ a2(v) /\ a2(e) /\ v >= d3(l)
         /\ InPhase(5, f, v, e, l) <=> /\ f <= v /\ v <= e /\ e <= l
                                      /\ v % Span(1) = 0 /\ e % Span(1) = 0 /\ v >= d2(l)
  BY <1>4 DEF InPhase
<1>8. /\ phase = 1 => from = pfn /\ to = Lesser(u2(pfn), limit)
      /\ phase = 2 => from = u2(pfn) /\ to = Lesser(u3(pfn), d2(limit))
      /\ phase = 3 => from = u3(pfn) /\ to = d3(limit)
      /\ phase = 4 => from = u2(pfn) /\ to = d2(limit)
      /\ phase = 5 => from = pfn /\ to = limit
  <2>1. CASE phase = 1 BY <2>1 DEF PhaseStart, PhaseEnd
  <2>2. CASE phase = 2 BY <2>2, <1>4 DEF PhaseStart, PhaseEnd
  <2>3. CASE phase = 3 BY <2>3, <1>4 DEF PhaseStart, PhaseEnd
  <2>4. CASE phase = 4 BY <2>4, <1>4 DEF PhaseStart, PhaseEnd
  <2>5. CASE phase = 5 BY <2>5 DEF PhaseStart, PhaseEnd
  <2> QED BY <2>1, <2>2, <2>3, <2>4, <2>5
<1> SUFFICES /\ from >= to => Next1(pfn)
             /\ from < to => from = pfn /\ to \in Nat /\ Range1 /\ Next1(to)
  OBVIOUS
<1> HIDE DEF from, to, u2, u3, d2, d3, a2, a3
<1>b. a2(u3(start)) /\ a2(u3(pfn)) /\ a2(d3(limit))
  BY <1>1, <1>2
<1>c. u2(start) <= u3(start) /\ d3(limit) <= d2(limit)
  BY <1>1, <1>2, <1>0, <1>b
<1>d. pfn <= u2(start) => u3(pfn) <= u3(start)
  <2>1. pfn <= u2(start) => pfn <= u3(start)
    BY <1>1, <1>2, <1>c
  <2> QED BY <1>1, <1>2, <1>0, <2>1
<1>9. /\ u2(start) \in Nat /\ u3(start) \in Nat /\ u2(pfn) \in Nat /\ u3(pfn) \in Nat
      /\ d2(limit) \in Nat /\ d3(limit) \in Nat
      /\ start <= u2(start) /\ pfn <= u2(pfn) /\ pfn <= u3(pfn)
      /\ d2(limit) <= limit /\ d3(limit) <= d2(limit)
      /\ (a2(pfn) => u2(pfn) = pfn) /\ (a3(pfn) => u3(pfn) = pfn /\ a2(pfn))
      /\ a2(u2(pfn)) /\ a3(u3(pfn)) /\ a2(u3(pfn))
      /\ a2(d2(limit)) /\ a3(d3(limit)) /\ a2(d3(limit))
      /\ pfn <= u2(start) => u3(pfn) <= u3(start)
  BY <1>1, <1>2, <1>b, <1>c, <1>d
<1>10. CASE phase = 1
  <2>1. pfn = start /\ from = pfn /\ to = Lesser(u2(pfn), limit)
    BY <1>1, <1>6, <1>8, <1>10
  <2>2. to \in {u2(pfn), limit} /\ to <= limit /\ to <= u2(start) /\ to \in Nat
    BY <1>1, <1>9, <1>5, <2>1
  <2>3. AtPhase(2, start, to, limit) /\ (from >= to => AtPhase(2, start, pfn, limit))
    BY <1>1, <1>9, <1>6, <2>1, <2>2
  <2>4. from < to => InPhase(1, start, from, to, limit)
    BY <1>1, <1>3, <1>7, <2>1, <2>2
  <2> QED BY <1>10, <2>1, <2>2, <2>3, <2>4
<1>11. CASE phase = 2
  <2>1. /\ start <= pfn /\ pfn <= limit /\ (a2(pfn) \/ pfn = limit) /\ pfn <= u2(start)
        /\ from = u2(pfn) /\ to = Lesser(u3(pfn), d2(limit))
    BY <1>1, <1>6, <1>8, <1>11
  <2>2. to \in {u3(pfn), d2(limit)} /\ to <= d2(limit) /\ to <= u3(pfn) /\ to \in Nat
    BY <1>1, <1>9, <1>5, <2>1
  <2>3. u3(pfn) <= u3(start) /\ a2(to) /\ to <= limit
    BY <1>1, <1>9, <2>1, <2>2
  <2>4. from < to => from = pfn /\ a2(from)
    BY <1>1, <1>9, <2>1, <2>2
  <2>a. pfn <= u3(start) /\ to <= u3(start)
    BY <1>1, <1>9, <2>1, <2>2, <2>3
  <2>5. from >= to => AtPhase(3, start, pfn, limit)
    BY <1>1, <1>9, <1>6, <2>1, <2>2, <2>a
  <2>6. from < to => AtPhase(3, start, to, limit)
    BY <1>1, <1>9, <1>6, <2>1, <2>2, <2>3, <2>4, <2>a
  <2>7. from < to => InPhase(2, start, from, to, limit)
    <3>1. from < to => start <= from /\ from <= to /\ to <= u3(start)
      BY <1>1, <1>9, <2>1, <2>2, <2>3, <2>4
    <3>2. from < to => from \in Nat
      BY <1>1, <2>4
    <3> QED BY <1>1, <1>7, <2>2, <2>3, <2>4, <3>1, <3>2
  <2> QED BY <1>11, <2>2, <2>4, <2>5, <2>6, <2>7
<1>12. CASE phase = 3
  <2>1. /\ start <= pfn /\ pfn <= limit /\ (a3(pfn) \/ pfn >= d2(limit))
        /\ pfn <= u3(start) /\ from = u3(pfn) /\ to = d3(limit)
    BY <1>1, <1>6, <1>8, <1>12
  <2>2. to \in Nat /\ a3(to) /\ a2(to) /\ to <= limit /\ from \in Nat /\ pfn <= from
    BY <1>1, <1>9, <2>1
  <2>3. from < to => from = pfn /\ a3(from)
    BY <1>1, <1>9, <2>1, <2>2
  <2>4. from >= to => AtPhase(4, start, pfn, limit)
    BY <1>1, <1>9, <1>6, <2>1, <2>2
  <2>5. from < to => AtPhase(4, start, to, limit)
    BY <1>1, <1>9, <1>6, <2>1, <2>2, <2>3
  <2>6. from < to => InPhase(3, start, from, to, limit)
    BY <1>1, <1>9, <1>7, <2>1, <2>2, <2>3
  <2> QED BY <1>12, <2>2, <2>3, <2>4, <2>5, <2>6
<1>13. CASE phase = 4
  <2>1. /\ start <= pfn /\ pfn <= limit /\ (a2(pfn) \/ pfn >= d2(limit)) /\ pfn >= d3(limit)
        /\ from = u2(pfn) /\ to = d2(limit)
    BY <1>1, <1>6, <1>8, <1>13
  <2>2. to \in Nat /\ a2(to) /\ to <= limit /\ from \in Nat /\ pfn <= from
    BY <1>1, <1>9, <2>1
  <2>3. from < to => from = pfn /\ a2(from)
    BY <1>1, <1>9, <2>1, <2>2
  <2>4. from >= to => AtPhase(5, start, pfn, limit)
    BY <1>1, <1>9, <1>6, <2>1, <2>2
  <2>5. from < to => AtPhase(5, start, to, limit)
    BY <1>1, <1>9, <1>6, <2>1, <2>2, <2>3
  <2>6. from < to => InPhase(4, start, from, to, limit)
    BY <1>1, <1>9, <1>7, <2>1, <2>2, <2>3
  <2> QED BY <1>13, <2>2, <2>3, <2>4, <2>5, <2>6
<1>14. CASE phase = 5
  <2>1. start <= pfn /\ pfn <= limit /\ pfn >= d2(limit) /\ from = pfn /\ to = limit
    BY <1>1, <1>6, <1>8, <1>14
  <2>2. from >= to => AtPhase(6, start, pfn, limit)
    BY <1>1, <1>6, <2>1
  <2>3. from < to => AtPhase(6, start, to, limit) /\ InPhase(5, start, from, to, limit)
    BY <1>1, <1>3, <1>6, <1>7, <2>1
  <2> QED BY <1>1, <1>14, <2>1, <2>2, <2>3
<1> QED BY <1>10, <1>11, <1>12, <1>13, <1>14

LEMMA PhaseSkipStep ==
    ASSUME DirectInvariant, PhaseSkip
    PROVE  DirectInvariant'
<1>1. /\ pc = "phase" /\ pc' = "phase" /\ phase \in 1 .. 5 /\ phase' = phase + 1
      /\ regions' = regions /\ ent' = ent
      /\ i' = i /\ start' = start /\ pfn' = pfn /\ limit' = limit
      /\ vaddr' = vaddr /\ vend' = vend
      /\ max_pfn_mapped' = max_pfn_mapped /\ max_low_pfn_mapped' = max_low_pfn_mapped
      /\ PhaseStart(phase) >= PhaseEnd(phase)
  BY ControlIs DEF PhaseSkip, highest
<1>2. phase' \in 1 .. 6 /\ pc \notin Mapping /\ pc \notin Between /\ pc # "done"
  BY <1>1 DEF Mapping, Between
<1>3. DirectType'
  BY <1>1, <1>2, TablesKept DEF DirectInvariant, DirectType
<1>4. DoneRegions' = DoneRegions
  BY <1>1 DEF DoneRegions
<1>5. HighestInv' /\ \A p : InDone(p)' <=> InDone(p)
  BY <1>1, <1>4, DoneKept
<1>6. Current' = Current
  BY <1>1 DEF Current
<1>7. ExactInv'
  BY <1>1, <1>5, <1>6, TablesKept DEF DirectInvariant, ExactInv
<1>8. AtPhase(phase', start', pfn', limit')
  BY <1>1, PhaseMoves
<1>9. PhaseInv'
  BY <1>1, <1>2, <1>8 DEF DirectInvariant, PhaseInv
<1>10. LostInv'
  BY <1>1, <1>2 DEF LostInv
<1> QED BY <1>1, <1>3, <1>5, <1>7, <1>9, <1>10, TablesKept DEF DirectInvariant, NoClash

\* Of what a phase maps, all pages are lost if its end has wrapped and its start
\* has not, and no page otherwise.
LEMMA LostInPhase ==
    ASSUME DirectInvariant, pc = "phase", phase \in 1 .. 5,
           PhaseStart(phase) < PhaseEnd(phase), NEW p \in PageNumbers,
           PhaseStart(phase) <= p, p < PhaseEnd(phase)
    PROVE  IsLost(p) <=> Across(PhaseStart(phase), PhaseEnd(phase))
<1> DEFINE u2 == ROUND_UP(start, Span(2))  u3 == ROUND_UP(start, Span(3))
           d2 == ROUND_DOWN(limit, Span(2))  d3 == ROUND_DOWN(limit, Span(3))
           from == PhaseStart(phase)  to == PhaseEnd(phase)
<1>1. /\ start \in Nat /\ pfn \in Nat /\ limit \in Nat /\ p \in Nat /\ Wrap \in Nat
      /\ AtPhase(phase, start, pfn, limit) /\ start < limit
      /\ i \in DOMAIN regions /\ regions[i] \in Region
      /\ start = FirstPage(regions[i]) /\ limit = LimitPage(regions[i])
  <2>1. i \in DOMAIN regions /\ LayoutInv
    BY ControlIs DEF DirectInvariant, DirectType, PhaseInv, Between
  <2>2. regions[i] \in Region
    BY <2>1, PagesInOrder
  <2>3. p \in Nat
    BY DirectMapAssumption DEF PageNumbers
  <2> QED BY <2>1, <2>2, <2>3, ControlIs, WrapIs DEF DirectInvariant, PhaseInv, Between
<1>2. /\ from = pfn /\ to \in Nat /\ InPhase(phase, start, from, to, limit)
      /\ from < to /\ from <= p /\ p < to
  BY PhaseMoves
<1>3. start <= from /\ to <= limit /\ from % Span(PageLevel(phase)) = 0
  BY <1>2 DEF InPhase
<1>4. IsLost(p) <=> p \in Lost(regions[i])
  <2>1. p \in start .. limit - 1
    BY <1>1, <1>2, <1>3
  <2>2. p \in WholePages(regions[i])
    BY <1>1, <2>1 DEF WholePages
  <2> QED BY <1>1, <2>2, LostOwn DEF DirectInvariant, DirectType
<1>5. CASE ~(start < Wrap /\ Wrap <= limit)
  <2>1. limit < Wrap \/ Wrap <= start
    BY <1>1, <1>5
  <2>2. Lost(regions[i]) = {}
    BY <1>1, <2>1, LostIs
  <2>3. ~Across(from, to)
    BY <1>1, <1>2, <1>3, <2>1 DEF Across
  <2> QED BY <1>4, <2>2, <2>3
<1>6. CASE start < Wrap /\ Wrap <= limit
  <2>1. /\ start <= u2 /\ u2 <= u3 /\ u3 <= Wrap /\ Wrap <= d3 /\ d3 <= d2 /\ d2 <= limit
        /\ u2 \in Nat /\ u3 \in Nat /\ d2 \in Nat /\ d3 \in Nat
    BY <1>1, <1>6, AtWrap
  <2>2. /\ Wrap <= u2 => Lost(regions[i]) = start .. Wrap - 1
        /\ u2 < Wrap /\ Wrap <= u3 => Lost(regions[i]) = u2 .. Wrap - 1
        /\ u3 < Wrap => Lost(regions[i]) = u3 .. d3 - 1
    BY <1>1, <1>6, LostIs
  <2>3. /\ PageLevel(1) = 1 /\ PageLevel(2) = 2 /\ PageLevel(3) = 3
        /\ PageLevel(4) = 2 /\ PageLevel(5) = 1
    BY DEF PageLevel
  <2>4. /\ phase = 1 => from = start /\ to = u2
        /\ phase = 2 => from = u2 /\ to = u3
        /\ phase = 3 => from = u3 /\ to = d3
        /\ phase \in {4, 5} => d3 <= from
    <3>1. CASE phase = 1
      <4>1. pfn = start /\ to = Lesser(u2, limit)
        BY <1>1, <3>1 DEF AtPhase, PhaseEnd
      <4>2. Lesser(u2, limit) = u2
        BY <1>1, <2>1 DEF Lesser
      <4> QED BY <1>2, <3>1, <4>1, <4>2
    <3>2. CASE phase = 2
      <4>1. from % Span(2) = 0 /\ from <= u2
        BY <1>1, <1>2, <1>3, <2>3, <3>2 DEF AtPhase
      <4>2. from = u2
        BY <1>1, <1>2, <1>3, <2>1, <4>1, Roundings
      <4>3. to = Lesser(ROUND_UP(pfn, Span(3)), d2)
        BY <3>2 DEF PhaseEnd
      <4>4. ROUND_UP(pfn, Span(3)) = u3
        <5>1. /\ ROUND_UP(pfn, Span(3)) \in Nat /\ pfn <= ROUND_UP(pfn, Span(3))
              /\ ROUND_UP(pfn, Span(3)) % Span(3) = 0 /\ u3 % Span(3) = 0
          BY <1>1, Roundings
        <5>2. ROUND_UP(pfn, Span(3)) <= u3
          BY <1>1, <1>2, <2>1, <4>2, <5>1, Roundings
        <5>3. start <= ROUND_UP(pfn, Span(3))
          BY <1>1, <1>2, <1>3, <5>1
        <5>4. u3 <= ROUND_UP(pfn, Span(3))
          BY <1>1, <5>1, <5>3, Roundings
        <5> QED BY <2>1, <5>1, <5>2, <5>4
      <4>5. Lesser(u3, d2) = u3
        BY <1>1, <2>1 DEF Lesser
      <4> QED BY <3>2, <4>2, <4>3, <4>4, <4>5
    <3>3. CASE phase = 3
      <4>1. from % Span(3) = 0 /\ from <= u3
        BY <1>1, <1>2, <1>3, <2>3, <3>3 DEF AtPhase
      <4>2. from = u3
        BY <1>1, <1>2, <1>3, <2>1, <4>1, Roundings
      <4>3. to = d3
        BY <2>3, <3>3 DEF PhaseEnd
      <4> QED BY <3>3, <4>2, <4>3
    <3>4. CASE phase = 4
      BY <1>2, <3>4 DEF InPhase
    <3>5. CASE phase = 5
      <4>1. d2 <= from
        BY <1>2, <3>5 DEF InPhase
      <4> QED BY <1>1, <1>2, <2>1, <3>5, <4>1
    <3> QED BY <3>1, <3>2, <3>3, <3>4, <3>5
  <2> HIDE DEF u2, u3, d2, d3, from, to
  <2>5. p \in Lost(regions[i]) <=> from < Wrap /\ Wrap <= to
    <3>1. CASE phase = 1
      BY <1>1, <1>2, <1>6, <2>1, <2>2, <2>4, <3>1
    <3>2. CASE phase = 2
      BY <1>1, <1>2, <1>6, <2>1, <2>2, <2>4, <3>2
    <3>3. CASE phase = 3
      BY <1>1, <1>2, <1>6, <2>1, <2>2, <2>4, <3>3
    <3>4. CASE phase \in {4, 5}
      BY <1>1, <1>2, <1>6, <2>1, <2>2, <2>4, <3>4
    <3> QED BY <3>1, <3>2, <3>3, <3>4
  <2> QED BY <1>4, <2>5 DEF Across, from, to
<1> QED BY <1>5, <1>6

LEMMA PhaseMapStep ==
    ASSUME DirectInvariant, PhaseMap
    PROVE  DirectInvariant'
<1>1. /\ pc = "phase" /\ phase \in 1 .. 5 /\ phase' = phase
      /\ regions' = regions /\ ent' = ent
      /\ i' = i /\ start' = start /\ limit' = limit
      /\ max_pfn_mapped' = max_pfn_mapped /\ max_low_pfn_mapped' = max_low_pfn_mapped
      /\ PhaseStart(phase) < PhaseEnd(phase)
      /\ vaddr' = PhaseStart(phase) /\ vend' = PhaseEnd(phase) /\ pfn' = PhaseEnd(phase)
      /\ pc' \in {"map", "overlap"}
  BY ControlIs DEF PhaseMap, highest
<1>2. /\ PhaseStart(phase) = pfn /\ PhaseEnd(phase) \in Nat
      /\ InPhase(phase, start, PhaseStart(phase), PhaseEnd(phase), limit)
      /\ AtPhase(phase + 1, start, PhaseEnd(phase), limit)
  BY <1>1, PhaseMoves
<1>3. /\ vaddr' = pfn /\ vend' = pfn' /\ pfn' \in Nat
      /\ InPhase(phase', start', vaddr', vend', limit')
      /\ AtPhase(phase' + 1, start', pfn', limit')
  BY <1>1, <1>2
<1>4. /\ pc \notin Mapping /\ pc \notin Between /\ pc' \in Mapping /\ pc' \notin Between
      /\ pc' # "done" /\ pc' # "phase" /\ pc' # "clash"
  BY <1>1 DEF Mapping, Between
<1>5. pfn' \in PageNumbers /\ vaddr' \in PageNumbers
  <2>1. pfn' <= limit /\ limit <= MaxPages /\ limit \in Nat /\ MaxPages \in Nat
    BY <1>1, <1>2, ControlIs DEF AtPhase
  <2>2. pfn \in PageNumbers
    BY DEF DirectInvariant, DirectType
  <2> QED BY <1>3, <2>1, <2>2 DEF PageNumbers
<1>6. DirectType'
  BY <1>1, <1>3, <1>4, <1>5, TablesKept DEF DirectInvariant, DirectType
<1>7. DoneRegions' = DoneRegions /\ Current' = Current
  BY <1>1, <1>3, <1>4 DEF DoneRegions, Current
<1>8. HighestInv' /\ \A p : InDone(p)' <=> InDone(p)
  BY <1>1, <1>7, DoneKept
<1>9. ExactInv'
  BY <1>1, <1>4, <1>7, <1>8, TablesKept DEF DirectInvariant, ExactInv
<1>10. PhaseInv'
  BY <1>1, <1>3, <1>4 DEF DirectInvariant, PhaseInv
<1>11. LostInv'
  <2>1. \A p \in PageNumbers :
           PhaseStart(phase) <= p /\ p < PhaseEnd(phase) =>
              (IsLost(p) <=> Across(PhaseStart(phase), PhaseEnd(phase)))
    BY <1>1, LostInPhase
  <2>2. Across(vaddr, vend)' <=> Across(PhaseStart(phase), PhaseEnd(phase))
    BY <1>1 DEF Across
  <2> QED BY <1>1, <2>1, <2>2, TablesKept DEF LostInv
<1> QED BY <1>4, <1>1, <1>6, <1>8, <1>9, <1>10, <1>11, TablesKept DEF DirectInvariant, NoClash

LEMMA RegionDoneStep ==
    ASSUME DirectInvariant, RegionDone
    PROVE  DirectInvariant'
<1>1. /\ pc = "phase" /\ pc' = "next" /\ phase = 6 /\ phase' = phase
      /\ regions' = regions /\ ent' = ent
      /\ i' = i /\ start' = start /\ pfn' = pfn /\ limit' = limit
      /\ vaddr' = vaddr /\ vend' = vend
      /\ max_pfn_mapped' = Greater(max_pfn_mapped, limit)
      /\ max_low_pfn_mapped' =
            IF start < LowPages THEN Greater(max_low_pfn_mapped, Lesser(limit, LowPages))
            ELSE max_low_pfn_mapped
  BY DEF RegionDone, region
<1>2. /\ start \in Nat /\ limit \in Nat /\ start < limit /\ limit <= MaxPages
      /\ i \in DOMAIN regions /\ i \in Nat \ {0}
      /\ start = FirstPage(regions[i]) /\ limit = LimitPage(regions[i]) /\ pfn = limit
      /\ LowPages \in Nat /\ MaxPages \in Nat
  <2>1. AtPhase(6, start, pfn, limit)
    BY <1>1 DEF DirectInvariant, PhaseInv
  <2>2. pfn = limit
    BY <2>1 DEF AtPhase
  <2> QED BY <1>1, <2>2, ControlIs, DirectMapAssumption DEF DirectInvariant, PhaseInv, Between
<1> DEFINE m == max_pfn_mapped  n == max_low_pfn_mapped
           mm == max_pfn_mapped'  nn == max_low_pfn_mapped'
<1>3. m \in Nat /\ n \in Nat /\ m <= MaxPages /\ n <= MaxPages
  BY <1>2 DEF DirectInvariant, DirectType, PageNumbers
<1>4. /\ mm \in {m, limit} /\ m <= mm /\ limit <= mm
      /\ start < LowPages =>
            /\ nn = n \/ (nn = limit /\ limit <= LowPages) \/ (nn = LowPages /\ LowPages < limit)
            /\ n <= nn /\ (limit <= nn \/ LowPages <= nn)
      /\ LowPages <= start => nn = n
  <2>1. \A x, y \in Nat : /\ Greater(x, y) \in {x, y} /\ x <= Greater(x, y) /\ y <= Greater(x, y)
                          /\ Lesser(x, y) = IF x < y THEN x ELSE y
    BY DEF Greater, Lesser
  <2>2. Lesser(limit, LowPages) = IF limit < LowPages THEN limit ELSE LowPages
    BY <1>2, <2>1
  <2>3. Lesser(limit, LowPages) \in Nat
    BY <1>2, <2>2
  <2>4. start < LowPages => /\ nn \in {n, Lesser(limit, LowPages)} /\ n <= nn
                            /\ Lesser(limit, LowPages) <= nn
    BY <1>1, <1>3, <2>1, <2>3
  <2>5. mm \in {m, limit} /\ m <= mm /\ limit <= mm
    BY <1>1, <1>2, <1>3, <2>1
  <2>6. LowPages <= start => nn = n
    BY <1>1, <1>2
  <2> QED BY <1>2, <1>3, <2>2, <2>3, <2>4, <2>5, <2>6
<1>5. mm \in PageNumbers /\ nn \in PageNumbers
  BY <1>2, <1>3, <1>4, DirectMapAssumption DEF PageNumbers
<1>6. DirectType'
  BY <1>1, <1>5, TablesKept DEF DirectInvariant, DirectType, Mapping, Between
<1>7. ASSUME NEW p \in Int PROVE InDone(p)' <=> InDone(p) \/ (start <= p /\ p < limit)
  <2>1. DoneRegions' = 1 .. i /\ DoneRegions = 1 .. i - 1
    BY <1>1 DEF DoneRegions, Between
  <2>2. p \in WholePages(regions[i]) <=> start <= p /\ p < limit
    BY <1>2 DEF WholePages
  <2>3. 1 .. i = (1 .. i - 1) \cup {i}
    BY <1>2
  <2> QED BY <1>1, <2>1, <2>2, <2>3 DEF InDone
<1>8. ExactInv'
  <2>1. pc \notin Between /\ pc' \in Between /\ Current = limit
    BY <1>1, <1>2 DEF Between, Current, Mapping
  <2>2. \A p \in PageNumbers :
           HasLeaf(p) <=> (InDone(p) \/ (start <= p /\ p < limit)) /\ ~IsLost(p)
    BY <2>1 DEF DirectInvariant, ExactInv
  <2>3. \A p \in PageNumbers : p \in Int
    BY DEF PageNumbers
  <2> QED BY <1>1, <1>7, <2>1, <2>2, <2>3, TablesKept DEF ExactInv
<1>9. PhaseInv'
  BY <1>1 DEF PhaseInv, Between, Mapping
<1>10. HighestInv'
  <2>1. /\ \A p \in PageNumbers : InDone(p) => p < m
        /\ m # 0 => InDone(m - 1)
        /\ \A p \in PageNumbers : InDone(p) /\ p < LowPages => p < n
        /\ n # 0 => InDone(n - 1) /\ n <= LowPages
    BY DEF DirectInvariant, HighestInv
  <2>2. \A p \in PageNumbers : p \in Int
    BY DEF PageNumbers
  <2>3. \A p \in PageNumbers : InDone(p)' => p < mm
    BY <1>2, <1>3, <1>4, <1>7, <2>1, <2>2
  <2>4. PICK x \in Int : x = mm
    BY <1>5 DEF PageNumbers
  <2>5. x # 0 => InDone(x - 1)'
    <3>1. x = m => (x # 0 => InDone(x - 1))
      BY <2>1, <2>4
    <3>2. x = limit => start <= x - 1 /\ x - 1 < limit
      BY <1>2
    <3>3. InDone(x - 1)' <=> InDone(x - 1) \/ (start <= x - 1 /\ x - 1 < limit)
      BY <1>7, <2>4
    <3> QED BY <1>4, <2>4, <3>1, <3>2, <3>3
  <2>6. \A p \in PageNumbers : InDone(p)' /\ p < LowPages => p < nn
    BY <1>2, <1>3, <1>4, <1>5, <1>7, <2>1, <2>2 DEF PageNumbers
  <2>7. PICK y \in Int : y = nn
    BY <1>5 DEF PageNumbers
  <2>8. y # 0 => InDone(y - 1)' /\ y <= LowPages
    <3>1. y = n => (y # 0 => InDone(y - 1) /\ y <= LowPages)
      BY <2>1, <2>7
    <3>2. y # n => start <= y - 1 /\ y - 1 < limit /\ y <= LowPages
      BY <1>2, <1>3, <1>4, <2>7
    <3>3. InDone(y - 1)' <=> InDone(y - 1) \/ (start <= y - 1 /\ y - 1 < limit)
      BY <1>7, <2>7
    <3> QED BY <3>1, <3>2, <3>3
  <2>9. max_pfn_mapped' = x /\ max_low_pfn_mapped' = y
    BY <2>4, <2>7
  <2> HIDE DEF mm, nn
  <2>10. \A p \in PageNumbers : InDone(p)' => p < max_pfn_mapped'
    BY <2>3 DEF mm
  <2>11. \A p \in PageNumbers : InDone(p)' /\ p < LowPages => p < max_low_pfn_mapped'
    BY <2>6 DEF nn
  <2>12. max_pfn_mapped' # 0 => InDone(max_pfn_mapped - 1)'
    BY <2>5, <2>9 DEF InDone
  <2>13. max_low_pfn_mapped' # 0 => InDone(max_low_pfn_mapped - 1)' /\ max_low_pfn_mapped' <= LowPages
    BY <2>8, <2>9 DEF InDone
  <2> QED BY <2>10, <2>11, <2>12, <2>13 DEF HighestInv
<1>11. LostInv'
  BY <1>1 DEF LostInv, Mapping
<1> QED BY <1>1, <1>6, <1>8, <1>9, <1>10, <1>11, TablesKept DEF DirectInvariant, NoClash

LEMMA MapDoneStep ==
    ASSUME DirectInvariant, MapDone
    PROVE  DirectInvariant'
<1>1. /\ pc = "map" /\ pc' = "phase" /\ phase' = phase + 1 /\ ~Below(vaddr, vend)
      /\ regions' = regions /\ ent' = ent
      /\ i' = i /\ start' = start /\ pfn' = pfn /\ limit' = limit
      /\ vaddr' = vaddr /\ vend' = vend
      /\ max_pfn_mapped' = max_pfn_mapped /\ max_low_pfn_mapped' = max_low_pfn_mapped
  BY DEF MapDone, highest
<1>2. /\ pc \in Mapping /\ pc \notin Between /\ pc' \notin Mapping /\ pc' \notin Between
      /\ pc' # "done"
  BY <1>1 DEF Mapping, Between
<1>3. phase \in 1 .. 5 /\ phase' \in 1 .. 6
  BY <1>1, <1>2 DEF DirectInvariant, DirectType
<1>4. /\ i # 0 /\ start < limit
      /\ start = FirstPage(regions[i]) /\ limit = LimitPage(regions[i])
      /\ vaddr <= vend /\ vend = pfn /\ AtPhase(phase + 1, start, pfn, limit)
  BY <1>2 DEF DirectInvariant, PhaseInv, InPhase
<1>5. \A p \in PageNumbers : vaddr <= p /\ p < pfn => IsLost(p)
  <2>1. ~(vaddr < vend /\ ~Across(vaddr, vend))
    BY <1>1, <1>4, ControlIs, BelowIs
  <2>2. \A p \in PageNumbers : vaddr <= p /\ p < vend => vaddr < vend
    BY ControlIs DEF PageNumbers
  <2> QED BY <1>2, <1>4, <2>1, <2>2 DEF DirectInvariant, LostInv
<1>6. DirectType'
  BY <1>1, <1>2, <1>3, TablesKept DEF DirectInvariant, DirectType
<1>7. DoneRegions' = DoneRegions /\ Current = vaddr /\ Current' = pfn
  BY <1>1, <1>2 DEF DoneRegions, Current
<1>8. HighestInv' /\ \A p : InDone(p)' <=> InDone(p)
  BY <1>1, <1>7, DoneKept
<1>9. ExactInv'
  <2>1. \A p \in PageNumbers :
           HasLeaf(p) <=> (InDone(p) \/ (start <= p /\ p < vaddr)) /\ ~IsLost(p)
    BY <1>2, <1>7 DEF DirectInvariant, ExactInv
  <2>2. \A p \in PageNumbers : ~IsLost(p) => (p < vaddr <=> p < pfn)
    BY <1>4, <1>5, ControlIs DEF PageNumbers
  <2>3. \A p \in PageNumbers :
           HasLeaf(p) <=> (InDone(p) \/ (start <= p /\ p < pfn)) /\ ~IsLost(p)
    BY <2>1, <2>2
  <2> QED BY <1>1, <1>2, <1>7, <1>8, <2>3, TablesKept DEF ExactInv
<1>10. PhaseInv'
  BY <1>1, <1>2, <1>4 DEF PhaseInv
<1>11. LostInv'
  BY <1>2 DEF LostInv
<1> QED BY <1>1, <1>6, <1>8, <1>9, <1>10, <1>11, TablesKept DEF DirectInvariant, NoClash

-----------------------------------------------------------------------------
(* The steps that write entries.                                           *)

\* Where the next entry is written: at the start of a block that lies within
\* the region, past all that is mapped, where no entry is in the way.
LEMMA AtEntry ==
    ASSUME DirectInvariant, pc = "map", Below(vaddr, vend)
    PROVE  /\ vaddr < vend /\ ~Across(vaddr, vend)
           /\ LeafLevel \in 1 .. 3 /\ LeafLevel \in Levels
           /\ vaddr \in PageNumbers /\ vaddr \in Nat
           /\ vaddr % Span(LeafLevel) = 0 /\ vaddr + Span(LeafLevel) <= vend
           /\ start <= vaddr /\ vend = pfn /\ pfn <= limit
           /\ \A p \in PageNumbers : HasLeaf(p) => p < vaddr
           /\ \A q \in Nat : Same(LeafLevel, q, vaddr) <=>
                                vaddr <= q /\ q < vaddr + Span(LeafLevel)
           /\ Entry(LeafLevel, vaddr) = None
           /\ \A m \in LeafLevel + 1 .. 4 : Entry(m, vaddr) \in {None, Table}
<1> DEFINE L == LeafLevel  n == Span(L)  v == vaddr
<1>1. pc \in Mapping /\ pc \notin Between
  BY DEF Mapping, Between
<1>2. phase \in 1 .. 5
  BY <1>1 DEF DirectInvariant, DirectType
<1>3. L \in 1 .. 3 /\ L \in Levels /\ n \in Nat \ {0}
  <2>1. PageLevel(1) = 1 /\ PageLevel(2) = 2 /\ PageLevel(3) = 3 /\ PageLevel(4) = 2 /\ PageLevel(5) = 1
    BY DEF PageLevel
  <2>2. L \in 1 .. 3 /\ L \in Levels
    BY <1>2, <2>1 DEF LeafLevel, Levels
  <2> QED BY <2>2, SpanIs
<1>4. /\ start <= v /\ v <= vend /\ vend = pfn /\ v % n = 0 /\ vend % n = 0
      /\ i # 0 /\ start = FirstPage(regions[i]) /\ pfn <= limit
  BY <1>1 DEF DirectInvariant, PhaseInv, InPhase, LeafLevel, AtPhase
<1>5. /\ v \in PageNumbers /\ v \in Nat /\ vend \in Nat /\ start \in Nat /\ pfn \in Nat
      /\ limit \in Nat /\ i \in DOMAIN regions /\ i \in Nat \ {0}
  BY <1>4, ControlIs DEF DirectInvariant, DirectType
<1>a. v < vend /\ ~Across(v, vend)
  BY <1>4, <1>5, BelowIs
<1>6. v + n <= vend
  BY <1>3, <1>4, <1>5, <1>a, MultiplesApart
<1>7. ASSUME NEW p \in PageNumbers, HasLeaf(p) PROVE p < v
  <2>1. Current = v /\ DoneRegions = 1 .. i - 1
    BY <1>1 DEF Current, DoneRegions
  <2>2. InDone(p) \/ (start <= p /\ p < v)
    BY <1>7, <2>1 DEF DirectInvariant, ExactInv
  <2>3. ASSUME NEW j \in 1 .. i - 1, p \in WholePages(regions[j]) PROVE p < v
    <3>1. j \in DOMAIN regions /\ j < i
      BY <1>5, ControlIs
    <3>2. /\ FirstPage(regions[j]) \in Nat /\ LimitPage(regions[j]) \in Nat
          /\ LimitPage(regions[j]) <= start
      BY <1>4, <1>5, <3>1, PagesInOrder DEF DirectInvariant, DirectType, PageNumbers
    <3>3. p < LimitPage(regions[j])
      BY <2>3, <3>2 DEF WholePages
    <3> QED BY <1>4, <1>5, <3>2, <3>3 DEF PageNumbers
  <2> QED BY <2>1, <2>2, <2>3 DEF InDone
<1>8. ASSUME NEW q \in Nat PROVE Same(L, q, v) <=> v <= q /\ q < v + n
  <2>1. Same(L, q, v) <=> ROUND_DOWN(q, n) = ROUND_DOWN(v, n)
    BY <1>3, <1>5, SameQuotient DEF Same
  <2>2. ROUND_DOWN(v, n) = v
    BY <1>3, <1>4, <1>5, DownIs
  <2>3. /\ ROUND_DOWN(q, n) \in Nat /\ ROUND_DOWN(q, n) <= q /\ q < ROUND_DOWN(q, n) + n
        /\ ROUND_DOWN(q, n) % n = 0
    BY <1>3, DownIs
  <2>4. v <= q => v <= ROUND_DOWN(q, n)
    BY <1>3, <1>4, <1>5, DownLargest
  <2>5. v < ROUND_DOWN(q, n) => v + n <= ROUND_DOWN(q, n)
    BY <1>3, <1>4, <1>5, <2>3, MultiplesApart
  <2> HIDE DEF n, v
  <2>6. v \in Nat /\ n \in Nat
    BY <1>3, <1>5
  <2>7. ROUND_DOWN(q, n) = v <=> v <= q /\ q < v + n
    BY <2>3, <2>4, <2>5, <2>6
  <2> QED BY <2>1, <2>2, <2>7
<1>9. \A l \in Levels : /\ \/ Entry(l, v) = None
                           \/ Entry(l, v) = Table /\ l # 1
                           \/ Entry(l, v) = Leaf(ROUND_DOWN(v, Span(l))) /\ l # 4
                        /\ Entry(l, v) = Table /\ l # 4 =>
                              \E q \in PageNumbers : Same(l, v, q) /\ HasLeaf(q)
  BY <1>5 DEF DirectInvariant, TreeInv
<1>10. ~HasLeaf(v)
  BY <1>5, <1>7
<1>11. \A l \in Levels : Entry(l, v) \in {None, Table}
  <2>1. ASSUME NEW l \in Levels, Entry(l, v) = Leaf(ROUND_DOWN(v, Span(l))), l # 4 PROVE FALSE
    <3>1. Entry(l, v).kind = "page" /\ l \in 1 .. 3
      BY <2>1 DEF Leaf, Levels
    <3> QED BY <1>10, <3>1 DEF HasLeaf
  <2> QED BY <1>9, <2>1
<1>12. Entry(L, v) # Table
  <2> SUFFICES ASSUME NEW q \in PageNumbers, Same(L, v, q), HasLeaf(q) PROVE FALSE
    BY <1>3, <1>9
  <2>1. q < v /\ q \in Nat
    BY <1>7, DirectMapAssumption DEF PageNumbers
  <2>2. Same(L, q, v)
    BY DEF Same
  <2>3. v <= q
    BY <1>8, <2>1, <2>2
  <2> QED BY <1>5, <2>1, <2>3
<1>13. \A m \in L + 1 .. 4 : m \in Levels
  BY <1>3 DEF Levels
<1> QED BY <1>3, <1>4, <1>5, <1>6, <1>7, <1>8, <1>11, <1>12, <1>13, <1>a

LEMMA MapHaltStep ==
    ASSUME DirectInvariant, MapHalt
    PROVE  DirectInvariant'
<1>1. /\ pc = "map" /\ Below(vaddr, vend)
      /\ pc' = IF Clash THEN "clash" ELSE "nomem"
      /\ regions' = regions /\ ent' = ent /\ phase' = phase
      /\ i' = i /\ start' = start /\ pfn' = pfn /\ limit' = limit
      /\ vaddr' = vaddr /\ vend' = vend
      /\ max_pfn_mapped' = max_pfn_mapped /\ max_low_pfn_mapped' = max_low_pfn_mapped
  BY DEF MapHalt, highest, region
<1>2. ~Clash
  <2>1. None.kind # "page" /\ Table.kind # "page"
    BY DEF None, Table
  <2> QED BY <1>1, <2>1, AtEntry DEF Clash
<1>3. /\ pc' = "nomem" /\ pc \in Mapping /\ pc' \in Mapping /\ pc \notin Between /\ pc' \notin Between
      /\ pc' # "done" /\ pc' # "phase" /\ pc' # "clash"
  BY <1>1, <1>2 DEF Mapping, Between
<1>4. DirectType'
  BY <1>1, <1>3, TablesKept DEF DirectInvariant, DirectType
<1>5. DoneRegions' = DoneRegions /\ Current' = Current
  BY <1>1, <1>3 DEF DoneRegions, Current
<1>6. HighestInv' /\ \A p : InDone(p)' <=> InDone(p)
  BY <1>1, <1>5, DoneKept
<1>7. ExactInv'
  BY <1>1, <1>3, <1>5, <1>6, TablesKept DEF DirectInvariant, ExactInv
<1>8. PhaseInv'
  BY <1>1, <1>3 DEF DirectInvariant, PhaseInv
<1>9. LostInv'
  <2>1. Across(vaddr, vend)' <=> Across(vaddr, vend)
    BY <1>1 DEF Across
  <2> QED BY <1>1, <1>3, <2>1, TablesKept DEF DirectInvariant, LostInv
<1> QED BY <1>1, <1>3, <1>4, <1>6, <1>7, <1>8, <1>9, TablesKept DEF DirectInvariant, NoClash

\* What the step that writes an entry leaves in the tables.
LEMMA EntryAfter ==
    ASSUME DirectInvariant, MapEntry
    PROVE  /\ EntType'
           /\ \A l \in Levels : \A q \in PageNumbers :
                 Entry(l, q)' = IF Same(l, q, vaddr) /\ l = LeafLevel THEN Leaf(vaddr)
                                ELSE IF Same(l, q, vaddr) /\ l \in Missing THEN Table
                                ELSE Entry(l, q)
<1>1. pc = "map" /\ Below(vaddr, vend)
  BY DEF MapEntry
<1>2. LeafLevel \in 1 .. 3 /\ LeafLevel \in Levels /\ vaddr \in PageNumbers /\ vaddr \in Nat
  BY <1>1, AtEntry
<1> DEFINE K(l) == 0 .. MaxPages \div Span(l)
           new(l) == IF l = LeafLevel THEN [ent[l] EXCEPT ![vaddr \div Span(l)] = Leaf(vaddr)]
                     ELSE IF l \in Missing THEN [ent[l] EXCEPT ![vaddr \div Span(l)] = Table]
                          ELSE ent[l]
<1>3. ent' = [l \in Levels |-> new(l)]
  BY DEF MapEntry
<1>4. \A l \in Levels : ent[l] \in [K(l) -> TreeEntries] /\ vaddr \div Span(l) \in K(l)
  BY <1>2, EntryIs DEF DirectInvariant, DirectType, EntType
<1>5. Leaf(vaddr) \in TreeEntries /\ Table \in TreeEntries
  BY <1>2 DEF Leaf, Table, TreeEntries
<1> HIDE DEF K
<1>6. \A l \in Levels : new(l) \in [K(l) -> TreeEntries]
  BY <1>4, <1>5
<1>7. \A l \in Levels : ent'[l] = new(l)
  BY <1>3
<1>8. EntType'
  <2>1. \A l \in Levels : ent'[l] \in [0 .. MaxPages \div Span(l) -> TreeEntries]
    BY <1>6, <1>7 DEF K
  <2>2. ent' = [l \in Levels |-> ent'[l]]
    <3> HIDE DEF new
    <3> QED BY <1>3
  <2> QED BY <2>1, <2>2 DEF EntType
<1>9. ASSUME NEW l \in Levels, NEW q \in PageNumbers
      PROVE  Entry(l, q)' = IF Same(l, q, vaddr) /\ l = LeafLevel THEN Leaf(vaddr)
                            ELSE IF Same(l, q, vaddr) /\ l \in Missing THEN Table
                            ELSE Entry(l, q)
  <2> DEFINE k == q \div Span(l)  k0 == vaddr \div Span(l)
  <2>1. k \in K(l) /\ k0 \in K(l)
    BY <1>4, EntryIs DEF DirectInvariant, K
  <2>2. Entry(l, q)' = new(l)[k]
    BY <1>7 DEF Entry
  <2>3. Entry(l, q) = ent[l][k] /\ (Same(l, q, vaddr) <=> k = k0)
    BY DEF Entry, Same
  <2>4. ent[l] \in [K(l) -> TreeEntries]
    BY <1>4
  <2> HIDE DEF k, k0
  <2>5. new(l) = IF l = LeafLevel THEN [ent[l] EXCEPT ![k0] = Leaf(vaddr)]
                     ELSE IF l \in Missing THEN [ent[l] EXCEPT ![k0] = Table]
                          ELSE ent[l]
    BY DEF k0
  <2> HIDE DEF new
  <2>6. CASE l = LeafLevel
    BY <2>1, <2>2, <2>3, <2>4, <2>5, <2>6
  <2>7. CASE l # LeafLevel /\ l \in Missing
    BY <2>1, <2>2, <2>3, <2>4, <2>5, <2>7
  <2>8. CASE l # LeafLevel /\ l \notin Missing
    BY <2>2, <2>3, <2>5, <2>8
  <2> QED BY <2>6, <2>7, <2>8
<1> QED BY <1>8, <1>9

LEMMA MapEntryStep ==
    ASSUME DirectInvariant, MapEntry
    PROVE  DirectInvariant'
<1>a. pc = "map" /\ Below(vaddr, vend)
  BY DEF MapEntry
<1>b. PICK L \in Levels : L = LeafLevel
  BY <1>a, AtEntry
<1>c. PICK v \in PageNumbers : v = vaddr
  BY <1>a, AtEntry
<1> DEFINE n == Span(L)
<1>1. /\ pc = "map" /\ Below(vaddr, vend) /\ pc' = pc /\ phase' = phase
      /\ vaddr' = ROUND_DOWN(v, n) + n
      /\ regions' = regions
      /\ i' = i /\ start' = start /\ pfn' = pfn /\ limit' = limit /\ vend' = vend
      /\ max_pfn_mapped' = max_pfn_mapped /\ max_low_pfn_mapped' = max_low_pfn_mapped
  BY <1>b, <1>c DEF MapEntry, highest, region
<1>2. /\ pc \in Mapping /\ pc \notin Between /\ pc # "done" /\ pc # "phase" /\ pc # "clash"
      /\ phase \in 1 .. 5
  BY <1>1 DEF Mapping, Between, DirectInvariant, DirectType
<1>3. /\ L \in 1 .. 3 /\ L \in Levels /\ v \in PageNumbers /\ v \in Nat /\ n \in Nat \ {0}
      /\ v % n = 0 /\ v + n <= vend /\ start <= v /\ vend = pfn /\ pfn <= limit
      /\ vend \in Nat /\ start \in Nat /\ limit \in Nat /\ pfn \in Nat
  BY <1>1, <1>b, <1>c, AtEntry, SpanIs, ControlIs
<1>4. \A q \in PageNumbers : q \in Nat /\ (Same(L, q, v) <=> v <= q /\ q < v + n)
  BY <1>1, <1>b, <1>c, AtEntry, DirectMapAssumption DEF PageNumbers
<1>5. Entry(L, v) = None /\ \A m \in L + 1 .. 4 : Entry(m, v) \in {None, Table}
  BY <1>1, <1>b, <1>c, AtEntry
<1>6. /\ EntType'
      /\ \A l \in Levels : \A q \in PageNumbers :
            Entry(l, q)' = IF Same(l, q, v) /\ l = L THEN Leaf(v)
                           ELSE IF Same(l, q, v) /\ l \in Missing THEN Table
                           ELSE Entry(l, q)
  BY <1>b, <1>c, EntryAfter
<1>7. \A l \in Levels : l \in Missing <=> l \in L + 1 .. 4 /\ Entry(l, v) = None
  BY <1>b, <1>c DEF Missing
<1>8. \A l, q : Same(l, q, v) => Entry(l, q) = Entry(l, v)
  BY DEF Same, Entry
<1>9. /\ None.kind = "none" /\ Table.kind = "table" /\ None # Table
      /\ \A q : Leaf(q).kind = "page" /\ Leaf(q) # None /\ Leaf(q) # Table
  BY DEF None, Table, Leaf
<1>10. vaddr' = v + n
  BY <1>1, <1>3, DownIs
<1> HIDE DEF n
<1>11. ASSUME NEW l \in Levels, NEW q \in PageNumbers, Entry(l, q).kind = "page"
       PROVE  Entry(l, q)'.kind = "page"
  <2>1. l \in Missing => ~Same(l, q, v)
    BY <1>7, <1>8, <1>9, <1>11
  <2> QED BY <1>6, <1>9, <1>11, <2>1
<1>12. \A q \in PageNumbers : HasLeaf(q)' <=> HasLeaf(q) \/ (v <= q /\ q < v + n)
  <2> SUFFICES ASSUME NEW q \in PageNumbers
               PROVE  HasLeaf(q)' <=> HasLeaf(q) \/ Same(L, q, v)
    BY <1>4
  <2>1. \A k \in 1 .. 3 : k \in Levels
    BY DEF Levels
  <2>2. HasLeaf(q) => HasLeaf(q)'
    BY <1>11, <2>1 DEF HasLeaf
  <2>3. Same(L, q, v) => HasLeaf(q)'
    <3>1. Same(L, q, v) => Entry(L, q)'.kind = "page"
      BY <1>3, <1>6, <1>9
    <3> QED BY <1>3, <3>1 DEF HasLeaf
  <2>4. ASSUME NEW k \in 1 .. 3, Entry(k, q)'.kind = "page", ~Same(L, q, v) PROVE HasLeaf(q)
    <3>1. Entry(k, q)' = Entry(k, q)
      BY <1>6, <1>9, <2>1, <2>4
    <3> QED BY <2>4, <3>1 DEF HasLeaf
  <2> QED BY <2>2, <2>3, <2>4 DEF HasLeaf
<1>13. /\ LayoutInv' /\ DirectType'
  <2>1. v + n \in PageNumbers
    BY <1>3, ControlIs DEF PageNumbers
  <2>2. LayoutInv'
    BY <1>1 DEF DirectInvariant, DirectType, LayoutInv, Ordered
  <2> QED BY <1>1, <1>2, <1>6, <1>10, <2>1, <2>2 DEF DirectInvariant, DirectType
<1>14. TreeInv'
  <2> SUFFICES ASSUME NEW p \in PageNumbers, NEW l \in Levels
               PROVE  /\ \/ Entry(l, p)' = None
                         \/ Entry(l, p)' = Table /\ l # 1
                         \/ Entry(l, p)' = Leaf(ROUND_DOWN(p, Span(l))) /\ l # 4
                      /\ \A m \in Levels : l < m /\ Entry(l, p)' # None => Entry(m, p)' = Table
                      /\ Entry(l, p)' = Table =>
                            \/ l = 4 /\ p < Wrap
                            \/ \E q \in PageNumbers : Same(l, p, q) /\ HasLeaf(q)'
    BY DEF TreeInv
  <2>1. /\ \/ Entry(l, p) = None
           \/ Entry(l, p) = Table /\ l # 1
           \/ Entry(l, p) = Leaf(ROUND_DOWN(p, Span(l))) /\ l # 4
        /\ \A m \in Levels : l < m /\ Entry(l, p) # None => Entry(m, p) = Table
        /\ Entry(l, p) = Table =>
              \/ l = 4 /\ p < Wrap
              \/ \E q \in PageNumbers : Same(l, p, q) /\ HasLeaf(q)
    BY DEF DirectInvariant, TreeInv
  <2>2. \/ Entry(l, p)' = None
        \/ Entry(l, p)' = Table /\ l # 1
        \/ Entry(l, p)' = Leaf(ROUND_DOWN(p, Span(l))) /\ l # 4
    <3>1. CASE Same(l, p, v) /\ l = L
      <4>1. ROUND_DOWN(p, n) = ROUND_DOWN(v, n)
        BY <1>3, <1>4, <3>1, SameQuotient DEF Same, n
      <4>2. ROUND_DOWN(v, n) = v
        BY <1>3, DownIs
      <4> QED BY <1>3, <1>6, <3>1, <4>1, <4>2 DEF n
    <3>2. CASE l # L /\ Same(l, p, v) /\ l \in Missing
      BY <1>3, <1>6, <1>7, <3>2
    <3>3. CASE ~Same(l, p, v) \/ (l # L /\ l \notin Missing)
      BY <1>6, <2>1, <3>3
    <3> QED BY <3>1, <3>2, <3>3
  <2>3. ASSUME NEW m \in Levels, l < m, Entry(l, p)' # None PROVE Entry(m, p)' = Table
    <3>1. CASE Entry(l, p) # None
      <4>1. Entry(m, p) = Table
        BY <2>1, <2>3, <3>1
      <4>2. ~(Same(m, p, v) /\ m = L)
        BY <1>5, <1>8, <1>9, <4>1
      <4> QED BY <1>6, <4>1, <4>2
    <3>2. CASE Entry(l, p) = None
      <4>1. Same(l, p, v) /\ (l = L \/ l \in Missing)
        BY <1>6, <2>3, <3>2
      <4>2. Same(m, p, v)
        BY <1>3, <1>4, <2>3, <4>1, SameAbove DEF Levels
      <4>3. m \in L + 1 .. 4 /\ m # L
        BY <1>3, <1>7, <2>3, <4>1 DEF Levels
      <4>4. Entry(m, v) = None => m \in Missing
        BY <1>7, <4>3
      <4>5. Entry(m, v) = Table => m \notin Missing /\ Entry(m, p) = Table
        BY <1>7, <1>8, <1>9, <4>2
      <4> QED BY <1>5, <1>6, <4>2, <4>3, <4>4, <4>5
    <3> QED BY <3>1, <3>2
  <2>4. ASSUME Entry(l, p)' = Table, ~(l = 4 /\ p < Wrap)
        PROVE  \E q \in PageNumbers : Same(l, p, q) /\ HasLeaf(q)'
    <3>1. CASE Entry(l, p) = Table
      <4>1. PICK q \in PageNumbers : Same(l, p, q) /\ HasLeaf(q)
        BY <2>1, <2>4, <3>1
      <4> QED BY <1>12, <4>1
    <3>2. CASE Entry(l, p) # Table
      <4>1. Same(l, p, v)
        BY <1>6, <2>4, <3>2
      <4>2. HasLeaf(v)'
        BY <1>3, <1>12
      <4> QED BY <1>3, <4>1, <4>2
    <3> QED BY <3>1, <3>2
  <2> QED BY <2>2, <2>3, <2>4
<1>15. DoneRegions' = DoneRegions
  BY <1>1, <1>2 DEF DoneRegions
<1>16. HighestInv' /\ \A p : InDone(p)' <=> InDone(p)
  BY <1>1, <1>15, DoneKept
<1>21. ~Across(v, vend) /\ v < vend /\ Wrap \in Nat
  BY <1>1, <1>c, AtEntry, WrapIs
<1>22. \A p : IsLost(p)' <=> IsLost(p)
  BY <1>1 DEF IsLost
<1>23. LostInv'
  <2>1. ~Across(vaddr, vend)'
    BY <1>1, <1>3, <1>10, <1>21 DEF Across
  <2>2. \A p \in PageNumbers : v + n <= p /\ p < vend => ~IsLost(p)
    BY <1>2, <1>3, <1>4, <1>c, <1>21 DEF DirectInvariant, LostInv
  <2> QED BY <1>1, <1>2, <1>10, <1>22, <2>1, <2>2 DEF LostInv
<1>17. ExactInv'
  <2>1. Current = v /\ Current' = v + n /\ pc' \notin Between
    BY <1>1, <1>2, <1>10, <1>c DEF Current
  <2>2. \A p \in PageNumbers :
           HasLeaf(p) <=> (InDone(p) \/ (start <= p /\ p < v)) /\ ~IsLost(p)
    BY <1>2, <2>1 DEF DirectInvariant, ExactInv
  <2>3. \A p \in PageNumbers : v <= p /\ p < v + n => ~IsLost(p)
    BY <1>2, <1>3, <1>4, <1>c, <1>21 DEF DirectInvariant, LostInv
  <2>4. \A p \in PageNumbers :
           HasLeaf(p)' <=> (InDone(p) \/ (start <= p /\ p < v + n)) /\ ~IsLost(p)
    BY <1>3, <1>4, <1>12, <2>2, <2>3
  <2> QED BY <1>1, <1>16, <1>22, <2>1, <2>4 DEF ExactInv
<1>18. InPhase(phase, start, v, vend, limit)
  BY <1>2, <1>c DEF DirectInvariant, PhaseInv
<1>19. PhaseInv'
  <2>1. (v + n) % n = 0
    <3> DEFINE q == v \div n
    <3>1. q \in Nat /\ v = q * n + (v % n)
      BY <1>3, DivisionIs
    <3>2. q * n \in Nat
      BY <1>3, <3>1
    <3>3. v = q * n
      BY <1>3, <3>1, <3>2
    <3> HIDE DEF q
    <3>4. (q + 1) * n + 0 = v + n /\ 0 \in 0 .. n - 1
      BY <1>3, <3>1, <3>3
    <3>5. ((q + 1) * n + 0) % n = 0
      BY <1>3, <3>1, <3>4, DivisionOf
    <3> QED BY <3>4, <3>5
  <2>2. n = Span(PageLevel(phase))
    BY <1>b DEF n, LeafLevel
  <2>3. \A x \in Nat : ROUND_DOWN(x, Span(2)) \in Nat /\ ROUND_DOWN(x, Span(3)) \in Nat
    BY Roundings
  <2>4. InPhase(phase, start, v + n, vend, limit)
    BY <1>3, <1>18, <2>1, <2>2, <2>3 DEF InPhase
  <2> QED BY <1>1, <1>2, <1>10, <2>4 DEF DirectInvariant, PhaseInv
<1>20. LargeInv'
  <2> SUFFICES ASSUME NEW j \in DOMAIN regions, NEW p \in PageNumbers, HasLeaf(p)'
               PROVE  LET first == FirstPage(regions[j])
                          last  == LimitPage(regions[j])
                          inside(l) == /\ ROUND_UP(first, Span(l)) <= p
                                       /\ p < ROUND_DOWN(last, Span(l))
                      IN  /\ inside(3) => Entry(3, p)'.kind = "page"
                          /\ inside(2) => \E l \in {2, 3} : Entry(l, p)'.kind = "page"
    BY <1>1 DEF LargeInv
  <2> DEFINE first == FirstPage(regions[j])  last == LimitPage(regions[j])
             inside(l) == /\ ROUND_UP(first, Span(l)) <= p /\ p < ROUND_DOWN(last, Span(l))
  <2>1. 2 \in Levels /\ 3 \in Levels /\ {2, 3} \subseteq Levels
    BY DEF Levels
  <2>2. CASE HasLeaf(p)
    <3>1. /\ inside(3) => Entry(3, p).kind = "page"
          /\ inside(2) => \E l \in {2, 3} : Entry(l, p).kind = "page"
      BY <2>2 DEF DirectInvariant, LargeInv
    <3> QED BY <1>11, <2>1, <3>1
  <2>3. CASE ~HasLeaf(p)
    <3>1. v <= p /\ p < v + n /\ Same(L, p, v) /\ p \in Nat
      BY <1>4, <1>12, <2>3
    <3>2. Entry(L, p)'.kind = "page"
      BY <1>3, <1>6, <1>9, <3>1
    <3>3. /\ first \in Nat /\ last \in Nat
          /\ \A l \in {2, 3} : inside(l) => first <= p /\ p < last
      <4>1. first \in Nat /\ last \in Nat
        BY PagesInOrder DEF DirectInvariant, DirectType, PageNumbers
      <4>2. \A l \in {2, 3} : /\ ROUND_UP(first, Span(l)) \in Nat /\ first <= ROUND_UP(first, Span(l))
                              /\ ROUND_DOWN(last, Span(l)) \in Nat /\ ROUND_DOWN(last, Span(l)) <= last
        BY <4>1, Roundings
      <4> HIDE DEF first, last
      <4> QED BY <3>1, <4>1, <4>2
    <3>4. /\ i \in DOMAIN regions /\ i \in Nat /\ j \in Nat
          /\ start = FirstPage(regions[i]) /\ limit = LimitPage(regions[i])
      BY <1>2, ControlIs DEF DirectInvariant, PhaseInv
    <3>5. p < limit /\ start <= p
      BY <1>3, <3>1
    <3>6. j # i => \A l \in {2, 3} : ~inside(l)
      <4>1. j < i => last <= start
        BY <3>4, PagesInOrder DEF DirectInvariant, DirectType
      <4>2. i < j => limit <= first
        BY <3>4, PagesInOrder DEF DirectInvariant, DirectType
      <4> HIDE DEF first, last, inside
      <4> QED BY <1>3, <3>1, <3>3, <3>4, <3>5, <4>1, <4>2
    <3>7. CASE j = i
      <4> DEFINE u2 == ROUND_UP(start, Span(2))  u3 == ROUND_UP(start, Span(3))
                 d2 == ROUND_DOWN(limit, Span(2))  d3 == ROUND_DOWN(limit, Span(3))
      <4>1. inside(2) <=> u2 <= p /\ p < d2
        BY <3>4, <3>7
      <4>2. inside(3) <=> u3 <= p /\ p < d3
        BY <3>4, <3>7
      <4>3. u2 \in Nat /\ u3 \in Nat /\ d2 \in Nat /\ d3 \in Nat
        BY <1>3, Roundings
      <4>4. u2 <= u3 /\ d3 <= d2
        <5>1. u3 % Span(2) = 0 /\ d3 % Span(2) = 0 /\ start <= u3 /\ d3 <= limit
          BY <1>3, <4>3, Roundings
        <5> QED BY <1>3, <4>3, <5>1, Roundings
      <4>5. /\ L = PageLevel(phase)
            /\ PageLevel(1) = 1 /\ PageLevel(2) = 2 /\ PageLevel(3) = 3
            /\ PageLevel(4) = 2 /\ PageLevel(5) = 1
        BY <1>b DEF LeafLevel, PageLevel
      <4>6. /\ phase = 1 => vend <= u2
            /\ phase = 2 => vend <= u3
            /\ phase = 4 => v >= d3
            /\ phase = 5 => v >= d2
        BY <1>18 DEF InPhase
      <4> SUFFICES /\ inside(3) => Entry(3, p)'.kind = "page"
                   /\ inside(2) => \E l \in {2, 3} : Entry(l, p)'.kind = "page"
        OBVIOUS
      <4> HIDE DEF inside, u2, u3, d2, d3
      <4>7. CASE phase = 1
        BY <1>3, <3>1, <4>1, <4>2, <4>3, <4>4, <4>6, <4>7
      <4>8. CASE phase = 2
        BY <1>3, <3>1, <3>2, <4>1, <4>2, <4>3, <4>4, <4>5, <4>6, <4>8
      <4>9. CASE phase = 3
        BY <3>2, <4>5, <4>9
      <4>10. CASE phase = 4
        BY <1>3, <3>1, <3>2, <4>1, <4>2, <4>3, <4>4, <4>5, <4>6, <4>10
      <4>11. CASE phase = 5
        BY <1>3, <3>1, <4>1, <4>2, <4>3, <4>4, <4>6, <4>11
      <4> QED BY <1>2, <4>7, <4>8, <4>9, <4>10, <4>11
    <3> QED BY <3>6, <3>7
  <2> QED BY <2>2, <2>3
<1> QED BY <1>1, <1>2, <1>13, <1>14, <1>16, <1>17, <1>19, <1>20, <1>23 DEF DirectInvariant, NoClash

-----------------------------------------------------------------------------
(* The theorems.                                                           *)

LEMMA DirectStart ==
    ASSUME NEW rs, StartMapping(rs), rs = <<>> \/ rs \in Layouts
    PROVE  DirectInvariant
<1>1. /\ regions = rs /\ pc = "next" /\ i = 0 /\ phase = 1 /\ start = 0 /\ pfn = 0
      /\ limit = 0 /\ vaddr = 0 /\ vend = 0 /\ max_pfn_mapped = 0 /\ max_low_pfn_mapped = 0
      /\ ent = [l \in Levels |-> [k \in 0 .. MaxPages \div Span(l) |->
                                   IF l = 4 /\ k = 0 THEN Table ELSE None]]
  BY DEF StartMapping
<1>2. LayoutInv
  <2>1. CASE rs = <<>>
    BY <1>1, <2>1 DEF LayoutInv, Ordered
  <2>2. CASE rs \in Layouts
    <3>1. /\ rs \in Seq([base : Nat, size : Nat])
          /\ Ordered(rs)
          /\ \A j \in DOMAIN rs : rs[j].base + rs[j].size <= MaxPages * PAGE_SIZE
      BY <2>2, DirectMapAssumption
    <3> QED BY <1>1, <3>1 DEF LayoutInv
  <2> QED BY <2>1, <2>2
<1>3. None \in TreeEntries /\ Table \in TreeEntries
  BY DEF None, Table, TreeEntries
<1>4. EntType
  BY <1>1, <1>3 DEF EntType
<1>5. 0 \in PageNumbers
  BY DirectMapAssumption DEF PageNumbers
<1>6. Len(regions) \in Nat
  BY <1>2 DEF LayoutInv
<1>7. DirectType
  BY <1>1, <1>2, <1>4, <1>5, <1>6 DEF DirectType, Between, Mapping
<1>8. \A l \in Levels : \A p \in PageNumbers :
         Entry(l, p) = IF l = 4 /\ p < Wrap THEN Table ELSE None
  <2> TAKE l \in Levels
  <2> TAKE p \in PageNumbers
  <2>1. p \div Span(l) \in 0 .. MaxPages \div Span(l) /\ p \in Nat /\ Span(l) \in Nat \ {0}
    BY <1>7, EntryIs, SpanIs
  <2>2. Entry(l, p) = IF l = 4 /\ p \div Span(l) = 0 THEN Table ELSE None
    BY <1>1, <2>1 DEF Entry
  <2>3. p \div Span(l) = 0 <=> p < Span(l)
    <3>1. ROUND_DOWN(p, Span(l)) = (p \div Span(l)) * Span(l) /\ p < ROUND_DOWN(p, Span(l)) + Span(l)
      BY <2>1, DownIs
    <3>2. p < Span(l) => p \div Span(l) = 0
      <4>1. p < Span(l) => p = 0 * Span(l) + p /\ p \in 0 .. Span(l) - 1
        BY <2>1
      <4>2. p < Span(l) => (0 * Span(l) + p) \div Span(l) = 0
        BY <2>1, <4>1, DivisionOf
      <4> QED BY <4>1, <4>2
    <3>3. p \div Span(l) = 0 => p < Span(l)
      BY <2>1, <3>1
    <3> QED BY <3>2, <3>3
  <2> QED BY <2>2, <2>3 DEF Wrap
<1>9. None.kind = "none" /\ None # Table /\ (\A l, m \in Levels : l < m => l # 4)
  BY DEF None, Table, Levels
<1>10. \A p \in PageNumbers : ~HasLeaf(p)
  <2>1. \A l \in 1 .. 3 : l \in Levels /\ l # 4
    BY DEF Levels
  <2> QED BY <1>8, <1>9, <2>1 DEF HasLeaf
<1>11. TreeInv
  BY <1>8, <1>9 DEF TreeInv
<1>12. \A p : ~InDone(p)
  BY <1>1 DEF InDone, DoneRegions, Between
<1>13. ExactInv
  BY <1>1, <1>10, <1>12 DEF ExactInv, Between
<1>14. PhaseInv
  BY <1>1 DEF PhaseInv, Between, Mapping
<1>15. LargeInv
  BY <1>10 DEF LargeInv
<1>16. HighestInv
  BY <1>1, <1>12 DEF HighestInv
<1>17. LostInv
  BY <1>1 DEF LostInv, Mapping
<1> QED BY <1>1, <1>7, <1>11, <1>13, <1>14, <1>15, <1>16, <1>17 DEF DirectInvariant, NoClash

LEMMA DirectStep ==
    ASSUME DirectInvariant, [Next]_vars
    PROVE  DirectInvariant'
<1>1. CASE Next
  BY <1>1, NextRegionStep, FinishStep, PhaseSkipStep, PhaseMapStep, RegionDoneStep,
     MapEntryStep, MapHaltStep, MapDoneStep DEF Next
<1>2. CASE UNCHANGED vars
  <2>1. /\ regions' = regions /\ ent' = ent /\ pc' = pc /\ i' = i /\ phase' = phase
        /\ start' = start /\ pfn' = pfn /\ limit' = limit /\ vaddr' = vaddr /\ vend' = vend
        /\ max_pfn_mapped' = max_pfn_mapped /\ max_low_pfn_mapped' = max_low_pfn_mapped
    BY <1>2 DEF vars, region, highest
  <2>2. DoneRegions' = DoneRegions /\ Current' = Current
    BY <2>1 DEF DoneRegions, Current
  <2>3. HighestInv' /\ \A p : InDone(p)' <=> InDone(p)
    BY <2>1, <2>2, DoneKept
  <2>4. ExactInv'
    BY <2>1, <2>2, <2>3, TablesKept DEF DirectInvariant, ExactInv
  <2>5. PhaseInv'
    BY <2>1 DEF DirectInvariant, PhaseInv
  <2>6. DirectType'
    BY <2>1, TablesKept DEF DirectInvariant, DirectType
  <2>7. LostInv'
    <3>1. Across(vaddr, vend)' <=> Across(vaddr, vend)
      BY <2>1 DEF Across
    <3> QED BY <2>1, <3>1, TablesKept DEF DirectInvariant, LostInv
  <2> QED BY <2>1, <2>3, <2>4, <2>5, <2>6, <2>7, TablesKept DEF DirectInvariant, NoClash
<1> QED BY <1>1, <1>2

LEMMA DirectAlways == PagingSpec => []DirectInvariant
<1>1. PagingInit => DirectInvariant
  BY DirectStart DEF PagingInit, Init
<1>2. ASSUME DirectInvariant, [PagingNext]_pagingVars PROVE DirectInvariant'
  <2>1. [Next]_vars
    BY <1>2 DEF PagingNext, pagingVars
  <2> QED BY <1>2, <2>1, DirectStep
<1> QED BY <1>1, <1>2, PTL DEF PagingSpec

\* init_mem_mapping maps no page that is not memory, maps each to itself, and
\* never finds an entry in its way.
THEOREM OnlyMemoryMapped == PagingSpec => []OnlyMemory
<1>1. DirectInvariant => OnlyMemory
  BY PropertiesHold
<1> QED BY <1>1, DirectAlways, PTL

\* When init_mem_mapping is done, the whole pages of memory it has not mapped are
\* exactly those the wrap of __va loses, in regions that reach it; max_pfn_mapped
\* and max_low_pfn_mapped cover every page it was given, the lost ones too.
THEOREM AllMemoryMapped == PagingSpec => []AllMapped
<1>1. DirectInvariant => AllMapped
  BY PropertiesHold
<1> QED BY <1>1, DirectAlways, PTL

\* init_range_memory_mapping splits a region so that every aligned block of it,
\* but for the pages the wrap of __va loses, is mapped by a page at least as large.
THEOREM LargestPagesUsed == PagingSpec => []LargestPages
<1>1. DirectInvariant => LargestPages
  BY PropertiesHold
<1> QED BY <1>1, DirectAlways, PTL
=============================================================================
