----------------------------- MODULE CacheModes -----------------------------
(***************************************************************************)
(* Cache modes (arch/x86/ukernel/cache.c): the page attribute table (PAT)  *)
(* of the processor, an MSR of eight slots, and the two tables that say    *)
(* which bits of a page table entry select a slot with a given mode.       *)
(* EarlyMap takes the steps, at their places in the boot.                  *)
(***************************************************************************)
EXTENDS Integers, FiniteSets

\* enum page_cache_mode
CacheMode == {"WB", "WT", "UC-", "UC", "WC", "WP"}

\* The modes that mappings are made with, WB (no bits) aside: UC_MINUS in
\* efifb.c, and UC in _PAGE_NOCACHE.
UsedModes == {"UC-", "UC"}

VARIABLES
    cachemode_to_pte,        \* __cachemode_to_pte: the bits for a mode
    pat_idx_to_cachemode,    \* __pat_idx_to_cachemode: the mode of a slot
    pat,                     \* the MSR
    mtrr,                    \* MSR_MTRRdefType enables the MTRRs
    mappings                 \* what was mapped, with which mode and which bits

cacheVars == <<cachemode_to_pte, pat_idx_to_cachemode, pat, mtrr, mappings>>

Slots == 0 .. 7

\* __idx_pat2pte and __pte2pat: the bits of an entry that select slot k.
BitsOf(k) == (IF k >= 4 THEN {"PAT"} ELSE {})
               \cup (IF (k \div 2) % 2 = 1 THEN {"PCD"} ELSE {})
               \cup (IF k % 2 = 1 THEN {"PWT"} ELSE {})
SlotOf(bits) == (IF "PAT" \in bits THEN 4 ELSE 0) + (IF "PCD" \in bits THEN 2 ELSE 0)
                  + (IF "PWT" \in bits THEN 1 ELSE 0)

\* The slots after a reset.
ResetPat == [k \in Slots |-> <<"WB", "WT", "UC-", "UC">>[(k % 4) + 1]]

\* The tables are for the PAT of a reset (cache.c:22-44); the two MSRs are as
\* machine m's firmware left them.
CacheInit(m) ==
    /\ cachemode_to_pte = [c \in CacheMode |->
          CASE c = "WB" -> BitsOf(0) [] c = "WT" -> BitsOf(1)
            [] c = "UC" -> BitsOf(3) [] OTHER -> BitsOf(2)]
    /\ pat_idx_to_cachemode = ResetPat
    /\ pat = m.pat
    /\ mtrr = m.mtrr
    /\ mappings = {}

cachemode2protval(m) == IF m = "WB" THEN {} ELSE cachemode_to_pte[m]

pgprot2cachemode(bits) == IF bits = {} THEN "WB" ELSE pat_idx_to_cachemode[SlotOf(bits)]

-----------------------------------------------------------------------------

\* (Mutant of PatMsrVal: write-combining takes the slot of UC-.)
PatMsrValMoves == [k \in Slots |-> <<"WB", "WT", "WC", "UC", "WB", "WP", "UC-", "WT">>[k + 1]]

\* PAT_VALUE(WB, WC, UC_MINUS, UC, WB, WP, UC_MINUS, WT)
PatMsrVal == [k \in Slots |-> <<"WB", "WC", "UC-", "UC", "WB", "WP", "UC-", "WT">>[k + 1]]

\* init_cache_modes updates slot after slot, so that the last slot of a mode
\* is the one in use; update_cache_mode_entry stops the kernel if slot 0 is
\* not WB.
pat_bp_init ==
    /\ PatMsrVal[0] = "WB"
    /\ cachemode_to_pte' = [m \in CacheMode |->
          LET ks == {k \in Slots : PatMsrVal[k] = m}
          IN  IF ks = {} THEN cachemode_to_pte[m]
              ELSE BitsOf(CHOOSE k \in ks : \A j \in ks : j <= k)]
    /\ pat_idx_to_cachemode' = PatMsrVal
    /\ UNCHANGED <<pat, mtrr, mappings>>

\* Both enable bits are cleared, and so is the default type, which makes it UC.
\* The flush of the TLB in this and the next is EarlyMap's.
mtrr_cpu_init ==
    /\ mtrr' = FALSE
    /\ UNCHANGED <<cachemode_to_pte, pat_idx_to_cachemode, pat, mappings>>

pat_cpu_init ==
    /\ pat' = PatMsrVal
    /\ UNCHANGED <<cachemode_to_pte, pat_idx_to_cachemode, mtrr, mappings>>

\* A page is mapped with each of the modes in use (as efifb.c maps the screen).
MapPages ==
    /\ mappings' = mappings \cup {[mode |-> m, bits |-> cachemode2protval(m)] : m \in UsedModes}
    /\ UNCHANGED <<cachemode_to_pte, pat_idx_to_cachemode, pat, mtrr>>

-----------------------------------------------------------------------------

\* What an access gets from the processor (Intel SDM, 12.11.2.1 and 12.5.2.2): a
\* range register may override the page's mode while the MTRRs are on; when
\* they are off all memory is UC, which WC alone of the page's modes overrides.
EffectiveModes(bits) ==
    IF mtrr THEN CacheMode
    ELSE IF pat[SlotOf(bits)] = "WC" THEN {"WC"} ELSE {"UC"}
=============================================================================
