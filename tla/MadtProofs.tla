----------------------------- MODULE MadtProofs -----------------------------
(***************************************************************************)
(* Theorems about Madt, for every MADT with every kind of subtables in any *)
(* order, and every number of processors and IO-APICs the kernel takes.    *)
(***************************************************************************)
EXTENDS Madt, FiniteSetTheorems, TLAPS

-----------------------------------------------------------------------------
(* Counting the members of a set of indices up to one of them.             *)

Below(S, n) == {k \in 1 .. n : k \in S}
Rank(S, n) == Cardinality(Below(S, n))

\* The count is a natural, at most the number of indices.
LEMMA RankNat ==
    ASSUME NEW S, NEW n \in Nat
    PROVE  IsFiniteSet(Below(S, n)) /\ Rank(S, n) \in Nat /\ Rank(S, n) <= n
<1>1. IsFiniteSet(1 .. n) /\ Cardinality(1 .. n) = n
  BY FS_Interval
<1>2. Below(S, n) \in SUBSET (1 .. n)
  BY DEF Below
<1>3. IsFiniteSet(Below(S, n)) /\ Cardinality(Below(S, n)) <= n
  BY <1>1, <1>2, FS_Subset
<1> QED BY <1>3, FS_CardinalityType DEF Rank

\* Nothing is counted before the first index.
LEMMA RankZero ==
    ASSUME NEW S
    PROVE  Rank(S, 0) = 0
<1>1. Below(S, 0) = {}
  BY DEF Below
<1> QED BY <1>1, FS_EmptySet DEF Rank

\* One more index counts if it is a member.
LEMMA RankNext ==
    ASSUME NEW S, NEW n \in Nat
    PROVE  Rank(S, n + 1) = IF n + 1 \in S THEN Rank(S, n) + 1 ELSE Rank(S, n)
<1>1. CASE n + 1 \in S
  <2>1. Below(S, n + 1) = Below(S, n) \cup {n + 1}
    BY <1>1 DEF Below
  <2>2. n + 1 \notin Below(S, n)
    BY DEF Below
  <2> QED BY <2>1, <2>2, <1>1, RankNat, FS_AddElement DEF Rank
<1>2. CASE n + 1 \notin S
  <2>1. Below(S, n + 1) = Below(S, n)
    BY <1>2 DEF Below
  <2> QED BY <2>1, <1>2 DEF Rank
<1> QED BY <1>1, <1>2

\* The count never falls.
LEMMA RankMonotone ==
    ASSUME NEW S, NEW m \in Nat, NEW n \in Nat, m <= n
    PROVE  Rank(S, m) <= Rank(S, n)
<1>1. Below(S, m) \in SUBSET Below(S, n)
  BY DEF Below
<1> QED BY <1>1, RankNat, FS_Subset DEF Rank

\* A member is counted.
LEMMA RankMember ==
    ASSUME NEW S, NEW n \in Nat \ {0}, n \in S
    PROVE  Rank(S, n) >= 1
<1>1. n - 1 \in Nat /\ (n - 1) + 1 = n
  OBVIOUS
<1>2. Rank(S, (n - 1) + 1) = Rank(S, n - 1) + 1
  BY <1>1, RankNext
<1> QED BY <1>1, <1>2, RankNat

-----------------------------------------------------------------------------
(* What the passes have walked: subtables of a MADT with n of them.        *)

BeforeLapic == {"start", "LOCAL_APIC_OVERRIDE", "register", "fault"}
LapicPasses == {"LOCAL_APIC", "LOCAL_X2APIC", "LOCAL_APIC_NMI", "LOCAL_X2APIC_NMI"}
IoPasses == {"IO_APIC", "INTERRUPT_OVERRIDE", "NMI_SOURCE"}

OverWalked(p, at, n) ==
    IF p = "start" THEN 0 ELSE IF p = "LOCAL_APIC_OVERRIDE" THEN at - 1 ELSE n
ProcsWalked(p, at, n) ==
    [ty \in ProcTypes |->
        IF p = ty THEN at - 1
        ELSE IF p \in BeforeLapic \/ (p = "LOCAL_APIC" /\ ty = "LOCAL_X2APIC") THEN 0 ELSE n]
IoWalked(p, lapicFound, at, n) ==
    IF lapicFound = 0 THEN 0 ELSE IF p = "IO_APIC" THEN at - 1 ELSE n

-----------------------------------------------------------------------------
(* The inductive invariant, of the subtables t.                            *)

\* The processors listed as ty, the number of the one at k, and those walked.
ProcsAs(t, ty) == {k \in Listed(t) : t[k].type = ty}
PlaceIn(t, k) ==
    IF t[k].type = "LOCAL_APIC"
    THEN Rank(ProcsAs(t, "LOCAL_APIC"), k)
    ELSE Rank(ProcsAs(t, "LOCAL_APIC"), Len(t)) + Rank(ProcsAs(t, "LOCAL_X2APIC"), k)
NumberIn(t, k) == IF t[k].id = Bsp THEN 0 ELSE PlaceIn(t, k)
CpuIn(t, k) == [apic_id |-> t[k].id, acpi_id |-> t[k].uid]
Walked(t, w) == {k \in Listed(t) : k <= w[t[k].type]}
Registered(t, w) ==
    Rank(ProcsAs(t, "LOCAL_APIC"), w["LOCAL_APIC"]) + Rank(ProcsAs(t, "LOCAL_X2APIC"), w["LOCAL_X2APIC"])

\* The processors walked have their numbers, and no number is taken twice:
\* after c of them the next number is c + 1, or none is left.
Cpus(t, w, early, nr, gone) ==
    /\ IF Registered(t, w) < NR_CPUS THEN nr = Registered(t, w) + 1 ELSE nr >= NR_CPUS
    /\ \A k \in Walked(t, w) : NumberIn(t, k) < NR_CPUS => early[NumberIn(t, k)] = CpuIn(t, k)
    /\ \A c \in 0 .. NR_CPUS - 1 :
          early[c] # NoCpu => \E k \in Walked(t, w) : c = NumberIn(t, k) /\ early[c] = CpuIn(t, k)
    /\ gone = {t[k].id : k \in {x \in Walked(t, w) : NumberIn(t, x) >= NR_CPUS}}

\* The first IO-APICs walked are recorded, and the slots behind are empty.
Io(t) == {k \in DOMAIN t : t[k].type = "IO_APIC"}
RecordedIn(rec, fix, s, e) ==
    /\ rec[s].id = e.id /\ rec[s].phys_addr = e.address
    /\ rec[s].gsi_base = e.gsi_base
    /\ fix[s] = PageOf(e.address)
    /\ e.address % PAGE_SIZE = 0 =>
          /\ rec[s].nr_registers = Redir[e.address]
          /\ rec[s].gsi_end = e.gsi_base + Redir[e.address] - 1
Ios(t, w, rec, nr, fix) ==
    /\ nr = IF Rank(Io(t), w) < NR_IOAPIC THEN Rank(Io(t), w) ELSE NR_IOAPIC
    /\ \A k \in Io(t) :
          k <= w /\ Rank(Io(t), k) <= NR_IOAPIC => RecordedIn(rec, fix, Rank(Io(t), k) - 1, t[k])
    /\ \A s \in 0 .. NR_IOAPIC - 1 : nr <= s => rec[s] = <<>>

\* The address of the local APIC after w subtables, with a in the header.
Overrides(t, w) == {k \in 1 .. w : t[k].type = "LOCAL_APIC_OVERRIDE"}
AddressAfter(t, a, w) ==
    IF Overrides(t, w) # {} THEN t[LastOf(Overrides(t, w))].address
    ELSE IF a # 0 THEN a ELSE APIC_DEFAULT_PHYS_BASE

MadtType ==
    /\ madt.entry \in Seq(Entries) /\ OnceEach(madt.entry)
    /\ pc \in {"start", "register", "done", "fault"} \cup PassNames
    /\ pos \in 1 .. Len(madt.entry) + 1
    /\ err \in {NONE, 0} /\ count \in Nat
    /\ result \in [PassNames -> Int]
    /\ nr_assigned_cpus \in Nat
    /\ early_cpuid \in [0 .. NR_CPUS - 1 -> [apic_id : Nat, acpi_id : Nat]]
    /\ DOMAIN ioapics = 0 .. NR_IOAPIC - 1 /\ ioapics = [s \in 0 .. NR_IOAPIC - 1 |-> ioapics[s]]
    /\ nr_ioapics \in Nat
    /\ io_fixmap \in [0 .. NR_IOAPIC - 1 -> Int]
    /\ acpi_lapic \in {0, 1} /\ acpi_ioapic \in {0, 1}

\* What a pass counts is there, and what follows from a count that is not 0.
WalkInv ==
    /\ pc \notin PassNames => pos = 1
    /\ count > 0 => /\ err = 0
                    /\ \E k \in 1 .. pos - 1 : madt.entry[k].type = pc
    /\ \A p \in PassNames : result[p] > 0 => OfType(p) # {}
    /\ pc \in {"LOCAL_APIC_NMI", "LOCAL_X2APIC_NMI"} \/ acpi_lapic = 1 =>
          OfType("LOCAL_APIC") \cup OfType("LOCAL_X2APIC") # {}
    /\ acpi_lapic = 1 => pc \in IoPasses \cup {"done"}
    /\ pc \in IoPasses => acpi_lapic = 1
    /\ pc \in {"INTERRUPT_OVERRIDE", "NMI_SOURCE"} => nr_ioapics > 0
    /\ acpi_ioapic = 1 => pc = "done" /\ acpi_lapic = 1 /\ nr_ioapics > 0

LapicInv ==
    /\ acpi_lapic_addr = IF pc = "start" THEN APIC_DEFAULT_PHYS_BASE
                         ELSE AddressAfter(madt.entry, madt.address,
                                           OverWalked(pc, pos, Len(madt.entry)))
    /\ apic_fixmap # NONE =>
          /\ pc \notin BeforeLapic
          /\ apic_fixmap = AddressAfter(madt.entry, madt.address, Len(madt.entry))
    /\ pc \notin BeforeLapic => boot_cpu_apic_id = Bsp

CpusInv ==
    Cpus(madt.entry, ProcsWalked(pc, pos, Len(madt.entry)), early_cpuid, nr_assigned_cpus, dropped)
IosInv ==
    Ios(madt.entry, IoWalked(pc, acpi_lapic, pos, Len(madt.entry)), ioapics, nr_ioapics, io_fixmap)

MadtInvariant == MadtType /\ WalkInv /\ LapicInv /\ CpusInv /\ IosInv

-----------------------------------------------------------------------------
(* One more subtable, of the kind that is walked.                          *)

\* The walks a MADT t can be in: x2APIC entries come after all others.
Walk(t, w) ==
    /\ w \in [ProcTypes -> 0 .. Len(t)]
    /\ w["LOCAL_X2APIC"] > 0 => w["LOCAL_APIC"] = Len(t)

LEMMA RegisteredNat ==
    ASSUME NEW t \in Seq(Entries), NEW w, Walk(t, w)
    PROVE  Registered(t, w) \in Nat
<1>1. w["LOCAL_APIC"] \in Nat /\ w["LOCAL_X2APIC"] \in Nat
  BY DEF Walk, ProcTypes
<1> QED BY <1>1, RankNat DEF Registered

\* The next subtable is no processor of the type the pass is about.
PassedOver(t, w, ty, v) ==
    /\ Walk(t, w) /\ ty \in ProcTypes
    /\ w[ty] + 1 \notin ProcsAs(t, ty)
    /\ v = [w EXCEPT ![ty] = w[ty] + 1]

\* It changes nothing.
LEMMA CpusSkip ==
    ASSUME NEW t \in Seq(Entries), NEW w, NEW ty, NEW v, PassedOver(t, w, ty, v),
           NEW early, NEW nr, NEW gone, Cpus(t, w, early, nr, gone)
    PROVE  Cpus(t, v, early, nr, gone)
<1>0. /\ Walk(t, w) /\ ty \in ProcTypes
      /\ w[ty] + 1 \notin ProcsAs(t, ty)
      /\ v = [w EXCEPT ![ty] = w[ty] + 1]
  BY DEF PassedOver
<1>1. w[ty] \in Nat /\ w["LOCAL_APIC"] \in Nat /\ w["LOCAL_X2APIC"] \in Nat
  BY <1>0 DEF Walk, ProcTypes
<1>2. /\ v[ty] = w[ty] + 1
      /\ \A u \in ProcTypes : u # ty => v[u] = w[u]
      /\ "LOCAL_APIC" \in ProcTypes /\ "LOCAL_X2APIC" \in ProcTypes
  BY <1>0 DEF Walk, ProcTypes
<1>3. Rank(ProcsAs(t, ty), w[ty] + 1) = Rank(ProcsAs(t, ty), w[ty])
  BY <1>0, <1>1, RankNext
<1>4. \A u \in ProcTypes : Rank(ProcsAs(t, u), v[u]) = Rank(ProcsAs(t, u), w[u])
  BY <1>2, <1>3
<1>5. Registered(t, v) = Registered(t, w)
  BY <1>2, <1>4 DEF Registered
<1>6. Walked(t, v) = Walked(t, w)
  <2>1. ASSUME NEW k \in Listed(t) PROVE k <= v[t[k].type] <=> k <= w[t[k].type]
    <3>1. t[k].type \in ProcTypes /\ k \in Nat
      BY DEF Listed
    <3>2. CASE t[k].type = ty
      <4>1. k # w[ty] + 1
        BY <3>2, <1>0 DEF ProcsAs
      <4> QED BY <4>1, <3>1, <3>2, <1>1, <1>2
    <3>3. CASE t[k].type # ty
      BY <3>1, <3>3, <1>2
    <3> QED BY <3>2, <3>3
  <2> QED BY <2>1 DEF Walked
<1> QED BY <1>5, <1>6 DEF Cpus

\* The next subtable, at k, is a processor of the type the pass is about; v
\* is the walk with it.
NextIs(t, w, ty, k, v) ==
    /\ Walk(t, w) /\ ty \in ProcTypes
    /\ ty = "LOCAL_APIC" => w["LOCAL_X2APIC"] = 0
    /\ ty = "LOCAL_X2APIC" => w["LOCAL_APIC"] = Len(t)
    /\ k = w[ty] + 1 /\ k \in ProcsAs(t, ty)
    /\ v = [w EXCEPT ![ty] = k]

\* The next processor: its place, and that of those before it.
LEMMA NextPlace ==
    ASSUME NEW t \in Seq(Entries), NEW w, NEW ty, NEW k, NEW v, NextIs(t, w, ty, k, v)
    PROVE  /\ Registered(t, v) = Registered(t, w) + 1
           /\ Walked(t, v) = Walked(t, w) \cup {k}
           /\ PlaceIn(t, k) = Registered(t, w) + 1
           /\ \A j \in Walked(t, w) : PlaceIn(t, j) \in 1 .. Registered(t, w)
<1> DEFINE A == ProcsAs(t, "LOCAL_APIC")
           X == ProcsAs(t, "LOCAL_X2APIC")
<1>0. /\ Walk(t, w) /\ ty \in ProcTypes
      /\ ty = "LOCAL_APIC" => w["LOCAL_X2APIC"] = 0
      /\ ty = "LOCAL_X2APIC" => w["LOCAL_APIC"] = Len(t)
      /\ k = w[ty] + 1 /\ k \in ProcsAs(t, ty) /\ v = [w EXCEPT ![ty] = k]
  BY DEF NextIs
<1>1. w[ty] \in Nat /\ w["LOCAL_APIC"] \in Nat /\ w["LOCAL_X2APIC"] \in Nat /\ Len(t) \in Nat
  BY <1>0 DEF Walk, ProcTypes
<1>2. /\ v[ty] = w[ty] + 1
      /\ \A u \in ProcTypes : u # ty => v[u] = w[u]
      /\ "LOCAL_APIC" \in ProcTypes /\ "LOCAL_X2APIC" \in ProcTypes
      /\ ty = "LOCAL_APIC" \/ ty = "LOCAL_X2APIC"
  BY <1>0 DEF Walk, ProcTypes
<1>3. Rank(ProcsAs(t, ty), k) = Rank(ProcsAs(t, ty), w[ty]) + 1
  BY <1>0, <1>1, RankNext
<1>4. /\ Rank(A, w["LOCAL_APIC"]) \in Nat /\ Rank(X, w["LOCAL_X2APIC"]) \in Nat
      /\ Rank(X, 0) = 0 /\ Rank(A, Len(t)) \in Nat
  BY <1>1, RankNat, RankZero
<1>k. k \in Listed(t) /\ t[k].type = ty /\ k \in Nat
  BY <1>0 DEF ProcsAs, Listed
<1>5. Registered(t, v) = Registered(t, w) + 1
  <2>1. CASE ty = "LOCAL_APIC"
    <3>1. v["LOCAL_APIC"] = w["LOCAL_APIC"] + 1 /\ v["LOCAL_X2APIC"] = w["LOCAL_X2APIC"]
      BY <2>1, <1>2
    <3> QED BY <3>1, <2>1, <1>0, <1>3, <1>4 DEF Registered
  <2>2. CASE ty = "LOCAL_X2APIC"
    <3>1. v["LOCAL_X2APIC"] = w["LOCAL_X2APIC"] + 1 /\ v["LOCAL_APIC"] = w["LOCAL_APIC"]
      BY <2>2, <1>2
    <3> QED BY <3>1, <2>2, <1>0, <1>3, <1>4 DEF Registered
  <2> QED BY <2>1, <2>2, <1>2
<1>6. Walked(t, v) = Walked(t, w) \cup {k}
  <2>1. ASSUME NEW j \in Listed(t) PROVE j <= v[t[j].type] <=> j <= w[t[j].type] \/ j = k
    <3>1. t[j].type \in ProcTypes /\ j \in Nat
      BY DEF Listed
    <3>2. CASE t[j].type = ty
      BY <3>1, <3>2, <1>0, <1>1, <1>2
    <3>3. CASE t[j].type # ty
      BY <3>1, <3>3, <1>2, <1>k
    <3> QED BY <3>2, <3>3
  <2> QED BY <2>1, <1>k DEF Walked
<1>7. PlaceIn(t, k) = Registered(t, w) + 1
  <2>1. CASE ty = "LOCAL_APIC"
    BY <2>1, <1>0, <1>3, <1>4, <1>k DEF PlaceIn, Registered
  <2>2. CASE ty = "LOCAL_X2APIC"
    <3>1. PlaceIn(t, k) = Rank(A, Len(t)) + Rank(X, k)
      BY <2>2, <1>k DEF PlaceIn
    <3>2. Registered(t, w) = Rank(A, Len(t)) + Rank(X, w["LOCAL_X2APIC"])
      BY <2>2, <1>0 DEF Registered
    <3>3. Rank(X, k) = Rank(X, w["LOCAL_X2APIC"]) + 1
      BY <2>2, <1>3
    <3> HIDE DEF A, X
    <3> QED BY <3>1, <3>2, <3>3, <1>4
  <2> QED BY <2>1, <2>2, <1>2
<1>8. ASSUME NEW j \in Walked(t, w)
      PROVE  PlaceIn(t, j) \in 1 .. Registered(t, w)
  <2>1. j \in Listed(t) /\ j <= w[t[j].type] /\ j \in Nat \ {0}
    BY DEF Walked, Listed
  <2>2. t[j].type = "LOCAL_APIC" \/ t[j].type = "LOCAL_X2APIC"
    BY <2>1 DEF Listed, ProcTypes
  <2>3. CASE t[j].type = "LOCAL_APIC"
    <3>1. j \in A /\ j \in Nat /\ j <= w["LOCAL_APIC"]
      BY <2>1, <2>3 DEF ProcsAs
    <3>2. Rank(A, j) >= 1 /\ Rank(A, j) <= Rank(A, w["LOCAL_APIC"]) /\ Rank(A, j) \in Nat
      BY <3>1, <2>1, <1>1, RankMember, RankMonotone, RankNat
    <3>3. PlaceIn(t, j) = Rank(A, j)
      BY <2>3 DEF PlaceIn
    <3> QED BY <3>2, <3>3, <1>4 DEF Registered
  <2>4. CASE t[j].type = "LOCAL_X2APIC"
    <3>1. j \in X /\ j \in Nat /\ j <= w["LOCAL_X2APIC"]
      BY <2>1, <2>4 DEF ProcsAs
    <3>2. Rank(X, j) >= 1 /\ Rank(X, j) <= Rank(X, w["LOCAL_X2APIC"]) /\ Rank(X, j) \in Nat
      BY <3>1, <2>1, <1>1, RankMember, RankMonotone, RankNat
    <3>3. PlaceIn(t, j) = Rank(A, Len(t)) + Rank(X, j)
      BY <2>4 DEF PlaceIn
    <3>4. w["LOCAL_APIC"] = Len(t)
      BY <3>1, <2>1, <1>0, <1>1 DEF Walk
    <3> QED BY <3>2, <3>3, <3>4, <1>4 DEF Registered
  <2> QED BY <2>2, <2>3, <2>4
<1> QED BY <1>5, <1>6, <1>7, <1>8

\* The next processor is registered under its number, or dropped.
LEMMA CpusRegister ==
    ASSUME NEW t \in Seq(Entries), OnceEach(t),
           NEW w, NEW ty, NEW k, NEW v, NextIs(t, w, ty, k, v),
           NEW early \in [0 .. NR_CPUS - 1 -> [apic_id : Nat, acpi_id : Nat]],
           NEW nr \in Nat, NEW gone, Cpus(t, w, early, nr, gone),
           NEW cpu, cpu = IF t[k].id = Bsp THEN 0 ELSE nr
    PROVE  /\ cpu < NR_CPUS => Cpus(t, v, [early EXCEPT ![cpu] = CpuIn(t, k)], nr + 1, gone)
           /\ ~(cpu < NR_CPUS) => Cpus(t, v, early, nr, gone \cup {t[k].id})
<1>1. /\ Registered(t, v) = Registered(t, w) + 1
      /\ Walked(t, v) = Walked(t, w) \cup {k}
      /\ PlaceIn(t, k) = Registered(t, w) + 1
      /\ \A j \in Walked(t, w) : PlaceIn(t, j) \in 1 .. Registered(t, w)
  BY NextPlace
<1>2. PICK c \in Nat : c = Registered(t, w)
  BY RegisteredNat DEF NextIs
<1>3. NR_CPUS \in Nat \ {0} /\ k \in Listed(t)
  BY MadtAssumption DEF ProcsAs, NextIs
<1>4. IF c < NR_CPUS THEN nr = c + 1 ELSE nr >= NR_CPUS
  BY <1>2 DEF Cpus
<1>5. \A j \in Walked(t, w) : j \in Listed(t) /\ j # k
  <2>1. ASSUME NEW j \in Walked(t, w), j = k PROVE FALSE
    <3>1. k <= w[ty] /\ w[ty] \in Nat /\ k = w[ty] + 1
      BY <2>1 DEF Walked, ProcsAs, Walk, NextIs
    <3> QED BY <3>1
  <2> QED BY <2>1 DEF Walked
<1>6. \A j \in Walked(t, w) : NumberIn(t, j) # NumberIn(t, k)
  <2>1. ASSUME NEW j \in Walked(t, w) PROVE NumberIn(t, j) # NumberIn(t, k)
    <3>1. PlaceIn(t, j) \in 1 .. c /\ PlaceIn(t, k) = c + 1
      BY <1>1, <1>2
    <3>2. t[j].id # t[k].id
      BY <1>5, <1>3 DEF OnceEach
    <3> QED BY <3>1, <3>2 DEF NumberIn
  <2> QED BY <2>1
<1>7. NumberIn(t, k) = IF t[k].id = Bsp THEN 0 ELSE c + 1
  BY <1>1, <1>2 DEF NumberIn
<1>8. Registered(t, v) = c + 1
  BY <1>1, <1>2
<1>9. CASE cpu < NR_CPUS
  <2> DEFINE taken == [early EXCEPT ![cpu] = CpuIn(t, k)]
  <2>1. NumberIn(t, k) = cpu /\ cpu \in 0 .. NR_CPUS - 1
    BY <1>9, <1>7, <1>4, <1>3
  <2>2. IF c + 1 < NR_CPUS THEN nr + 1 = (c + 1) + 1 ELSE nr + 1 >= NR_CPUS
    BY <1>4, <1>3
  <2>3. taken[cpu] = CpuIn(t, k) /\ \A x \in 0 .. NR_CPUS - 1 : x # cpu => taken[x] = early[x]
    BY <2>1
  <2> HIDE DEF taken
  <2>4. \A j \in Walked(t, w) : NumberIn(t, j) \in Nat
    BY <1>1, <1>2 DEF NumberIn
  <2>5. ASSUME NEW j \in Walked(t, v), NumberIn(t, j) < NR_CPUS
        PROVE  taken[NumberIn(t, j)] = CpuIn(t, j)
    <3>1. CASE j = k
      BY <3>1, <2>1, <2>3
    <3>2. CASE j \in Walked(t, w)
      <4>1. NumberIn(t, j) \in 0 .. NR_CPUS - 1 /\ NumberIn(t, j) # cpu
        BY <3>2, <2>4, <2>5, <2>1, <1>6, <1>3
      <4>2. early[NumberIn(t, j)] = CpuIn(t, j)
        BY <3>2, <2>5 DEF Cpus
      <4> QED BY <4>1, <4>2, <2>3
    <3> QED BY <3>1, <3>2, <1>1
  <2>6. ASSUME NEW x \in 0 .. NR_CPUS - 1, taken[x] # NoCpu
        PROVE  \E j \in Walked(t, v) : x = NumberIn(t, j) /\ taken[x] = CpuIn(t, j)
    <3>0. Walked(t, v) = Walked(t, w) \cup {k}
      BY <1>1
    <3>1. CASE x = cpu
      BY <3>0, <3>1, <2>1, <2>3
    <3>2. CASE x # cpu
      <4>1. taken[x] = early[x]
        BY <3>2, <2>3
      <4>2. PICK j \in Walked(t, w) : x = NumberIn(t, j) /\ early[x] = CpuIn(t, j)
        BY <4>1, <2>6 DEF Cpus
      <4> QED BY <4>1, <4>2, <3>0
    <3> QED BY <3>1, <3>2
  <2>7. {x \in Walked(t, v) : NumberIn(t, x) >= NR_CPUS}
        = {x \in Walked(t, w) : NumberIn(t, x) >= NR_CPUS}
    <3>1. Walked(t, v) = Walked(t, w) \cup {k}
      BY <1>1
    <3>2. ~(NumberIn(t, k) >= NR_CPUS)
      BY <2>1, <1>3
    <3> QED BY <3>1, <3>2
  <2>8. gone = {t[x].id : x \in {y \in Walked(t, v) : NumberIn(t, y) >= NR_CPUS}}
    BY <2>7 DEF Cpus
  <2>9. Cpus(t, v, taken, nr + 1, gone)
    BY <2>2, <2>5, <2>6, <2>8, <1>8 DEF Cpus
  <2> QED BY <2>9, <1>9 DEF taken
<1>10. CASE ~(cpu < NR_CPUS)
  <2>1. c + 1 >= NR_CPUS /\ NumberIn(t, k) = c + 1 /\ nr >= NR_CPUS
    BY <1>10, <1>7, <1>4, <1>3
  <2>2. ~(c + 1 < NR_CPUS)
    BY <2>1, <1>3
  <2>3. Walked(t, v) = Walked(t, w) \cup {k}
    BY <1>1
  <2>4. NumberIn(t, k) >= NR_CPUS /\ ~(NumberIn(t, k) < NR_CPUS)
    BY <2>1, <1>3
  <2>5. \A j \in Walked(t, v) : NumberIn(t, j) < NR_CPUS => early[NumberIn(t, j)] = CpuIn(t, j)
    BY <2>3, <2>4 DEF Cpus
  <2>6. \A x \in 0 .. NR_CPUS - 1 :
           early[x] # NoCpu => \E j \in Walked(t, v) : x = NumberIn(t, j) /\ early[x] = CpuIn(t, j)
    <3>1. ASSUME NEW x \in 0 .. NR_CPUS - 1, early[x] # NoCpu
          PROVE  \E j \in Walked(t, v) : x = NumberIn(t, j) /\ early[x] = CpuIn(t, j)
      <4>1. PICK j \in Walked(t, w) : x = NumberIn(t, j) /\ early[x] = CpuIn(t, j)
        BY <3>1 DEF Cpus
      <4> QED BY <4>1, <2>3
    <3> QED BY <3>1
  <2>7. {x \in Walked(t, v) : NumberIn(t, x) >= NR_CPUS}
        = {x \in Walked(t, w) : NumberIn(t, x) >= NR_CPUS} \cup {k}
    BY <2>3, <2>4
  <2>8. gone \cup {t[k].id} = {t[x].id : x \in {y \in Walked(t, v) : NumberIn(t, y) >= NR_CPUS}}
    <3>1. gone = {t[x].id : x \in {y \in Walked(t, w) : NumberIn(t, y) >= NR_CPUS}}
      BY DEF Cpus
    <3> QED BY <3>1, <2>7
  <2>9. Cpus(t, v, early, nr, gone \cup {t[k].id})
    BY <2>1, <2>2, <2>5, <2>6, <2>8, <1>8 DEF Cpus
  <2> QED BY <2>9, <1>10
<1> QED BY <1>9, <1>10

-----------------------------------------------------------------------------
(* The IO-APICs and the address of the local APIC, one subtable on.        *)

\* A subtable that is no IO-APIC changes nothing.
LEMMA IosSkip ==
    ASSUME NEW t \in Seq(Entries), NEW w \in Nat, w + 1 \notin Io(t),
           NEW rec, NEW nr, NEW fix, Ios(t, w, rec, nr, fix)
    PROVE  Ios(t, w + 1, rec, nr, fix)
<1>1. Rank(Io(t), w + 1) = Rank(Io(t), w)
  BY RankNext
<1>2. \A k \in Io(t) : k <= w + 1 => k <= w
  BY DEF Io
<1> QED BY <1>1, <1>2 DEF Ios

\* An IO-APIC beyond those there is room for is not recorded.
LEMMA IosFull ==
    ASSUME NEW t \in Seq(Entries), NEW w \in Nat, w + 1 \in Io(t),
           NEW rec, NEW fix, Ios(t, w, rec, NR_IOAPIC, fix)
    PROVE  Ios(t, w + 1, rec, NR_IOAPIC, fix)
<1>0. NR_IOAPIC \in Nat
  BY MadtAssumption
<1>1. Rank(Io(t), w + 1) = Rank(Io(t), w) + 1 /\ Rank(Io(t), w) \in Nat
  BY RankNext, RankNat
<1>2. Rank(Io(t), w) >= NR_IOAPIC
  BY <1>1, <1>0 DEF Ios
<1>3. \A k \in Io(t) : k <= w + 1 => k <= w \/ k = w + 1
  BY DEF Io
<1>4. NR_IOAPIC = IF Rank(Io(t), w + 1) < NR_IOAPIC THEN Rank(Io(t), w + 1) ELSE NR_IOAPIC
  BY <1>0, <1>1, <1>2
<1>5. ~(Rank(Io(t), w + 1) <= NR_IOAPIC)
  BY <1>0, <1>1, <1>2
<1> QED BY <1>3, <1>4, <1>5 DEF Ios

\* The next slot takes the next IO-APIC.
LEMMA IosRegister ==
    ASSUME NEW t \in Seq(Entries), NEW w \in Nat, w + 1 \in Io(t),
           NEW rec, NEW fix \in [0 .. NR_IOAPIC - 1 -> Int], NEW nr \in Nat,
           Ios(t, w, rec, nr, fix), nr < NR_IOAPIC,
           rec = [s \in 0 .. NR_IOAPIC - 1 |-> rec[s]],
           NEW rec2, NEW fix2, NEW r, rec2 = [rec EXCEPT ![nr] = r],
           fix2 = [fix EXCEPT ![nr] = PageOf(t[w + 1].address)],
           RecordedIn(rec2, fix2, nr, t[w + 1])
    PROVE  Ios(t, w + 1, rec2, nr + 1, fix2)
<1>0. NR_IOAPIC \in Nat
  BY MadtAssumption
<1>1. Rank(Io(t), w + 1) = Rank(Io(t), w) + 1 /\ Rank(Io(t), w) \in Nat
  BY RankNext, RankNat
<1>2. nr = Rank(Io(t), w)
  BY <1>1, <1>0 DEF Ios
<1>3. \A s \in 0 .. NR_IOAPIC - 1 : s # nr => rec2[s] = rec[s] /\ fix2[s] = fix[s]
  BY <1>0
<1>4. nr + 1 = IF Rank(Io(t), w + 1) < NR_IOAPIC THEN Rank(Io(t), w + 1) ELSE NR_IOAPIC
  BY <1>0, <1>1, <1>2
<1>5. ASSUME NEW k \in Io(t), k <= w + 1, Rank(Io(t), k) <= NR_IOAPIC
      PROVE  RecordedIn(rec2, fix2, Rank(Io(t), k) - 1, t[k])
  <2>1. k \in Nat \ {0} /\ k \in Nat
    BY DEF Io
  <2>2. CASE k = w + 1
    <3>1. Rank(Io(t), k) - 1 = nr
      BY <2>2, <1>1, <1>2
    <3> QED BY <3>1, <2>2
  <2>3. CASE k <= w
    <3>1. Rank(Io(t), k) >= 1 /\ Rank(Io(t), k) <= nr /\ Rank(Io(t), k) \in Nat
      BY <2>1, <2>3, <1>2, RankMember, RankMonotone, RankNat
    <3>2. PICK s \in Nat : s = Rank(Io(t), k) - 1
      BY <3>1
    <3>3. s \in 0 .. NR_IOAPIC - 1 /\ s # nr
      BY <3>1, <3>2, <1>0
    <3>4. rec2[s] = rec[s] /\ fix2[s] = fix[s]
      BY <1>3, <3>3
    <3>5. RecordedIn(rec, fix, s, t[k])
      BY <2>3, <1>5, <3>2 DEF Ios
    <3>6. RecordedIn(rec2, fix2, s, t[k])
      BY <3>4, <3>5 DEF RecordedIn
    <3> QED BY <3>2, <3>6
  <2> QED BY <2>1, <2>2, <2>3, <1>5
<1>6. ASSUME NEW s \in 0 .. NR_IOAPIC - 1, nr + 1 <= s
      PROVE  rec2[s] = <<>>
  <2>1. s # nr /\ nr <= s
    BY <1>6
  <2> QED BY <2>1, <1>3 DEF Ios
<1> QED BY <1>4, <1>5, <1>6 DEF Ios

\* An override gives the address; other subtables leave it.
LEMMA AddressNext ==
    ASSUME NEW t, NEW a, NEW w \in Nat
    PROVE  AddressAfter(t, a, w + 1) = IF t[w + 1].type = "LOCAL_APIC_OVERRIDE"
                                       THEN t[w + 1].address ELSE AddressAfter(t, a, w)
<1>1. CASE t[w + 1].type = "LOCAL_APIC_OVERRIDE"
  <2> DEFINE S == Overrides(t, w + 1)
  <2>1. w + 1 \in S /\ \A j \in S : j <= w + 1 /\ j \in Nat
    BY <1>1 DEF Overrides
  <2> HIDE DEF S
  <2>2. \E k \in S : \A j \in S : j <= k
    BY <2>1
  <2>3. LastOf(S) \in S /\ \A j \in S : j <= LastOf(S)
    BY <2>2 DEF LastOf
  <2>4. LastOf(S) = w + 1
    BY <2>1, <2>3
  <2> QED BY <2>1, <2>4, <1>1 DEF AddressAfter, S
<1>2. CASE t[w + 1].type # "LOCAL_APIC_OVERRIDE"
  <2>1. Overrides(t, w + 1) = Overrides(t, w)
    BY <1>2 DEF Overrides
  <2> QED BY <2>1, <1>2 DEF AddressAfter
<1> QED BY <1>1, <1>2

-----------------------------------------------------------------------------
(* Walks.                                                                  *)

LEMMA PassNamesAre ==
    PassNames = LapicPasses \cup IoPasses \cup {"LOCAL_APIC_OVERRIDE"}
<1>1. DOMAIN Passes = 1 .. 8
  BY DEF Passes
<1>2. 1 .. 8 = {1, 2, 3, 4, 5, 6, 7, 8}
  OBVIOUS
<1> QED BY <1>1, <1>2 DEF PassNames, Passes, LapicPasses, IoPasses

\* A pass over processors walks its own type.
LEMMA ProcsWalk ==
    ASSUME NEW t \in Seq(Entries), NEW p \in ProcTypes, NEW at \in 1 .. Len(t)
    PROVE  /\ Walk(t, ProcsWalked(p, at, Len(t))) /\ ProcsWalked(p, at, Len(t))[p] = at - 1
           /\ ProcsWalked(p, at + 1, Len(t)) = [ProcsWalked(p, at, Len(t)) EXCEPT ![p] = at]
           /\ p = "LOCAL_APIC" => ProcsWalked(p, at, Len(t))["LOCAL_X2APIC"] = 0
           /\ p = "LOCAL_X2APIC" => ProcsWalked(p, at, Len(t))["LOCAL_APIC"] = Len(t)
<1> DEFINE rest == IF p = "LOCAL_APIC" THEN 0 ELSE Len(t)
           w == ProcsWalked(p, at, Len(t))
           v == ProcsWalked(p, at + 1, Len(t))
<1>0. (p = "LOCAL_APIC" \/ p = "LOCAL_X2APIC") /\ Len(t) \in Nat
      /\ ProcTypes = {"LOCAL_APIC", "LOCAL_X2APIC"}
  BY DEF ProcTypes
<1>1. w = [ty \in ProcTypes |-> IF ty = p THEN at - 1 ELSE rest]
  BY <1>0 DEF ProcsWalked, BeforeLapic
<1>2. v = [ty \in ProcTypes |-> IF ty = p THEN at ELSE rest]
  BY <1>0 DEF ProcsWalked, BeforeLapic
<1> HIDE DEF w, v
<1>3. v = [w EXCEPT ![p] = at]
  BY <1>1, <1>2
<1>4. at - 1 \in 0 .. Len(t) /\ rest \in 0 .. Len(t)
  BY <1>0
<1>5. w \in [ProcTypes -> 0 .. Len(t)] /\ w[p] = at - 1
  BY <1>1, <1>4
<1>6. p = "LOCAL_APIC" => w["LOCAL_X2APIC"] = 0
  BY <1>1, <1>0
<1>7. p = "LOCAL_X2APIC" => w["LOCAL_APIC"] = Len(t)
  BY <1>1, <1>0
<1>8. Walk(t, w)
  BY <1>0, <1>5, <1>6, <1>7 DEF Walk
<1> QED BY <1>3, <1>5, <1>6, <1>7, <1>8 DEF w, v

\* Any other pass has walked the processors wholly or not at all.
LEMMA ProcsRest ==
    ASSUME NEW p, p \notin ProcTypes, NEW at, NEW at2, NEW n
    PROVE  ProcsWalked(p, at, n) = ProcsWalked(p, at2, n)
BY DEF ProcsWalked

\* The processors, one subtable on, if it is none.
LEMMA CpusKept ==
    ASSUME MadtInvariant, pos <= Len(madt.entry), pos' = pos + 1,
           UNCHANGED <<madt, pc, early_cpuid, nr_assigned_cpus, dropped>>,
           ~(pc \in ProcTypes /\ pos \in ProcsAs(madt.entry, pc))
    PROVE  CpusInv'
<1>1. PICK t, p, at, early, nr, gone :
           /\ t \in Seq(Entries) /\ at \in 1 .. Len(t)
           /\ t = madt.entry /\ p = pc /\ at = pos
           /\ early = early_cpuid /\ nr = nr_assigned_cpus /\ gone = dropped
  BY DEF MadtInvariant, MadtType
<1>2. Cpus(t, ProcsWalked(p, at, Len(t)), early, nr, gone)
  BY <1>1 DEF MadtInvariant, CpusInv
<1>3. Cpus(t, ProcsWalked(p, at + 1, Len(t)), early, nr, gone)
  <2>1. CASE p \in ProcTypes
    <3> DEFINE w == ProcsWalked(p, at, Len(t))
               v == ProcsWalked(p, at + 1, Len(t))
    <3>1. Walk(t, w) /\ w[p] = at - 1 /\ v = [w EXCEPT ![p] = at]
      BY <2>1, <1>1, ProcsWalk
    <3>2. at = (at - 1) + 1 /\ at \notin ProcsAs(t, p)
      BY <2>1, <1>1
    <3> HIDE DEF w, v
    <3>3. PassedOver(t, w, p, v)
      BY <3>1, <3>2, <2>1 DEF PassedOver
    <3>4. Cpus(t, w, early, nr, gone)
      BY <1>2 DEF w
    <3>5. Cpus(t, v, early, nr, gone)
      BY <3>3, <3>4, <1>1, CpusSkip
    <3> QED BY <3>5 DEF v
  <2>2. CASE p \notin ProcTypes
    <3>1. ProcsWalked(p, at + 1, Len(t)) = ProcsWalked(p, at, Len(t))
      BY <2>2, ProcsRest
    <3> QED BY <3>1, <1>2
  <2> QED BY <2>1, <2>2
<1>4. /\ t = madt'.entry /\ p = pc' /\ at + 1 = pos'
      /\ early = early_cpuid' /\ nr = nr_assigned_cpus' /\ gone = dropped'
  BY <1>1
<1> QED BY <1>3, <1>4 DEF CpusInv

\* The IO-APICs, one subtable on, if it is none or not their pass.
LEMMA IosKept ==
    ASSUME MadtInvariant, pos <= Len(madt.entry), pos' = pos + 1,
           UNCHANGED <<madt, pc, acpi_lapic, ioapics, nr_ioapics, io_fixmap>>,
           pc # "IO_APIC" \/ madt.entry[pos].type # "IO_APIC"
    PROVE  IosInv'
<1>1. PICK t, p, l, at, rec, nr, fix :
           /\ t \in Seq(Entries) /\ at \in 1 .. Len(t)
           /\ t = madt.entry /\ p = pc /\ at = pos /\ l = acpi_lapic
           /\ rec = ioapics /\ nr = nr_ioapics /\ fix = io_fixmap
  BY DEF MadtInvariant, MadtType
<1>2. Ios(t, IoWalked(p, l, at, Len(t)), rec, nr, fix)
  BY <1>1 DEF MadtInvariant, IosInv
<1>3. Ios(t, IoWalked(p, l, at + 1, Len(t)), rec, nr, fix)
  <2>1. CASE l # 0 /\ p = "IO_APIC"
    <3>1. IoWalked(p, l, at, Len(t)) = at - 1 /\ IoWalked(p, l, at + 1, Len(t)) = at
      BY <1>1, <2>1 DEF IoWalked
    <3>2. at - 1 \in Nat /\ (at - 1) + 1 = at
      BY <1>1
    <3>3. (at - 1) + 1 \notin Io(t)
      BY <2>1, <3>2, <1>1 DEF Io
    <3>4. Ios(t, (at - 1) + 1, rec, nr, fix)
      BY <3>1, <3>2, <3>3, <1>1, <1>2, IosSkip
    <3> QED BY <3>1, <3>2, <3>4
  <2>2. CASE ~(l # 0 /\ p = "IO_APIC")
    <3>1. IoWalked(p, l, at + 1, Len(t)) = IoWalked(p, l, at, Len(t))
      BY <2>2 DEF IoWalked
    <3> QED BY <3>1, <1>2
  <2> QED BY <2>1, <2>2
<1>4. /\ t = madt'.entry /\ p = pc' /\ at + 1 = pos' /\ l = acpi_lapic'
      /\ rec = ioapics' /\ nr = nr_ioapics' /\ fix = io_fixmap'
  BY <1>1
<1> QED BY <1>3, <1>4 DEF IosInv

\* The local APIC's address, one subtable on.
LEMMA LapicOn ==
    ASSUME MadtInvariant, pos <= Len(madt.entry), pos' = pos + 1, pc # "start",
           UNCHANGED <<madt, pc, apic_fixmap, boot_cpu_apic_id>>,
           acpi_lapic_addr' = IF pc = "LOCAL_APIC_OVERRIDE"
                                 /\ madt.entry[pos].type = "LOCAL_APIC_OVERRIDE"
                              THEN madt.entry[pos].address ELSE acpi_lapic_addr
    PROVE  LapicInv'
<1>1. PICK t, a, p, at :
           /\ t \in Seq(Entries) /\ at \in 1 .. Len(t)
           /\ t = madt.entry /\ a = madt.address /\ p = pc /\ at = pos
  BY DEF MadtInvariant, MadtType
<1>2. acpi_lapic_addr = AddressAfter(t, a, OverWalked(p, at, Len(t)))
  BY <1>1 DEF MadtInvariant, LapicInv
<1>3. acpi_lapic_addr' = AddressAfter(t, a, OverWalked(p, at + 1, Len(t)))
  <2>1. CASE p = "LOCAL_APIC_OVERRIDE"
    <3>1. OverWalked(p, at, Len(t)) = at - 1 /\ OverWalked(p, at + 1, Len(t)) = at
      BY <1>1, <2>1 DEF OverWalked
    <3>2. at - 1 \in Nat /\ (at - 1) + 1 = at
      BY <1>1
    <3>3. AddressAfter(t, a, (at - 1) + 1) = IF t[(at - 1) + 1].type = "LOCAL_APIC_OVERRIDE"
                                   THEN t[(at - 1) + 1].address ELSE AddressAfter(t, a, at - 1)
      BY <3>2, AddressNext
    <3> QED BY <2>1, <3>1, <3>2, <3>3, <1>1, <1>2
  <2>2. CASE p # "LOCAL_APIC_OVERRIDE"
    <3>1. OverWalked(p, at + 1, Len(t)) = OverWalked(p, at, Len(t))
      BY <2>2 DEF OverWalked
    <3> QED BY <3>1, <2>2, <1>1, <1>2
  <2> QED BY <2>1, <2>2
<1>4. /\ apic_fixmap # NONE =>
            /\ p \notin BeforeLapic
            /\ apic_fixmap = AddressAfter(t, a, Len(t))
      /\ p \notin BeforeLapic => boot_cpu_apic_id = Bsp
  BY <1>1 DEF MadtInvariant, LapicInv
<1>5. t = madt'.entry /\ a = madt'.address /\ p = pc' /\ at + 1 = pos' /\ p # "start"
  BY <1>1
<1> QED BY <1>3, <1>4, <1>5 DEF LapicInv

-----------------------------------------------------------------------------
(* The initial states and each action.                                     *)

LEMMA MadtInit == Init => MadtInvariant
<1> SUFFICES ASSUME Init PROVE MadtInvariant
  OBVIOUS
<1>0. NR_CPUS \in Nat \ {0} /\ NR_IOAPIC \in Nat \ {0}
  BY MadtAssumption
<1>1. PICK t : t = madt.entry /\ t \in Seq(Entries) /\ OnceEach(t)
  <2>1. PICK k \in 0 .. MaxEntries : madt.entry \in [1 .. k -> Entries] /\ OnceEach(madt.entry)
    BY DEF Init
  <2>2. madt.entry \in Seq(Entries)
    BY <2>1, MadtAssumption
  <2> QED BY <2>1, <2>2
<1>2. MadtType
  <2>1. early_cpuid \in [0 .. NR_CPUS - 1 -> [apic_id : Nat, acpi_id : Nat]]
    BY DEF Init, NoCpu
  <2>2. io_fixmap \in [0 .. NR_IOAPIC - 1 -> Int]
    BY DEF Init, NONE
  <2>3. result \in [PassNames -> Int]
    BY DEF Init, NONE
  <2>4. pos \in 1 .. Len(madt.entry) + 1
    BY <1>1 DEF Init
  <2>5. DOMAIN ioapics = 0 .. NR_IOAPIC - 1 /\ ioapics = [s \in 0 .. NR_IOAPIC - 1 |-> ioapics[s]]
    BY DEF Init
  <2> QED BY <1>1, <2>1, <2>2, <2>3, <2>4, <2>5 DEF Init, MadtType
<1>3. WalkInv
  <2>1. "start" \notin PassNames
    BY PassNamesAre DEF LapicPasses, IoPasses
  <2>2. \A p \in PassNames : ~(result[p] > 0)
    BY DEF Init, NONE
  <2> QED BY <2>1, <2>2 DEF Init, WalkInv, IoPasses
<1>4. LapicInv
  BY DEF Init, LapicInv, BeforeLapic
<1>5. CpusInv
  <2> DEFINE w == ProcsWalked("start", 1, Len(t))
  <2>1. w = [ty \in ProcTypes |-> 0] /\ "LOCAL_APIC" \in ProcTypes /\ "LOCAL_X2APIC" \in ProcTypes
    BY DEF ProcsWalked, BeforeLapic, ProcTypes
  <2> HIDE DEF w
  <2>2. Walked(t, w) = {}
    <3>1. ASSUME NEW k \in Walked(t, w) PROVE FALSE
      <4>1. t[k].type \in ProcTypes /\ k \in DOMAIN t /\ k <= w[t[k].type]
        BY <3>1 DEF Walked, Listed
      <4>2. k \in Nat \ {0}
        BY <4>1, <1>1
      <4> QED BY <4>1, <4>2, <2>1
    <3> QED BY <3>1
  <2>3. Registered(t, w) = 0
    BY <2>1, RankZero DEF Registered
  <2>4. Cpus(t, w, early_cpuid, nr_assigned_cpus, dropped)
    BY <2>2, <2>3, <1>0 DEF Cpus, Init
  <2> QED BY <2>4, <1>1 DEF CpusInv, Init, w
<1>6. IosInv
  <2>1. IoWalked(pc, acpi_lapic, pos, Len(t)) = 0
    BY DEF IoWalked, Init
  <2>2. Rank(Io(t), 0) = 0
    BY RankZero
  <2>3. \A k \in Io(t) : ~(k <= 0)
    BY <1>1 DEF Io
  <2>4. Ios(t, 0, ioapics, nr_ioapics, io_fixmap)
    BY <2>2, <2>3, <1>0 DEF Ios, Init
  <2> QED BY <2>1, <2>4, <1>1 DEF IosInv
<1> QED BY <1>2, <1>3, <1>4, <1>5, <1>6 DEF MadtInvariant

\* The walks of two states are the same.
LEMMA CpusSame ==
    ASSUME MadtInvariant, UNCHANGED <<madt, early_cpuid, nr_assigned_cpus, dropped>>,
           ProcsWalked(pc', pos', Len(madt.entry)) = ProcsWalked(pc, pos, Len(madt.entry))
    PROVE  CpusInv'
BY DEF MadtInvariant, CpusInv

LEMMA IosSame ==
    ASSUME MadtInvariant, UNCHANGED <<madt, ioapics, nr_ioapics, io_fixmap>>,
           IoWalked(pc', acpi_lapic', pos', Len(madt.entry))
              = IoWalked(pc, acpi_lapic, pos, Len(madt.entry))
    PROVE  IosInv'
BY DEF MadtInvariant, IosInv

LEMMA ParseMadtStep ==
    ASSUME MadtInvariant, acpi_parse_madt
    PROVE  MadtInvariant'
<1>0. /\ pc = "start" /\ pc' = "LOCAL_APIC_OVERRIDE"
      /\ acpi_lapic_addr' = IF madt.address # 0 THEN madt.address ELSE acpi_lapic_addr
      /\ UNCHANGED <<madt, x2apic_mode, pos, err, count, result, apic_fixmap, boot_cpu_apic_id,
                     nr_assigned_cpus, early_cpuid, dropped, ioapics, nr_ioapics, io_fixmap,
                     acpi_lapic, acpi_ioapic>>
  BY DEF acpi_parse_madt, walk, cpus, ios, found
<1>1. "start" \notin PassNames /\ "LOCAL_APIC_OVERRIDE" \in PassNames
  BY PassNamesAre DEF LapicPasses, IoPasses
<1>2. pos = 1 /\ acpi_lapic = 0
  BY <1>0, <1>1 DEF MadtInvariant, MadtType, WalkInv, IoPasses
<1>3. MadtType'
  BY <1>0, <1>1 DEF MadtInvariant, MadtType
<1>4. WalkInv'
  <2>1. ~(count > 0)
    BY <1>0, <1>2 DEF MadtInvariant, WalkInv
  <2> QED BY <2>1, <1>0, <1>1, <1>2 DEF MadtInvariant, WalkInv, IoPasses, OfType
<1>5. LapicInv'
  <2>1. OverWalked(pc', pos', Len(madt.entry)) = 0
    BY <1>0, <1>2 DEF OverWalked
  <2>2. Overrides(madt.entry, 0) = {}
    BY DEF Overrides
  <2>3. acpi_lapic_addr' = AddressAfter(madt.entry, madt.address, 0)
    BY <2>2, <1>0 DEF AddressAfter, MadtInvariant, LapicInv
  <2> QED BY <2>1, <2>3, <1>0 DEF MadtInvariant, LapicInv, BeforeLapic
<1>6. CpusInv'
  <2>1. ProcsWalked(pc', pos', Len(madt.entry)) = ProcsWalked(pc, pos, Len(madt.entry))
    BY <1>0 DEF ProcsWalked, BeforeLapic, ProcTypes
  <2> QED BY <2>1, <1>0, CpusSame
<1>7. IosInv'
  <2>1. IoWalked(pc', acpi_lapic', pos', Len(madt.entry))
        = IoWalked(pc, acpi_lapic, pos, Len(madt.entry))
    BY <1>0, <1>2 DEF IoWalked
  <2> QED BY <2>1, <1>0, IosSame
<1> QED BY <1>3, <1>4, <1>5, <1>6, <1>7 DEF MadtInvariant

LEMMA RegisterLapicStep ==
    ASSUME MadtInvariant, register_lapic_address
    PROVE  MadtInvariant'
<1>0. /\ pc = "register"
      /\ UNCHANGED <<madt, x2apic_mode, pos, err, count, result, acpi_lapic_addr,
                     nr_assigned_cpus, early_cpuid, dropped, ioapics, nr_ioapics, io_fixmap,
                     acpi_lapic, acpi_ioapic>>
      /\ \/ pc' = "fault" /\ UNCHANGED <<apic_fixmap, boot_cpu_apic_id>>
         \/ pc' = "LOCAL_APIC" /\ apic_fixmap' = acpi_lapic_addr /\ boot_cpu_apic_id' = Bsp
  BY DEF register_lapic_address, walk, ios, found
<1>1. "register" \notin PassNames /\ "fault" \notin PassNames /\ "LOCAL_APIC" \in PassNames
  BY PassNamesAre DEF LapicPasses, IoPasses
<1>2. pos = 1 /\ acpi_lapic = 0
  BY <1>0, <1>1 DEF MadtInvariant, MadtType, WalkInv, IoPasses
<1>3. MadtType'
  BY <1>0, <1>1 DEF MadtInvariant, MadtType
<1>4. WalkInv'
  <2>1. ~(count > 0)
    BY <1>0, <1>2 DEF MadtInvariant, WalkInv
  <2> QED BY <2>1, <1>0, <1>1, <1>2 DEF MadtInvariant, WalkInv, IoPasses, OfType
<1>5. LapicInv'
  <2>1. /\ OverWalked(pc, pos, Len(madt.entry)) = Len(madt.entry)
        /\ OverWalked(pc', pos', Len(madt.entry)) = Len(madt.entry)
    BY <1>0 DEF OverWalked
  <2>2. acpi_lapic_addr = AddressAfter(madt.entry, madt.address, Len(madt.entry))
    BY <2>1, <1>0 DEF MadtInvariant, LapicInv
  <2>3. apic_fixmap = NONE
    BY <1>0 DEF MadtInvariant, LapicInv, BeforeLapic
  <2> QED BY <2>1, <2>2, <2>3, <1>0 DEF LapicInv, BeforeLapic
<1>6. CpusInv'
  <2>0. pos' = 1 /\ pos = 1 /\ 1 - 1 = 0
    BY <1>0, <1>2
  <2>1. ProcsWalked(pc', pos', Len(madt.entry)) = [ty \in ProcTypes |-> 0]
    BY <1>0, <2>0 DEF ProcsWalked, BeforeLapic, ProcTypes
  <2>2. ProcsWalked(pc, pos, Len(madt.entry)) = [ty \in ProcTypes |-> 0]
    BY <1>0, <2>0 DEF ProcsWalked, BeforeLapic, ProcTypes
  <2> QED BY <2>1, <2>2, <1>0, CpusSame
<1>7. IosInv'
  <2>1. IoWalked(pc', acpi_lapic', pos', Len(madt.entry))
        = IoWalked(pc, acpi_lapic, pos, Len(madt.entry))
    BY <1>0, <1>2 DEF IoWalked
  <2> QED BY <2>1, <1>0, IosSame
<1> QED BY <1>3, <1>4, <1>5, <1>6, <1>7 DEF MadtInvariant

LEMMA ParseOtherStep ==
    ASSUME MadtInvariant, ParseOther
    PROVE  MadtInvariant'
<1>0. /\ pc \in PassNames /\ pos <= Len(madt.entry) /\ madt.entry[pos].type # pc /\ pos' = pos + 1
      /\ UNCHANGED <<madt, x2apic_mode, pc, err, count, result, acpi_lapic_addr, apic_fixmap,
                     boot_cpu_apic_id, nr_assigned_cpus, early_cpuid, dropped,
                     ioapics, nr_ioapics, io_fixmap, acpi_lapic, acpi_ioapic>>
  BY DEF ParseOther, InPass, cpus, lapic, ios, found
<1>1. "start" \notin PassNames
  BY PassNamesAre DEF LapicPasses, IoPasses
<1>2. MadtType'
  BY <1>0 DEF MadtInvariant, MadtType
<1>3. WalkInv'
  <2>1. pos \in Nat /\ \A k \in 1 .. pos - 1 : k \in 1 .. pos' - 1
    BY <1>0 DEF MadtInvariant, MadtType
  <2> QED BY <2>1, <1>0 DEF MadtInvariant, WalkInv, OfType
<1>4. LapicInv'
  BY <1>0, <1>1, LapicOn
<1>5. CpusInv'
  BY <1>0, CpusKept DEF ProcsAs
<1>6. IosInv'
  BY <1>0, IosKept
<1> QED BY <1>2, <1>3, <1>4, <1>5, <1>6 DEF MadtInvariant

\* What the walk of a matching subtable does whatever the handler.
LEMMA MatchWalk ==
    ASSUME MadtInvariant, pc \in PassNames, pos <= Len(madt.entry), madt.entry[pos].type = pc,
           err' = 0, count' = count + 1, pos' = pos + 1,
           UNCHANGED <<madt, pc, result, acpi_lapic, acpi_ioapic>>,
           pc # "IO_APIC" => nr_ioapics' = nr_ioapics
    PROVE  WalkInv' /\ pos \in 1 .. Len(madt.entry) /\ pos' \in 1 .. Len(madt.entry) + 1
           /\ madt.entry[pos] \in Entries /\ count' \in Nat
<1>1. pos \in 1 .. Len(madt.entry) /\ madt.entry \in Seq(Entries) /\ count \in Nat
  BY DEF MadtInvariant, MadtType
<1>2. pos \in 1 .. pos' - 1
  BY <1>1
<1>3. "done" \notin PassNames
  BY PassNamesAre DEF LapicPasses, IoPasses
<1>4. err' = 0 /\ \E k \in 1 .. pos' - 1 : madt'.entry[k].type = pc'
  BY <1>2
<1>5. \A p \in PassNames : result'[p] > 0 => OfType(p)' # {}
  BY DEF MadtInvariant, WalkInv, OfType
<1>6. pc' \in {"LOCAL_APIC_NMI", "LOCAL_X2APIC_NMI"} \/ acpi_lapic' = 1 =>
          OfType("LOCAL_APIC")' \cup OfType("LOCAL_X2APIC")' # {}
  BY DEF MadtInvariant, WalkInv, OfType
<1>7. pc' \in {"INTERRUPT_OVERRIDE", "NMI_SOURCE"} => nr_ioapics' > 0
  BY DEF MadtInvariant, WalkInv
<1>8. acpi_ioapic' # 1
  BY <1>3 DEF MadtInvariant, WalkInv
<1>9. WalkInv'
  BY <1>4, <1>5, <1>6, <1>7, <1>8 DEF MadtInvariant, WalkInv
<1> QED BY <1>1, <1>9

\* A processor is registered, dropped or passed over.
LEMMA ProcessorStep ==
    ASSUME MadtInvariant, pc \in PassNames, pos <= Len(madt.entry), madt.entry[pos].type = pc,
           err' = 0, count' = count + 1, pos' = pos + 1,
           UNCHANGED <<madt, x2apic_mode, pc, result, found>>,
           pc \in ProcTypes, ParseProcessor(madt.entry[pos])
    PROVE  MadtInvariant'
<1> DEFINE e == madt.entry[pos]
<1>0. UNCHANGED <<boot_cpu_apic_id, acpi_lapic_addr, apic_fixmap, ioapics, nr_ioapics, io_fixmap,
                  acpi_lapic, acpi_ioapic>>
  BY DEF ParseProcessor, lapic, ios, found
<1>1. WalkInv' /\ pos \in 1 .. Len(madt.entry) /\ pos' \in 1 .. Len(madt.entry) + 1
      /\ e \in Entries /\ count' \in Nat
  BY <1>0, MatchWalk
<1>2. pc # "start" /\ pc # "LOCAL_APIC_OVERRIDE" /\ pc # "IO_APIC" /\ pc \notin BeforeLapic
  BY DEF ProcTypes, BeforeLapic
<1>3. LapicInv'
  BY <1>0, <1>2, LapicOn
<1>4. IosInv'
  BY <1>0, <1>2, IosKept
<1>5. e.id \in Nat /\ e.uid \in Nat /\ e.enabled \in BOOLEAN
  BY <1>1, MadtAssumption
<1>6. boot_cpu_apic_id = Bsp /\ NR_CPUS \in Nat \ {0}
  BY <1>2, MadtAssumption DEF MadtInvariant, LapicInv
<1>7. CASE ~(e.id # Broadcast /\ e.enabled)
  <2>1. UNCHANGED <<nr_assigned_cpus, early_cpuid, dropped>>
    BY <1>7 DEF ParseProcessor
  <2>2. pos \notin ProcsAs(madt.entry, pc)
    BY <1>7 DEF ProcsAs, Listed
  <2>3. CpusInv'
    BY <2>1, <2>2, CpusKept
  <2>4. MadtType'
    BY <2>1, <1>0, <1>1 DEF MadtInvariant, MadtType
  <2> QED BY <2>3, <2>4, <1>1, <1>3, <1>4 DEF MadtInvariant
<1>8. CASE e.id # Broadcast /\ e.enabled
  <2>1. register_apic_id(e.id, e.uid)
    BY <1>8 DEF ParseProcessor
  <2>2. PICK t, p, at, early, nr, gone, cpu :
           /\ t \in Seq(Entries) /\ at \in 1 .. Len(t) /\ p \in ProcTypes /\ OnceEach(t)
           /\ early \in [0 .. NR_CPUS - 1 -> [apic_id : Nat, acpi_id : Nat]] /\ nr \in Nat
           /\ t = madt.entry /\ p = pc /\ at = pos
           /\ early = early_cpuid /\ nr = nr_assigned_cpus /\ gone = dropped
           /\ cpu = IF t[at].id = Bsp THEN 0 ELSE nr
    BY <1>1 DEF MadtInvariant, MadtType
  <2>3. CpuOf(e.id) = cpu
    BY <2>2, <1>6 DEF CpuOf
  <2>4. PICK w, v : w = ProcsWalked(p, at, Len(t)) /\ v = ProcsWalked(p, at + 1, Len(t))
    OBVIOUS
  <2>5. NextIs(t, w, p, at, v)
    <3>1. /\ Walk(t, w) /\ w[p] = at - 1 /\ v = [w EXCEPT ![p] = at]
          /\ p = "LOCAL_APIC" => w["LOCAL_X2APIC"] = 0
          /\ p = "LOCAL_X2APIC" => w["LOCAL_APIC"] = Len(t)
      BY <2>2, <2>4, ProcsWalk
    <3>2. at \in ProcsAs(t, p)
      BY <1>8, <2>2 DEF ProcsAs, Listed
    <3>3. at = w[p] + 1
      BY <3>1, <2>2
    <3> QED BY <3>1, <3>2, <3>3, <2>2 DEF NextIs
  <2>6. Cpus(t, w, early, nr, gone)
    BY <2>2, <2>4 DEF MadtInvariant, CpusInv
  <2>7. /\ cpu < NR_CPUS => Cpus(t, v, [early EXCEPT ![cpu] = CpuIn(t, at)], nr + 1, gone)
        /\ ~(cpu < NR_CPUS) => Cpus(t, v, early, nr, gone \cup {t[at].id})
    BY <2>2, <2>5, <2>6, CpusRegister
  <2>8. v = ProcsWalked(pc', pos', Len(madt'.entry)) /\ t = madt'.entry
    BY <2>2, <2>4
  <2>9. CASE cpu < NR_CPUS
    <3>1. /\ early_cpuid' = [early EXCEPT ![cpu] = CpuIn(t, at)]
          /\ nr_assigned_cpus' = nr + 1 /\ dropped' = gone
      BY <2>1, <2>2, <2>3, <2>9 DEF register_apic_id, CpuIn
    <3>2. CpusInv'
      BY <3>1, <2>7, <2>8, <2>9 DEF CpusInv
    <3>3. CpuIn(t, at) \in [apic_id : Nat, acpi_id : Nat]
      BY <2>2, <1>5 DEF CpuIn
    <3>4. early_cpuid' \in [0 .. NR_CPUS - 1 -> [apic_id : Nat, acpi_id : Nat]]
      BY <3>1, <3>3, <2>2
    <3>5. nr_assigned_cpus' \in Nat
      BY <3>1, <2>2
    <3>6. MadtType'
      BY <3>4, <3>5, <1>0, <1>1 DEF MadtInvariant, MadtType
    <3> QED BY <3>2, <3>6, <1>1, <1>3, <1>4 DEF MadtInvariant
  <2>10. CASE ~(cpu < NR_CPUS)
    <3>1. early_cpuid' = early /\ nr_assigned_cpus' = nr /\ dropped' = gone \cup {t[at].id}
      BY <2>1, <2>2, <2>3, <2>10 DEF register_apic_id
    <3>2. CpusInv'
      BY <3>1, <2>7, <2>8, <2>10 DEF CpusInv
    <3>3. MadtType'
      BY <3>1, <2>2, <1>0, <1>1 DEF MadtInvariant, MadtType
    <3> QED BY <3>2, <3>3, <1>1, <1>3, <1>4 DEF MadtInvariant
  <2> QED BY <2>9, <2>10
<1> QED BY <1>7, <1>8

\* The registers of an IO-APIC that begins a page are read where they are.
LEMMA RedirHere ==
    ASSUME NEW a \in Nat, a % PAGE_SIZE = 0, NEW s, ioapics[s] = <<>>, a \in DOMAIN Redir
    PROVE  RedirRead(io_apic_base(s, PageOf(a))) = {Redir[a]}
<1>1. PAGE_SIZE \in Nat \ {0}
  BY MadtAssumption
<1>2. (PageOf(a) * PAGE_SIZE) + 0 = a
  BY <1>1 DEF PageOf
<1>3. io_apic_base(s, PageOf(a)) = a
  BY <1>2 DEF io_apic_base
<1> QED BY <1>3 DEF RedirRead

\* An IO-APIC takes the next slot, if there is one.
LEMMA IoApicStep ==
    ASSUME MadtInvariant, pc \in PassNames, pos <= Len(madt.entry), madt.entry[pos].type = pc,
           err' = 0, count' = count + 1, pos' = pos + 1,
           UNCHANGED <<madt, x2apic_mode, pc, result, found>>,
           pc = "IO_APIC", acpi_parse_ioapic(madt.entry[pos])
    PROVE  MadtInvariant'
<1> DEFINE e == madt.entry[pos]
<1>0. UNCHANGED <<boot_cpu_apic_id, nr_assigned_cpus, early_cpuid, dropped, acpi_lapic_addr,
                  apic_fixmap, acpi_lapic, acpi_ioapic>>
  BY DEF acpi_parse_ioapic, cpus, lapic, found
<1>1. WalkInv' /\ pos \in 1 .. Len(madt.entry) /\ pos' \in 1 .. Len(madt.entry) + 1
      /\ e \in Entries /\ count' \in Nat
  BY <1>0, MatchWalk
<1>2. pc \notin ProcTypes
  BY DEF ProcTypes
<1>3. LapicInv'
  BY <1>0, LapicOn
<1>4. CpusInv'
  BY <1>0, <1>2, CpusKept
<1>5. e.id \in Nat /\ e.address \in Nat /\ e.gsi_base \in Nat /\ e.address \in DOMAIN Redir
      /\ Redir[e.address] \in Nat
  BY <1>1, MadtAssumption
<1>6. acpi_lapic # 0 /\ NR_IOAPIC \in Nat \ {0}
  BY MadtAssumption DEF MadtInvariant, WalkInv, IoPasses
<1>7. PICK t, at : t = madt.entry /\ at = pos /\ t \in Seq(Entries) /\ at \in 1 .. Len(t)
  BY <1>1 DEF MadtInvariant, MadtType
<1>8. PICK u \in Nat : at = u + 1
  BY <1>7
<1>9. /\ IoWalked(pc, acpi_lapic, pos, Len(madt.entry)) = u
      /\ IoWalked(pc', acpi_lapic', pos', Len(madt.entry)) = u + 1
  BY <1>0, <1>6, <1>7, <1>8 DEF IoWalked
<1>10. u + 1 \in Io(t) /\ t[u + 1] = e
  BY <1>7, <1>8 DEF Io
<1>11. PICK rec, nr, fix : rec = ioapics /\ nr = nr_ioapics /\ fix = io_fixmap
  OBVIOUS
<1>12. /\ Ios(t, u, rec, nr, fix) /\ nr \in Nat /\ fix \in [0 .. NR_IOAPIC - 1 -> Int]
       /\ DOMAIN rec = 0 .. NR_IOAPIC - 1 /\ rec = [s \in 0 .. NR_IOAPIC - 1 |-> rec[s]]
  BY <1>7, <1>9, <1>11 DEF MadtInvariant, MadtType, IosInv
<1>13. nr <= NR_IOAPIC
  <2>1. Rank(Io(t), u) \in Nat
    BY RankNat
  <2> QED BY <2>1, <1>6, <1>12 DEF Ios
<1>14. CASE nr = NR_IOAPIC
  <2>1. UNCHANGED <<ioapics, nr_ioapics, io_fixmap>>
    BY <1>14, <1>11 DEF acpi_parse_ioapic, mp_register_ioapic, HasIoSlot, ios
  <2>2. Ios(t, u + 1, rec, nr, fix)
    BY <1>14, <1>10, <1>12, <1>7, IosFull
  <2>3. IosInv'
    BY <2>1, <2>2, <1>7, <1>9, <1>11 DEF IosInv
  <2>4. MadtType'
    BY <2>1, <1>0, <1>1 DEF MadtInvariant, MadtType
  <2> QED BY <2>3, <2>4, <1>1, <1>3, <1>4 DEF MadtInvariant
<1>15. CASE nr # NR_IOAPIC
  <2>1. nr < NR_IOAPIC /\ nr \in 0 .. NR_IOAPIC - 1
    BY <1>13, <1>15, <1>12, <1>6
  <2>2. /\ io_fixmap' = [fix EXCEPT ![nr] = PageOf(e.address)]
        /\ \E m \in RedirRead(io_apic_base(nr_ioapics, PageOf(e.address))) :
              ioapics' = [rec EXCEPT ![nr] =
                 [id |-> e.id, phys_addr |-> e.address, gsi_base |-> e.gsi_base,
                  gsi_end |-> e.gsi_base + m - 1, nr_registers |-> m]]
        /\ nr_ioapics' = nr + 1
    BY <1>15, <1>11 DEF acpi_parse_ioapic, mp_register_ioapic, HasIoSlot, IoCount
  <2>3. PICK m \in RedirRead(io_apic_base(nr_ioapics, PageOf(e.address))) :
           ioapics' = [rec EXCEPT ![nr] =
              [id |-> e.id, phys_addr |-> e.address, gsi_base |-> e.gsi_base,
               gsi_end |-> e.gsi_base + m - 1, nr_registers |-> m]]
    BY <2>2
  <2>4. PICK a, r : a = e /\ r = [id |-> e.id, phys_addr |-> e.address, gsi_base |-> e.gsi_base,
                                  gsi_end |-> e.gsi_base + m - 1, nr_registers |-> m]
    OBVIOUS
  <2>5. PICK rec2, fix2 : rec2 = ioapics' /\ fix2 = io_fixmap'
    OBVIOUS
  <2>6. rec2 = [rec EXCEPT ![nr] = r] /\ fix2 = [fix EXCEPT ![nr] = PageOf(t[u + 1].address)]
    BY <2>2, <2>3, <2>4, <2>5, <1>10
  <2>7. rec2[nr] = r /\ fix2[nr] = PageOf(e.address)
    BY <2>6, <2>1, <1>10, <1>12
  <2>8. e.address % PAGE_SIZE = 0 => m = Redir[e.address]
    <3>1. ioapics[nr_ioapics] = <<>>
      BY <2>1, <1>11, <1>12 DEF Ios
    <3> QED BY <3>1, <2>3, <1>5, RedirHere
  <2>9. RecordedIn(rec2, fix2, nr, t[u + 1])
    BY <2>4, <2>7, <2>8, <1>10 DEF RecordedIn
  <2>10. Ios(t, u + 1, rec2, nr + 1, fix2)
    BY <2>1, <2>6, <2>9, <1>7, <1>10, <1>12, IosRegister
  <2>11. IosInv'
    BY <2>2, <2>5, <2>10, <1>7, <1>9 DEF IosInv
  <2>12. io_fixmap' \in [0 .. NR_IOAPIC - 1 -> Int]
    <3>1. PageOf(e.address) \in Int
      BY <1>5, MadtAssumption DEF PageOf
    <3> QED BY <3>1, <2>2, <1>12
  <2>13. DOMAIN ioapics' = 0 .. NR_IOAPIC - 1 /\ ioapics' = [s \in 0 .. NR_IOAPIC - 1 |-> ioapics'[s]]
    BY <2>5, <2>6, <1>12
  <2>14. nr_ioapics' \in Nat
    BY <2>2, <1>12
  <2>15. MadtType'
    BY <2>12, <2>13, <2>14, <1>0, <1>1 DEF MadtInvariant, MadtType
  <2> QED BY <2>11, <2>15, <1>1, <1>3, <1>4 DEF MadtInvariant
<1> QED BY <1>14, <1>15

\* The other handlers change the local APIC's address, or nothing.
LEMMA PlainStep ==
    ASSUME MadtInvariant, pc \in PassNames, pos <= Len(madt.entry), madt.entry[pos].type = pc,
           err' = 0, count' = count + 1, pos' = pos + 1,
           UNCHANGED <<madt, x2apic_mode, pc, result, found>>,
           pc \notin ProcTypes \cup {"IO_APIC"},
           UNCHANGED <<apic_fixmap, cpus, ios>>,
           acpi_lapic_addr' = IF pc = "LOCAL_APIC_OVERRIDE"
                              THEN madt.entry[pos].address ELSE acpi_lapic_addr
    PROVE  MadtInvariant'
<1>0. UNCHANGED <<boot_cpu_apic_id, nr_assigned_cpus, early_cpuid, dropped, ioapics, nr_ioapics,
                  io_fixmap, acpi_lapic, acpi_ioapic>>
  BY DEF cpus, ios, found
<1>1. WalkInv' /\ pos' \in 1 .. Len(madt.entry) + 1 /\ count' \in Nat
  BY <1>0, MatchWalk
<1>2. "start" \notin PassNames
  BY PassNamesAre DEF LapicPasses, IoPasses
<1>3. LapicInv'
  BY <1>0, <1>2, LapicOn
<1>4. CpusInv'
  BY <1>0, CpusKept
<1>5. IosInv'
  BY <1>0, IosKept
<1>6. MadtType'
  BY <1>0, <1>1 DEF MadtInvariant, MadtType
<1> QED BY <1>1, <1>3, <1>4, <1>5, <1>6 DEF MadtInvariant

LEMMA ParseMatchStep ==
    ASSUME MadtInvariant, ParseMatch
    PROVE  MadtInvariant'
<1>0. /\ pc \in PassNames /\ pos <= Len(madt.entry) /\ madt.entry[pos].type = pc
      /\ Handle(madt.entry[pos])
      /\ err' = 0 /\ count' = count + 1 /\ pos' = pos + 1
      /\ UNCHANGED <<madt, x2apic_mode, pc, result, found>>
  BY DEF ParseMatch, InPass
<1>1. CASE pc \in ProcTypes
  <2>1. ParseProcessor(madt.entry[pos])
    BY <1>0, <1>1 DEF Handle, ProcTypes
  <2> QED BY <2>1, <1>0, <1>1, ProcessorStep
<1>2. CASE pc = "IO_APIC"
  <2>1. acpi_parse_ioapic(madt.entry[pos])
    BY <1>0, <1>2 DEF Handle, ProcTypes
  <2> QED BY <2>1, <1>0, <1>2, IoApicStep
<1>3. CASE pc \notin ProcTypes \cup {"IO_APIC"}
  <2>1. /\ UNCHANGED <<apic_fixmap, cpus, ios>>
        /\ acpi_lapic_addr' = IF pc = "LOCAL_APIC_OVERRIDE"
                              THEN madt.entry[pos].address ELSE acpi_lapic_addr
    BY <1>0, <1>3 DEF Handle, acpi_parse_lapic_address_override, lapic
  <2> QED BY <2>1, <1>0, <1>3, PlainStep
<1> QED BY <1>1, <1>2, <1>3

\* What a pass returns is above 0 only if it found a subtable of its type.
LEMMA ReturnsFound ==
    ASSUME MadtInvariant, pc \in PassNames, NEW r \in Returns
    PROVE  r \in Int /\ (r > 0 => \E k \in 1 .. pos - 1 : madt.entry[k].type = pc)
<1>1. r = EINVAL \/ r = count
  BY DEF Returns
<1>2. count \in Nat
  BY DEF MadtInvariant, MadtType
<1>3. r > 0 => r = count
  BY <1>1 DEF EINVAL
<1> QED BY <1>1, <1>2, <1>3 DEF MadtInvariant, WalkInv, EINVAL

\* A pass that found IO-APICs recorded one.
LEMMA FoundRecorded ==
    ASSUME MadtInvariant, pc = "IO_APIC", pos > Len(madt.entry),
           \E k \in 1 .. pos - 1 : madt.entry[k].type = pc
    PROVE  nr_ioapics > 0
<1>1. PICK t, n : t = madt.entry /\ n = Len(t) /\ t \in Seq(Entries) /\ n \in Nat /\ pos = n + 1
  <2>1. madt.entry \in Seq(Entries) /\ pos \in 1 .. Len(madt.entry) + 1 /\ Len(madt.entry) \in Nat
    BY DEF MadtInvariant, MadtType
  <2>2. pos = Len(madt.entry) + 1
    BY <2>1
  <2> QED BY <2>1, <2>2
<1>2. PICK k \in 1 .. n : t[k].type = "IO_APIC"
  BY <1>1
<1>3. k \in Io(t) /\ k \in Nat \ {0} /\ k \in Nat /\ k <= n
  BY <1>1, <1>2 DEF Io
<1>4. Rank(Io(t), k) >= 1 /\ Rank(Io(t), k) <= Rank(Io(t), n)
      /\ Rank(Io(t), k) \in Nat /\ Rank(Io(t), n) \in Nat
  BY <1>1, <1>3, RankMember, RankMonotone, RankNat
<1>5. IoWalked(pc, acpi_lapic, pos, Len(madt.entry)) = n
  BY <1>1 DEF IoWalked, MadtInvariant, WalkInv, IoPasses
<1>6. nr_ioapics = IF Rank(Io(t), n) < NR_IOAPIC THEN Rank(Io(t), n) ELSE NR_IOAPIC
  BY <1>1, <1>5 DEF MadtInvariant, IosInv, Ios
<1> QED BY <1>4, <1>6, MadtAssumption

\* The end of a pass.
LEMMA ParseDoneStep ==
    ASSUME MadtInvariant, ParseDone
    PROVE  MadtInvariant'
<1>0. /\ pc \in PassNames /\ pos > Len(madt.entry)
      /\ pos' = 1 /\ err' = NONE /\ count' = 0
      /\ UNCHANGED <<madt, x2apic_mode, boot_cpu_apic_id, nr_assigned_cpus, early_cpuid, dropped,
                     acpi_lapic_addr, apic_fixmap, ioapics, nr_ioapics, io_fixmap>>
  BY DEF ParseDone, InPass, cpus, lapic, ios
<1>1. PICK r \in Returns :
          /\ result' = [result EXCEPT ![pc] = r]
          /\ pc' = AfterPass(pc, r)
          /\ acpi_lapic' = IF AfterPass(pc, r) = "IO_APIC" THEN 1 ELSE acpi_lapic
          /\ acpi_ioapic' = IF pc = "NMI_SOURCE" /\ r >= 0 THEN 1 ELSE acpi_ioapic
  BY DEF ParseDone
<1>2. PICK t, n : t = madt.entry /\ n = Len(t) /\ t \in Seq(Entries) /\ n \in Nat /\ pos = n + 1
  <2>1. madt.entry \in Seq(Entries) /\ pos \in 1 .. Len(madt.entry) + 1 /\ Len(madt.entry) \in Nat
    BY DEF MadtInvariant, MadtType
  <2>2. pos = Len(madt.entry) + 1
    BY <2>1, <1>0
  <2> QED BY <2>1, <2>2
<1>3. r \in Int /\ (r > 0 => \E k \in 1 .. pos - 1 : madt.entry[k].type = pc)
  BY <1>0, <1>1, ReturnsFound
<1>4. result \in [PassNames -> Int]
  BY DEF MadtInvariant, MadtType
<1>5. /\ pc = "LOCAL_APIC_OVERRIDE" => pc' = "register"
      /\ pc = "LOCAL_APIC" => pc' = "LOCAL_X2APIC"
      /\ pc = "LOCAL_X2APIC" => \/ pc' = "done"
                                \/ pc' = "LOCAL_APIC_NMI" /\ (result["LOCAL_APIC"] > 0 \/ r > 0)
      /\ pc = "LOCAL_APIC_NMI" => pc' = "LOCAL_X2APIC_NMI"
      /\ pc = "LOCAL_X2APIC_NMI" => pc' \in {"done", "IO_APIC"}
      /\ pc = "IO_APIC" => pc' = "done" \/ (pc' = "INTERRUPT_OVERRIDE" /\ r > 0)
      /\ pc = "INTERRUPT_OVERRIDE" => pc' \in {"done", "NMI_SOURCE"}
      /\ pc = "NMI_SOURCE" => pc' = "done"
  <2>1. result["LOCAL_APIC"] \in Int
    BY <1>4, PassNamesAre DEF LapicPasses
  <2>2. CASE pc = "LOCAL_X2APIC"
    BY <2>1, <2>2, <1>1, <1>3 DEF AfterPass
  <2>3. CASE pc = "IO_APIC"
    BY <2>3, <1>1, <1>3 DEF AfterPass
  <2>4. CASE pc \notin {"LOCAL_X2APIC", "IO_APIC"}
    BY <2>4, <1>1 DEF AfterPass
  <2> QED BY <2>2, <2>3, <2>4
<1>6. pc \in {"LOCAL_APIC_OVERRIDE", "LOCAL_APIC", "LOCAL_X2APIC", "LOCAL_APIC_NMI",
              "LOCAL_X2APIC_NMI", "IO_APIC", "INTERRUPT_OVERRIDE", "NMI_SOURCE"}
  BY <1>0, PassNamesAre DEF LapicPasses, IoPasses
<1>7. pc' \in {"register", "done"} \cup PassNames
  BY <1>5, <1>6, PassNamesAre DEF LapicPasses, IoPasses
<1>8. /\ acpi_lapic' = IF pc' = "IO_APIC" THEN 1 ELSE acpi_lapic
      /\ acpi_lapic' \in {0, 1} /\ acpi_ioapic' \in {0, 1}
  BY <1>1 DEF MadtInvariant, MadtType
<1>9. result' \in [PassNames -> Int]
  BY <1>0, <1>1, <1>3, <1>4
<1>10. MadtType'
  BY <1>0, <1>2, <1>7, <1>8, <1>9 DEF MadtInvariant, MadtType
<1>11. /\ pc \in LapicPasses \cup {"LOCAL_APIC_OVERRIDE"} => acpi_lapic = 0
       /\ pc \in IoPasses => acpi_lapic = 1
  BY DEF MadtInvariant, MadtType, WalkInv, LapicPasses, IoPasses
<1>12. WalkInv'
  <2>1. \A p \in PassNames : result'[p] > 0 => OfType(p) # {}
    <3>1. ASSUME NEW p \in PassNames, result'[p] > 0 PROVE OfType(p) # {}
      <4>1. CASE p = pc
        <5>1. r > 0
          BY <4>1, <3>1, <1>1, <1>4
        <5>2. PICK k \in 1 .. n : madt.entry[k].type = p
          BY <5>1, <4>1, <1>2, <1>3
        <5> QED BY <5>2, <1>2 DEF OfType
      <4>2. CASE p # pc
        BY <4>2, <3>1, <1>1, <1>4 DEF MadtInvariant, WalkInv
      <4> QED BY <4>1, <4>2
    <3> QED BY <3>1
  <2>2. \A p \in PassNames : result'[p] > 0 => OfType(p)' # {}
    BY <2>1, <1>0 DEF OfType
  <2>3. pc' \in {"LOCAL_APIC_NMI", "LOCAL_X2APIC_NMI"} \/ acpi_lapic' = 1 =>
           OfType("LOCAL_APIC") \cup OfType("LOCAL_X2APIC") # {}
    <3>1. CASE pc' = "LOCAL_APIC_NMI"
      <4>1. pc = "LOCAL_X2APIC" /\ (result["LOCAL_APIC"] > 0 \/ r > 0)
        BY <3>1, <1>5, <1>6
      <4>2. "LOCAL_APIC" \in PassNames /\ "LOCAL_X2APIC" \in PassNames
        BY PassNamesAre DEF LapicPasses
      <4>3. result'["LOCAL_X2APIC"] = r
        BY <4>1, <4>2, <1>1, <1>4
      <4>4. result["LOCAL_APIC"] > 0 => OfType("LOCAL_APIC") # {}
        BY <4>2 DEF MadtInvariant, WalkInv
      <4> QED BY <4>1, <4>2, <4>3, <4>4, <2>1
    <3>2. CASE pc' = "LOCAL_X2APIC_NMI" \/ (acpi_lapic' = 1 /\ pc' = "IO_APIC")
      <4>1. pc \in {"LOCAL_APIC_NMI", "LOCAL_X2APIC_NMI"}
        BY <3>2, <1>5, <1>6
      <4> QED BY <4>1 DEF MadtInvariant, WalkInv
    <3>3. CASE acpi_lapic' = 1 /\ pc' # "IO_APIC"
      <4>1. acpi_lapic = 1
        BY <3>3, <1>8
      <4> QED BY <4>1 DEF MadtInvariant, WalkInv
    <3> QED BY <3>1, <3>2, <3>3
  <2>4. pc' \in {"LOCAL_APIC_NMI", "LOCAL_X2APIC_NMI"} \/ acpi_lapic' = 1 =>
           OfType("LOCAL_APIC")' \cup OfType("LOCAL_X2APIC")' # {}
    BY <2>3, <1>0 DEF OfType
  <2>5. acpi_lapic' = 1 => pc' \in IoPasses \cup {"done"}
    BY <1>5, <1>6, <1>8, <1>11 DEF IoPasses, LapicPasses
  <2>6. pc' \in IoPasses => acpi_lapic' = 1
    BY <1>5, <1>6, <1>8, <1>11 DEF IoPasses
  <2>7. pc' \in {"INTERRUPT_OVERRIDE", "NMI_SOURCE"} => nr_ioapics' > 0
    <3>1. CASE pc' = "INTERRUPT_OVERRIDE"
      <4>1. pc = "IO_APIC" /\ r > 0
        BY <3>1, <1>5, <1>6
      <4> QED BY <4>1, <1>0, <1>3, FoundRecorded
    <3>2. CASE pc' = "NMI_SOURCE"
      <4>1. pc = "INTERRUPT_OVERRIDE"
        BY <3>2, <1>5, <1>6
      <4> QED BY <4>1, <1>0 DEF MadtInvariant, WalkInv
    <3> QED BY <3>1, <3>2
  <2>8. acpi_ioapic' = 1 => pc' = "done" /\ acpi_lapic' = 1 /\ nr_ioapics' > 0
    <3>1. acpi_ioapic # 1
      BY <1>6 DEF MadtInvariant, WalkInv
    <3>2. acpi_ioapic' = 1 => pc = "NMI_SOURCE"
      BY <3>1, <1>1
    <3> QED BY <3>2, <1>0, <1>5, <1>8 DEF MadtInvariant, WalkInv, IoPasses
  <2>9. ~(count' > 0)
    BY <1>0
  <2> QED BY <2>2, <2>4, <2>5, <2>6, <2>7, <2>8, <2>9, <1>0 DEF WalkInv
<1>13. LapicInv'
  <2>1. OverWalked(pc, pos, Len(madt.entry)) = n /\ OverWalked(pc', pos', Len(madt'.entry)) = n
    BY <1>0, <1>2, <1>5, <1>6 DEF OverWalked
  <2>2. pc # "start" /\ pc' # "start"
    BY <1>5, <1>6
  <2>3. acpi_lapic_addr' = AddressAfter(madt'.entry, madt'.address,
                                        OverWalked(pc', pos', Len(madt'.entry)))
    BY <2>1, <2>2, <1>0 DEF MadtInvariant, LapicInv
  <2>4. pc \notin BeforeLapic => pc' \notin BeforeLapic
    BY <1>5, <1>6 DEF BeforeLapic
  <2>5. apic_fixmap' # NONE =>
          /\ pc' \notin BeforeLapic
          /\ apic_fixmap' = AddressAfter(madt'.entry, madt'.address, Len(madt'.entry))
    BY <2>4, <1>0 DEF MadtInvariant, LapicInv
  <2>6. pc' \notin BeforeLapic => boot_cpu_apic_id' = Bsp
    <3>1. pc' \notin BeforeLapic => pc \notin BeforeLapic
      BY <1>5, <1>6 DEF BeforeLapic
    <3> QED BY <3>1, <1>0 DEF MadtInvariant, LapicInv
  <2> QED BY <2>2, <2>3, <2>5, <2>6 DEF LapicInv
<1>14. CpusInv'
  <2>1. ProcsWalked(pc', pos', Len(madt.entry)) = ProcsWalked(pc, pos, Len(madt.entry))
    <3>1. ASSUME NEW ty \in ProcTypes
          PROVE  ProcsWalked(pc', pos', n)[ty] = ProcsWalked(pc, pos, n)[ty]
      <4>1. ty = "LOCAL_APIC" \/ ty = "LOCAL_X2APIC"
        BY DEF ProcTypes
      <4>2. pos' - 1 = 0 /\ pos - 1 = n
        BY <1>0, <1>2
      <4> QED BY <4>1, <4>2, <1>5, <1>6 DEF ProcsWalked, BeforeLapic
    <3>2. ProcsWalked(pc', pos', n) = [ty \in ProcTypes |-> ProcsWalked(pc', pos', n)[ty]]
          /\ ProcsWalked(pc, pos, n) = [ty \in ProcTypes |-> ProcsWalked(pc, pos, n)[ty]]
      BY DEF ProcsWalked
    <3>3. ProcsWalked(pc', pos', n) = ProcsWalked(pc, pos, n)
      BY <3>1, <3>2
    <3> QED BY <3>3, <1>2
  <2> QED BY <2>1, <1>0, CpusSame
<1>15. IosInv'
  <2>1. IoWalked(pc', acpi_lapic', pos', Len(madt.entry))
        = IoWalked(pc, acpi_lapic, pos, Len(madt.entry))
    <3>1. pos' - 1 = 0 /\ pos - 1 = n /\ n = Len(madt.entry)
      BY <1>0, <1>2
    <3> QED BY <3>1, <1>5, <1>6, <1>8, <1>11 DEF IoWalked, LapicPasses, IoPasses
  <2> QED BY <2>1, <1>0, IosSame
<1> QED BY <1>10, <1>12, <1>13, <1>14, <1>15 DEF MadtInvariant

-----------------------------------------------------------------------------
(* The theorems.                                                           *)

LEMMA MadtUnchanged == MadtInvariant /\ UNCHANGED vars => MadtInvariant'
<1> SUFFICES ASSUME MadtInvariant, UNCHANGED vars PROVE MadtInvariant'
  OBVIOUS
<1>1. UNCHANGED <<madt, x2apic_mode, pc, pos, err, count, result, boot_cpu_apic_id,
                  nr_assigned_cpus, early_cpuid, dropped, acpi_lapic_addr, apic_fixmap,
                  ioapics, nr_ioapics, io_fixmap, acpi_lapic, acpi_ioapic>>
  BY DEF vars, walk, cpus, lapic, ios, found
<1>2. MadtType'
  BY <1>1 DEF MadtInvariant, MadtType
<1>3. WalkInv'
  BY <1>1 DEF MadtInvariant, WalkInv, OfType
<1>4. LapicInv'
  BY <1>1 DEF MadtInvariant, LapicInv
<1>5. CpusInv'
  BY <1>1, CpusSame
<1>6. IosInv'
  BY <1>1, IosSame
<1> QED BY <1>2, <1>3, <1>4, <1>5, <1>6 DEF MadtInvariant

LEMMA MadtNext == MadtInvariant /\ [Next]_vars => MadtInvariant'
BY ParseMadtStep, RegisterLapicStep, ParseMatchStep, ParseOtherStep, ParseDoneStep, MadtUnchanged
   DEF Next

LEMMA MadtAlways == Spec => []MadtInvariant
<1> QED BY MadtInit, MadtNext, PTL DEF Spec

\* The counts of Madt are ranks.
LEMMA CountsAre ==
    ASSUME NEW n \in Nat, n <= Len(madt.entry), madt.entry \in Seq(Entries)
    PROVE  /\ \A ty \in ProcTypes : ListedAs(ty, n) = Rank(ProcsAs(madt.entry, ty), n)
           /\ IoAmong(n) = Rank(Io(madt.entry), n)
<1>1. ASSUME NEW ty \in ProcTypes
      PROVE  ListedAs(ty, n) = Rank(ProcsAs(madt.entry, ty), n)
  <2>1. {k \in 1 .. n : k \in Processors /\ madt.entry[k].type = ty} = Below(ProcsAs(madt.entry, ty), n)
    BY DEF Below, ProcsAs, Processors
  <2> QED BY <2>1 DEF ListedAs, Rank
<1>2. {k \in 1 .. n : madt.entry[k].type = "IO_APIC"} = Below(Io(madt.entry), n)
  <2>1. \A k \in 1 .. n : k \in DOMAIN madt.entry
    OBVIOUS
  <2> QED BY <2>1 DEF Below, Io
<1> QED BY <1>1, <1>2 DEF IoAmong, Rank

\* The kernel's numbers of processors are those of the MADT: 0 for the boot
\* processor, the place in the order of the passes for the others, each only
\* once, and only those beyond NR_CPUS are dropped; the local APIC is mapped
\* where the MADT says.
THEOREM CpusNumbered == Spec => []CpuNumbers
<1>1. MadtInvariant => CpuNumbers
  <2> SUFFICES ASSUME MadtInvariant PROVE CpuNumbers
    OBVIOUS
  <2>1. PICK t, n : t = madt.entry /\ n = Len(t) /\ t \in Seq(Entries) /\ n \in Nat /\ DOMAIN t = 1 .. n
    BY DEF MadtInvariant, MadtType
  <2>2. ASSUME NEW k \in Processors
        PROVE  CpuNumber(k) = NumberIn(t, k) /\ CpuEntry(k) = CpuIn(t, k)
    <3>1. k \in 1 .. n /\ k \in Nat /\ t[k].type \in ProcTypes
      BY <2>1 DEF Processors, Listed
    <3>2. \A ty \in ProcTypes : ListedAs(ty, k) = Rank(ProcsAs(t, ty), k)
                                /\ ListedAs(ty, n) = Rank(ProcsAs(t, ty), n)
      BY <3>1, <2>1, CountsAre
    <3>3. Place(k) = PlaceIn(t, k)
      BY <3>2, <2>1 DEF Place, PlaceIn, ProcTypes
    <3> QED BY <3>3, <2>1 DEF CpuNumber, NumberIn, CpuEntry, CpuIn
  <2>3. ASSUME ProcessorsRead
        PROVE  /\ \A k \in Processors :
                     CpuNumber(k) < NR_CPUS => early_cpuid[CpuNumber(k)] = CpuEntry(k)
               /\ \A c \in 0 .. NR_CPUS - 1 :
                     early_cpuid[c] # NoCpu =>
                         \E k \in Processors : c = CpuNumber(k) /\ early_cpuid[c] = CpuEntry(k)
               /\ dropped = {madt.entry[k].id : k \in {x \in Processors : CpuNumber(x) >= NR_CPUS}}
    <3> DEFINE w == ProcsWalked(pc, pos, n)
    <3>1. w = [ty \in ProcTypes |-> n]
      BY <2>3 DEF ProcessorsRead, ProcsWalked, BeforeLapic, ProcTypes
    <3> HIDE DEF w
    <3>2. Walked(t, w) = Processors
      <4>1. \A k \in Listed(t) : t[k].type \in ProcTypes /\ k <= n
        BY <2>1 DEF Listed
      <4> QED BY <4>1, <3>1, <2>1 DEF Walked, Processors
    <3>3. Cpus(t, w, early_cpuid, nr_assigned_cpus, dropped)
      BY <2>1 DEF MadtInvariant, CpusInv, w
    <3>4. {x \in Processors : CpuNumber(x) >= NR_CPUS} = {x \in Processors : NumberIn(t, x) >= NR_CPUS}
      BY <2>2
    <3>5. dropped = {t[k].id : k \in {x \in Processors : NumberIn(t, x) >= NR_CPUS}}
      BY <3>2, <3>3 DEF Cpus
    <3>6. \A k \in Processors :
             NumberIn(t, k) < NR_CPUS => early_cpuid[NumberIn(t, k)] = CpuIn(t, k)
      BY <3>2, <3>3 DEF Cpus
    <3>7. \A c \in 0 .. NR_CPUS - 1 :
             early_cpuid[c] # NoCpu =>
                \E k \in Processors : c = NumberIn(t, k) /\ early_cpuid[c] = CpuIn(t, k)
      BY <3>2, <3>3 DEF Cpus
    <3>8. \A k \in Processors :
             CpuNumber(k) < NR_CPUS => early_cpuid[CpuNumber(k)] = CpuEntry(k)
      BY <3>6, <2>2
    <3>9. \A c \in 0 .. NR_CPUS - 1 :
             early_cpuid[c] # NoCpu =>
                \E k \in Processors : c = CpuNumber(k) /\ early_cpuid[c] = CpuEntry(k)
      BY <3>7, <2>2
    <3>10. dropped = {madt.entry[k].id : k \in {x \in Processors : CpuNumber(x) >= NR_CPUS}}
      BY <3>4, <3>5, <2>1
    <3> QED BY <3>8, <3>9, <3>10
  <2>4. ASSUME apic_fixmap # NONE
        PROVE  apic_fixmap = IF OfType("LOCAL_APIC_OVERRIDE") # {}
                             THEN madt.entry[LastOf(OfType("LOCAL_APIC_OVERRIDE"))].address
                             ELSE IF madt.address # 0 THEN madt.address
                             ELSE APIC_DEFAULT_PHYS_BASE
    <3>1. Overrides(t, n) = OfType("LOCAL_APIC_OVERRIDE")
      BY <2>1 DEF Overrides, OfType
    <3>2. apic_fixmap = AddressAfter(t, madt.address, n)
      BY <2>4, <2>1 DEF MadtInvariant, LapicInv
    <3> QED BY <3>1, <3>2, <2>1 DEF AddressAfter
  <2> QED BY <2>3, <2>4 DEF CpuNumbers
<1> QED BY <1>1, MadtAlways, PTL

\* The IO-APICs the kernel knows are the first of the MADT, each whole and in
\* a slot of its own, and 'found' is said only of what is there.
THEOREM IoApicsKept == Spec => []IoApicsFaithful
<1>1. MadtInvariant => IoApicsFaithful
  <2> SUFFICES ASSUME MadtInvariant PROVE IoApicsFaithful
    OBVIOUS
  <2>1. PICK t, n : t = madt.entry /\ n = Len(t) /\ t \in Seq(Entries) /\ n \in Nat /\ DOMAIN t = 1 .. n
    BY DEF MadtInvariant, MadtType
  <2>2. PICK w, at : w = IoWalked(pc, acpi_lapic, at, n) /\ at = pos /\ w \in Nat /\ w <= n
    <3>1. IoWalked(pc, acpi_lapic, pos, n) \in 0 .. n
      BY <2>1 DEF IoWalked, MadtInvariant, MadtType
    <3> QED BY <3>1
  <2>3. Ios(t, w, ioapics, nr_ioapics, io_fixmap)
    BY <2>1, <2>2 DEF MadtInvariant, IosInv
  <2>4. Rank(Io(t), w) <= Rank(Io(t), n) /\ Rank(Io(t), w) \in Nat /\ Rank(Io(t), n) \in Nat
        /\ NR_IOAPIC \in Nat
    BY <2>1, <2>2, RankMonotone, RankNat, MadtAssumption
  <2>5. nr_ioapics = IF Rank(Io(t), w) < NR_IOAPIC THEN Rank(Io(t), w) ELSE NR_IOAPIC
    BY <2>3 DEF Ios
  <2>6. IoAmong(Len(madt.entry)) = Rank(Io(t), n)
    BY <2>1, CountsAre
  <2>7. nr_ioapics <= IoAmong(Len(madt.entry))
    BY <2>4, <2>5, <2>6
  <2>8. acpi_ioapic = 1 => nr_ioapics = IF IoAmong(Len(madt.entry)) < NR_IOAPIC
                                        THEN IoAmong(Len(madt.entry)) ELSE NR_IOAPIC
    <3>1. acpi_ioapic = 1 => w = n
      BY <2>2 DEF MadtInvariant, WalkInv, IoWalked
    <3> QED BY <3>1, <2>5, <2>6
  <2>9. ASSUME NEW k \in OfType("IO_APIC"), IoAmong(k) <= nr_ioapics
        PROVE  RecordedAt(IoAmong(k) - 1, madt.entry[k])
    <3>1. k \in 1 .. n /\ k \in Nat /\ k \in Io(t) /\ k \in Nat \ {0}
      BY <2>1 DEF OfType, Io
    <3>2. IoAmong(k) = Rank(Io(t), k) /\ Rank(Io(t), k) \in Nat
      BY <3>1, <2>1, CountsAre, RankNat
    <3>3. k <= w
      <4>1. ASSUME w < k PROVE FALSE
        <5>1. w + 1 \in Nat /\ w + 1 <= k /\ k - 1 \in Nat /\ (k - 1) + 1 = k /\ w <= k - 1
          BY <4>1, <3>1, <2>2
        <5>2. Rank(Io(t), (k - 1) + 1) = Rank(Io(t), k - 1) + 1
          BY <5>1, <3>1, RankNext
        <5>3. Rank(Io(t), w) <= Rank(Io(t), k - 1) /\ Rank(Io(t), k - 1) \in Nat
          BY <5>1, <2>2, RankMonotone, RankNat
        <5> QED BY <5>1, <5>2, <5>3, <3>2, <2>4, <2>5, <2>9
      <4> QED BY <4>1, <3>1, <2>2
    <3>4. Rank(Io(t), k) <= NR_IOAPIC
      BY <3>2, <2>4, <2>5, <2>9
    <3>5. RecordedIn(ioapics, io_fixmap, Rank(Io(t), k) - 1, t[k])
      BY <3>1, <3>3, <3>4, <2>3 DEF Ios
    <3> QED BY <3>2, <3>5, <2>1 DEF RecordedIn, RecordedAt
  <2>10. /\ acpi_lapic = 1 => OfType("LOCAL_APIC") \cup OfType("LOCAL_X2APIC") # {}
         /\ acpi_ioapic = 1 => acpi_lapic = 1 /\ nr_ioapics > 0
    BY DEF MadtInvariant, WalkInv
  <2>11. nr_ioapics > 0 => acpi_lapic = 1
    <3>1. ASSUME acpi_lapic # 1 PROVE nr_ioapics = 0
      <4>1. w = 0
        BY <3>1, <2>2 DEF IoWalked, MadtInvariant, MadtType
      <4>2. Rank(Io(t), 0) = 0
        BY RankZero
      <4> QED BY <4>1, <4>2, <2>5, <2>4
    <3> QED BY <3>1
  <2> QED BY <2>7, <2>8, <2>9, <2>10, <2>11 DEF IoApicsFaithful
<1> QED BY <1>1, MadtAlways, PTL
=============================================================================
