----------------------------- MODULE AcpiProofs -----------------------------
(***************************************************************************)
(* Theorems about Acpi, for every set of tables, every length of the XSDT  *)
(* and of the array, every size of the window, and every word behind it.   *)
(***************************************************************************)
EXTENDS Acpi, FiniteSetTheorems, SequenceTheorems, WellFoundedInduction, TLAPS

-----------------------------------------------------------------------------
(* The inductive invariant.                                                *)

Acquiring == {"header", "length", "map", "validate"}
Booted == {"idle", "handler", "failed"}
Ranging == {"length", "validate", "add", "handler"}
Stopped == {"spin", "assert"}
Places == {"init", "entries", "add", "halt"} \cup Acquiring \cup Booted \cup Stopped

AcpiType ==
    /\ xsdt.pages \in Nat /\ xsdt.valid \in BOOLEAN
    /\ xsdt.entry \in Seq(Tables \cup {NULL})
    /\ acpi_tables \in Seq(Tables)
    /\ pc \in Places
    /\ cur \in Addrs
    /\ i \in 1 .. Len(xsdt.entry) + 1
    /\ table \in Tables \cup {NULL}
    /\ req.instance \in Nat

\* The XSDT stays mapped while its entries are read.
XsdtHeld == pc \in {"entries", "add"} \/ (pc \in Acquiring /\ cur # XSDT)

\* The pages of the XSDT while it is held, of what is mapped behind it, and
\* how many of the entries have had their headers mapped.
Root == IF XsdtHeld THEN xsdt.pages ELSE 0
Top ==
    IF pc = "length" THEN HeadPages[cur]
    ELSE IF pc \in {"validate", "add"} THEN PagesAt(cur)
    ELSE IF pc = "handler" THEN Pages[table]
    ELSE 0
Seen == IF pc \in {"map", "validate", "add"} /\ cur # XSDT THEN i ELSE i - 1

\* A range of n pages, one of t pages behind it, and the last slot.
Blocks(n, t, lost) ==
    [s \in Slots |-> IF s = 0 /\ n > 0 THEN n
                     ELSE IF s = n /\ t > 0 THEN t
                     ELSE IF s = Window - 1 /\ lost THEN 1
                     ELSE NONE]

\* Slots that are lost.
Lost(lost) == IF lost THEN 1 ELSE 0

WindowInv ==
    pc \notin Stopped =>
        /\ mapping = Blocks(Root, Top, Leaked(Seen))
        /\ slot = [a \in Addrs |->
                     IF a = XSDT /\ XsdtHeld THEN 0
                     ELSE IF \/ a = cur /\ pc \in {"length", "validate", "add"}
                             \/ a = table /\ pc = "handler" THEN Root
                     ELSE NONE]
        /\ pc \in Ranging => Top > 0 /\ Root + Top + Lost(Leaked(Seen)) <= Window

\* What is known of the table in work.
WorkInv ==
    /\ XsdtHeld => xsdt.pages \in 1 .. Window
    /\ pc \in Acquiring \cup {"add"} /\ cur # XSDT =>
          i <= Len(xsdt.entry) /\ cur = xsdt.entry[i]
    /\ pc \in {"map", "validate", "add"} /\ cur # XSDT =>
          xsdt.pages + HeadPages[cur] <= Window
    /\ pc = "add" => cur # XSDT /\ Usable(i)
    /\ pc \in {"init", "halt"} \/ (pc \in Acquiring /\ cur = XSDT) => i = 1
    /\ pc \in Booted => i = Len(xsdt.entry) + 1
    /\ pc = "handler" => table \in Tables

\* A table that fits beside the XSDT x.
Fit(x, t) == Pages[t] > 0 /\ x.pages + Pages[t] <= Window

\* The array after the entries before i: the usable ones, in order.
Bounded(n) == IF n < ACPI_MAX_INIT_TABLES THEN n ELSE ACPI_MAX_INIT_TABLES
ArrayInv ==
    /\ Len(acpi_tables) = Bounded(UsableAmong(i - 1))
    /\ \A k \in 1 .. i - 1 :
          Usable(k) /\ UsableAmong(k) <= ACPI_MAX_INIT_TABLES =>
             acpi_tables[UsableAmong(k)] = xsdt.entry[k]
    /\ \A j \in DOMAIN acpi_tables : Fit(xsdt, acpi_tables[j])

AcpiInvariant == AcpiType /\ WindowInv /\ WorkInv /\ ArrayInv /\ AnswerRight

-----------------------------------------------------------------------------
(* Counting the members of a set of indices up to one of them.             *)

Below(S, n) == {k \in 1 .. n : k \in S}
Rank(S, n) == Cardinality(Below(S, n))

\* A set of naturals that is not empty has a least member.
LEMMA LeastNatural ==
    ASSUME NEW S \in SUBSET Nat, S # {}
    PROVE  \E j \in S : \A k \in S : j <= k
<1>1. PICK j \in S : \A k \in S : ~(<<k, j>> \in OpToRel(<, Nat))
  BY NatLessThanWellFounded, WFMin
<1>2. \A k \in S : ~(k < j)
  BY <1>1 DEF OpToRel
<1> QED BY <1>2

\* The count is a natural, at most the number of indices.
LEMMA RankNat ==
    ASSUME NEW S, NEW n \in Nat
    PROVE  IsFiniteSet(Below(S, n)) /\ Rank(S, n) \in Nat /\ Rank(S, n) <= n
<1>1. IsFiniteSet(1 .. n) /\ Cardinality(1 .. n) = n
  BY FS_Interval
<1>2. Below(S, n) \in SUBSET (1 .. n)
  BY DEF Below
<1>3. IsFiniteSet(Below(S, n)) /\ Cardinality(Below(S, n)) <= n
  BY <1>1, <1>2, FS_Subset
<1> QED BY <1>3, FS_CardinalityType DEF Rank

\* Nothing is counted before the first index.
LEMMA RankZero ==
    ASSUME NEW S
    PROVE  Rank(S, 0) = 0
<1>1. Below(S, 0) = {}
  BY DEF Below
<1> QED BY <1>1, FS_EmptySet DEF Rank

\* One more index counts if it is a member.
LEMMA RankNext ==
    ASSUME NEW S, NEW n \in Nat
    PROVE  Rank(S, n + 1) = IF n + 1 \in S THEN Rank(S, n) + 1 ELSE Rank(S, n)
<1>1. CASE n + 1 \in S
  <2>1. Below(S, n + 1) = Below(S, n) \cup {n + 1}
    BY <1>1 DEF Below
  <2>2. n + 1 \notin Below(S, n)
    BY DEF Below
  <2> QED BY <2>1, <2>2, <1>1, RankNat, FS_AddElement DEF Rank
<1>2. CASE n + 1 \notin S
  <2>1. Below(S, n + 1) = Below(S, n)
    BY <1>2 DEF Below
  <2> QED BY <2>1, <1>2 DEF Rank
<1> QED BY <1>1, <1>2

\* The count never falls.
LEMMA RankMonotone ==
    ASSUME NEW S, NEW m \in Nat, NEW n \in Nat, m <= n
    PROVE  Rank(S, m) <= Rank(S, n)
<1>1. Below(S, m) \in SUBSET Below(S, n)
  BY DEF Below
<1> QED BY <1>1, RankNat, FS_Subset DEF Rank

\* A member is counted.
LEMMA RankMember ==
    ASSUME NEW S, NEW n \in Nat \ {0}, n \in S
    PROVE  Rank(S, n) >= 1
<1>1. n - 1 \in Nat /\ (n - 1) + 1 = n
  OBVIOUS
<1>2. Rank(S, (n - 1) + 1) = Rank(S, n - 1) + 1
  BY <1>1, RankNext
<1> QED BY <1>1, <1>2, RankNat

\* Every count up to the last is reached at a member.
LEMMA RankReached ==
    ASSUME NEW S, NEW n \in Nat, NEW k \in 1 .. Rank(S, n)
    PROVE  \E j \in 1 .. n : j \in S /\ Rank(S, j) = k
<1> DEFINE far == {j \in 0 .. n : k <= Rank(S, j)}
<1>0. Rank(S, n) \in Nat /\ k \in Nat \ {0}
  BY RankNat
<1>1. n \in far /\ far \in SUBSET Nat
  BY <1>0
<1>2. PICK j \in far : \A h \in far : j <= h
  BY <1>1, LeastNatural
<1>3. j \in 0 .. n /\ k <= Rank(S, j)
  BY <1>2
<1>4. j # 0
  BY <1>3, <1>0, RankZero
<1>5. j - 1 \in 0 .. n /\ j - 1 \in Nat /\ (j - 1) + 1 = j
  BY <1>3, <1>4
<1>6. j - 1 \notin far
  BY <1>2, <1>5
<1>7. Rank(S, j - 1) < k
  BY <1>6, <1>5, <1>0, RankNat
<1>8. Rank(S, j) = IF j \in S THEN Rank(S, j - 1) + 1 ELSE Rank(S, j - 1)
  BY <1>5, RankNext
<1>9. Rank(S, j - 1) \in Nat
  BY <1>5, RankNat
<1> HIDE DEF far
<1>10. j \in S /\ Rank(S, j) = k
  BY <1>8, <1>9, <1>7, <1>3, <1>0
<1> QED BY <1>10, <1>3, <1>4

-----------------------------------------------------------------------------
(* The window: ranges side by side from its start, and perhaps its last    *)
(* slot.                                                                   *)

Taken(m) == UNION {s .. s + m[s] - 1 : s \in {s \in Slots : m[s] # NONE}}
RunsOf(m, p) == {s \in Slots : s + p <= Window /\ (s .. s + p - 1) \cap Taken(m) = {}}

LEMMA TakenIs ==
    /\ Reserved = Taken(mapping)
    /\ \A p : Runs(p) = RunsOf(mapping, p)
<1>1. Reserved = Taken(mapping)
  BY DEF Reserved, Taken
<1> QED BY <1>1 DEF Runs, RunsOf

\* What the ranges take.
LEMMA TakenBlocks ==
    ASSUME NEW n \in Nat, NEW t \in Nat, NEW lost \in BOOLEAN, n + t + Lost(lost) <= Window
    PROVE  Taken(Blocks(n, t, lost)) = (0 .. n + t - 1) \cup (IF lost THEN {Window - 1} ELSE {})
<1> DEFINE m == Blocks(n, t, lost)
           U == (0 .. n + t - 1) \cup (IF lost THEN {Window - 1} ELSE {})
<1>0. Window \in Nat \ {0, 1} /\ Lost(lost) \in {0, 1} /\ (lost => Lost(lost) = 1)
  BY AcpiAssumption DEF Lost
<1>1. ASSUME NEW s \in Slots
      PROVE  /\ m[s] = IF s = 0 /\ n > 0 THEN n
                       ELSE IF s = n /\ t > 0 THEN t
                       ELSE IF s = Window - 1 /\ lost THEN 1 ELSE NONE
  BY DEF Blocks
<1>2. ASSUME NEW s \in Slots, m[s] # NONE, NEW v \in s .. s + m[s] - 1
      PROVE  v \in U
  <2>1. s \in 0 .. Window - 1
    BY DEF Slots
  <2>2. CASE s = 0 /\ n > 0
    <3>1. m[s] = n
      BY <2>2, <1>1
    <3> HIDE DEF m
    <3>2. v \in 0 .. n - 1
      BY <3>1, <2>2, <1>2
    <3> QED BY <3>2
  <2>3. CASE ~(s = 0 /\ n > 0) /\ s = n /\ t > 0
    <3>1. m[s] = t
      BY <2>3, <1>1
    <3> HIDE DEF m
    <3>2. v \in n .. n + t - 1
      BY <3>1, <2>3, <1>2
    <3> QED BY <3>2
  <2>4. CASE ~(s = 0 /\ n > 0) /\ ~(s = n /\ t > 0)
    <3>1. s = Window - 1 /\ lost /\ m[s] = 1
      BY <2>4, <1>1, <1>2
    <3> HIDE DEF m
    <3>2. v = Window - 1
      BY <3>1, <1>0, <1>2
    <3> QED BY <3>1, <3>2
  <2> QED BY <2>2, <2>3, <2>4
<1>3. ASSUME NEW v \in U
      PROVE  \E s \in Slots : m[s] # NONE /\ v \in s .. s + m[s] - 1
  <2>1. CASE v \in 0 .. n - 1
    <3>1. 0 \in Slots /\ n > 0
      BY <2>1, <1>0 DEF Slots
    <3>2. m[0] = n
      BY <3>1, <1>1
    <3> HIDE DEF m
    <3>3. m[0] # NONE /\ v \in 0 .. 0 + m[0] - 1
      BY <2>1, <3>1, <3>2 DEF NONE
    <3> QED BY <3>1, <3>3
  <2>2. CASE v \in n .. n + t - 1
    <3>1. n \in Slots /\ t > 0 /\ v \in Int /\ n <= v /\ v <= n + t - 1
      BY <2>2, <1>0 DEF Slots
    <3>2. m[n] = t
      <4>1. ~(n = 0 /\ n > 0)
        OBVIOUS
      <4> QED BY <3>1, <1>1, <4>1
    <3> HIDE DEF m
    <3>3. m[n] # NONE /\ v \in n .. n + m[n] - 1
      BY <3>1, <3>2 DEF NONE
    <3> QED BY <3>1, <3>3
  <2>3. CASE lost /\ v = Window - 1 /\ ~(v \in 0 .. n + t - 1)
    <3>1. Window - 1 \in Slots /\ Window - 1 # 0 /\ ~(Window - 1 = n /\ t > 0)
      BY <2>3, <1>0 DEF Slots
    <3>2. m[Window - 1] = 1
      BY <3>1, <2>3, <1>1
    <3> HIDE DEF m
    <3>3. m[Window - 1] # NONE /\ v \in (Window - 1) .. ((Window - 1) + m[Window - 1] - 1)
      BY <3>2, <2>3, <1>0 DEF NONE
    <3> QED BY <3>1, <3>3
  <2>4. v \in 0 .. n + t - 1 => v \in 0 .. n - 1 \/ v \in n .. n + t - 1
    BY <1>0
  <2>5. v \in 0 .. n + t - 1 \/ (lost /\ v = Window - 1)
    OBVIOUS
  <2> HIDE DEF m, U
  <2> QED BY <2>1, <2>2, <2>3, <2>4, <2>5
<1> HIDE DEF U, m
<1>4. Taken(m) = U
  BY <1>2, <1>3 DEF Taken
<1> QED BY <1>4 DEF U, m

\* Two functions on the slots that agree on each are the same.
LEMMA SameSlots ==
    ASSUME NEW f, NEW g, f = [s \in Slots |-> f[s]], g = [s \in Slots |-> g[s]],
           NEW n \in Slots, NEW v,
           \A s \in Slots : (IF s = n THEN v ELSE f[s]) = g[s]
    PROVE  [f EXCEPT ![n] = v] = g
<1>1. [f EXCEPT ![n] = v] = [s \in Slots |-> IF s = n THEN v ELSE f[s]]
  OBVIOUS
<1>2. [s \in Slots |-> IF s = n THEN v ELSE f[s]] = [s \in Slots |-> g[s]]
  OBVIOUS
<1> QED BY <1>1, <1>2

\* The range at a slot.
LEMMA BlocksAt ==
    ASSUME NEW n, NEW t, NEW lost
    PROVE  /\ Blocks(n, t, lost) = [s \in Slots |-> Blocks(n, t, lost)[s]]
           /\ \A s \in Slots :
                 Blocks(n, t, lost)[s] = IF s = 0 /\ n > 0 THEN n
                                         ELSE IF s = n /\ t > 0 THEN t
                                         ELSE IF s = Window - 1 /\ lost THEN 1
                                         ELSE NONE
BY DEF Blocks

\* Pages are found if there are as many behind the first range, and are the
\* ones right behind it.
LEMMA FirstFit ==
    ASSUME NEW n \in Nat, NEW p \in Nat \ {0}, NEW lost \in BOOLEAN, n + Lost(lost) <= Window
    PROVE  /\ RunsOf(Blocks(n, 0, lost), p) # {} <=> n + p + Lost(lost) <= Window
           /\ n + p + Lost(lost) <= Window =>
                 /\ First(RunsOf(Blocks(n, 0, lost), p)) = n
                 /\ [Blocks(n, 0, lost) EXCEPT ![n] = p] = Blocks(n, p, lost)
<1> DEFINE m == Blocks(n, 0, lost)
           R == RunsOf(m, p)
<1>0. Window \in Nat \ {0, 1} /\ Lost(lost) \in {0, 1} /\ (lost <=> Lost(lost) = 1)
  BY AcpiAssumption DEF Lost
<1>1. Taken(m) = (0 .. n - 1) \cup (IF lost THEN {Window - 1} ELSE {})
  <2>1. n + 0 = n /\ n + 0 - 1 = n - 1 /\ n + 0 + Lost(lost) <= Window
    BY <1>0
  <2>2. Taken(Blocks(n, 0, lost)) = (0 .. n + 0 - 1) \cup (IF lost THEN {Window - 1} ELSE {})
    BY <2>1, TakenBlocks
  <2> QED BY <2>1, <2>2
<1>2. ASSUME NEW s \in R
      PROVE  n <= s /\ s \in Slots /\ s + p + Lost(lost) <= Window
  <2>0. s \in Slots /\ s + p <= Window /\ (s .. s + p - 1) \cap Taken(m) = {}
    BY DEF RunsOf
  <2>1. s \in 0 .. Window - 1
    BY <2>0 DEF Slots
  <2>2. s \notin Taken(m) /\ s + p - 1 \notin Taken(m)
    <3>1. s \in s .. s + p - 1 /\ s + p - 1 \in s .. s + p - 1
      BY <2>1, <1>0
    <3> HIDE DEF m
    <3> QED BY <3>1, <2>0
  <2>3. n <= s
    BY <2>1, <2>2, <1>1, <1>0
  <2>4. lost => s + p - 1 # Window - 1
    BY <2>2, <1>1
  <2> HIDE DEF m, R
  <2> QED BY <2>0, <2>1, <2>3, <2>4, <1>0
<1>3. ASSUME n + p + Lost(lost) <= Window
      PROVE  n \in R
  <2>1. n \in Slots /\ n + p <= Window
    BY <1>3, <1>0 DEF Slots
  <2>2. ASSUME NEW v \in n .. n + p - 1 PROVE v \notin Taken(m)
    <3>1. v \in Int /\ n <= v /\ v <= n + p - 1 /\ (lost => v < Window - 1)
      BY <2>2, <1>3, <1>0
    <3> HIDE DEF m
    <3> QED BY <3>1, <1>1, <1>0
  <2> HIDE DEF m
  <2>3. (n .. n + p - 1) \cap Taken(m) = {}
    BY <2>2
  <2> QED BY <2>1, <2>3 DEF RunsOf
<1> HIDE DEF R
<1>4. R # {} <=> n + p + Lost(lost) <= Window
  <2>1. ASSUME NEW s \in R PROVE n + p + Lost(lost) <= Window
    <3>1. n <= s /\ s \in Slots /\ s + p + Lost(lost) <= Window
      BY <1>2
    <3>2. s \in Nat
      BY <3>1, <1>0 DEF Slots
    <3> QED BY <3>1, <3>2, <1>0
  <2> QED BY <2>1, <1>3
<1>5. ASSUME n + p + Lost(lost) <= Window
      PROVE  First(R) = n
  <2>1. n \in R /\ \A s \in R : n <= s
    BY <1>2, <1>3, <1>5
  <2>2. First(R) \in R /\ \A s \in R : First(R) <= s
    BY <2>1 DEF First
  <2>3. First(R) \in Nat
    BY <2>2, <1>2, <1>0 DEF Slots
  <2>4. First(R) <= n /\ n <= First(R)
    BY <2>1, <2>2
  <2> QED BY <2>3, <2>4
<1>6. ASSUME n + p + Lost(lost) <= Window
      PROVE  [m EXCEPT ![n] = p] = Blocks(n, p, lost)
  <2>1. n \in Slots /\ (lost => n # Window - 1)
    BY <1>6, <1>0 DEF Slots
  <2> DEFINE g == Blocks(n, p, lost)
  <2>2. m = [s \in Slots |-> m[s]] /\ g = [s \in Slots |-> g[s]]
    BY BlocksAt
  <2>3. ASSUME NEW s \in Slots PROVE (IF s = n THEN p ELSE m[s]) = g[s]
    <3>1. m[s] = IF s = 0 /\ n > 0 THEN n ELSE IF s = n /\ 0 > 0 THEN 0
                 ELSE IF s = Window - 1 /\ lost THEN 1 ELSE NONE
      BY BlocksAt
    <3>2. g[s] = IF s = 0 /\ n > 0 THEN n ELSE IF s = n /\ p > 0 THEN p
                 ELSE IF s = Window - 1 /\ lost THEN 1 ELSE NONE
      BY BlocksAt
    <3>3. n \in Nat /\ p \in Nat /\ p > 0 /\ s \in Int
      BY DEF Slots
    <3> HIDE DEF m, g
    <3>4. CASE s = n
      BY <3>2, <3>3, <3>4
    <3>5. CASE s # n
      BY <3>1, <3>2, <3>3, <3>5
    <3> QED BY <3>4, <3>5
  <2> HIDE DEF m, g
  <2>4. [m EXCEPT ![n] = p] = g
    BY <2>1, <2>2, <2>3, SameSlots
  <2> QED BY <2>4 DEF g
<1> QED BY <1>4, <1>5, <1>6 DEF R

\* What giving back the second range, and then the first, leaves.
LEMMA GivenBack ==
    ASSUME NEW n \in Nat, NEW t \in Nat \ {0}, NEW lost \in BOOLEAN, n + t + Lost(lost) <= Window
    PROVE  [Blocks(n, t, lost) EXCEPT ![n] = NONE] = Blocks(n, 0, lost)
<1>1. Window \in Nat \ {0, 1} /\ n \in Slots /\ (lost => n # Window - 1)
  BY AcpiAssumption DEF Lost, Slots
<1> DEFINE f == Blocks(n, t, lost)
           g == Blocks(n, 0, lost)
<1>2. f = [s \in Slots |-> f[s]] /\ g = [s \in Slots |-> g[s]]
  BY BlocksAt
<1>3. ASSUME NEW s \in Slots PROVE (IF s = n THEN NONE ELSE f[s]) = g[s]
  <2>1. f[s] = IF s = 0 /\ n > 0 THEN n ELSE IF s = n /\ t > 0 THEN t
               ELSE IF s = Window - 1 /\ lost THEN 1 ELSE NONE
    BY BlocksAt
  <2>2. g[s] = IF s = 0 /\ n > 0 THEN n ELSE IF s = n /\ 0 > 0 THEN 0
               ELSE IF s = Window - 1 /\ lost THEN 1 ELSE NONE
    BY BlocksAt
  <2> HIDE DEF f, g
  <2> QED BY <2>1, <2>2, <1>1
<1> HIDE DEF f, g
<1>4. [f EXCEPT ![n] = NONE] = g
  BY <1>1, <1>2, <1>3, SameSlots
<1> QED BY <1>4 DEF f, g

LEMMA RootGivenBack ==
    ASSUME NEW n \in Nat \ {0}, NEW lost \in BOOLEAN
    PROVE  [Blocks(n, 0, lost) EXCEPT ![0] = NONE] = Blocks(0, 0, lost)
<1>1. Window \in Nat \ {0, 1} /\ 0 \in Slots /\ 0 # Window - 1
  BY AcpiAssumption DEF Slots
<1> DEFINE f == Blocks(n, 0, lost)
           g == Blocks(0, 0, lost)
<1>2. f = [s \in Slots |-> f[s]] /\ g = [s \in Slots |-> g[s]]
  BY BlocksAt
<1>3. ASSUME NEW s \in Slots PROVE (IF s = 0 THEN NONE ELSE f[s]) = g[s]
  <2>1. f[s] = IF s = 0 /\ n > 0 THEN n ELSE IF s = n /\ 0 > 0 THEN 0
               ELSE IF s = Window - 1 /\ lost THEN 1 ELSE NONE
    BY BlocksAt
  <2>2. g[s] = IF s = 0 /\ 0 > 0 THEN 0 ELSE IF s = 0 /\ 0 > 0 THEN 0
               ELSE IF s = Window - 1 /\ lost THEN 1 ELSE NONE
    BY BlocksAt
  <2> HIDE DEF f, g
  <2> QED BY <2>1, <2>2, <1>1
<1> HIDE DEF f, g
<1>4. [f EXCEPT ![0] = NONE] = g
  BY <1>1, <1>2, <1>3, SameSlots
<1> QED BY <1>4 DEF f, g

\* A range in the last slot that is not given back is the last slot lost.
LEMMA LastSlot == Blocks(Window - 1, 1, FALSE) = Blocks(Window - 1, 0, TRUE)
<1>1. Window \in Nat \ {0, 1}
  BY AcpiAssumption
<1> QED BY <1>1 DEF Blocks, Slots

-----------------------------------------------------------------------------
(* The counts the properties are stated with.                              *)

\* The indices of the XSDT x whose entry is usable, and those of the array
\* ts whose table has the signature s.
LeaksIn(x, k) == x.entry[k] # NULL /\ x.entry[k] \in Inside /\ HeadPages[x.entry[k]] = 1
LeakedIn(x, n) == x.pages = Window - 1 /\ \E k \in 1 .. n : LeaksIn(x, k)
FitIn(x, k) ==
    /\ x.entry[k] # NULL /\ Valid[x.entry[k]] /\ Fit(x, x.entry[k])
    /\ x.pages + HeadPages[x.entry[k]] <= Window
    /\ ~LeakedIn(x, k)
Fits(x) == {k \in Nat : FitIn(x, k)}
Named(ts, s) == {j \in Nat : Sig[ts[j]] = s}

LEMMA UsableIs ==
    /\ \A n : Leaked(n) <=> LeakedIn(xsdt, n)
    /\ \A k : Usable(k) <=> FitIn(xsdt, k)
<1>1. \A k : Leaks(k) <=> LeaksIn(xsdt, k)
  BY DEF Leaks, LeaksIn
<1>2. \A n : Leaked(n) <=> LeakedIn(xsdt, n)
  BY <1>1 DEF Leaked, LeakedIn
<1> QED BY <1>2 DEF Usable, FitIn, Fit

\* The counts of Acpi are those of these sets.
LEMMA Counts ==
    ASSUME NEW n \in Nat
    PROVE  /\ UsableAmong(n) = Rank(Fits(xsdt), n)
           /\ AskedAmong(n) = Rank(Named(acpi_tables, req.sig), n)
<1>1. {k \in 1 .. n : Usable(k)} = Below(Fits(xsdt), n)
  BY UsableIs DEF Below, Fits
<1>2. {j \in 1 .. n : Sig[acpi_tables[j]] = req.sig} = Below(Named(acpi_tables, req.sig), n)
  BY DEF Below, Named
<1> QED BY <1>1, <1>2 DEF UsableAmong, AskedAmong, Rank

LEMMA UsableIsPrimed ==
    /\ \A n : Leaked(n)' <=> LeakedIn(xsdt', n)
    /\ \A k : Usable(k)' <=> FitIn(xsdt', k)
<1>1. \A k : Leaks(k)' <=> LeaksIn(xsdt', k)
  BY DEF Leaks, LeaksIn
<1>2. \A n : Leaked(n)' <=> LeakedIn(xsdt', n)
  BY <1>1 DEF Leaked, LeakedIn
<1> QED BY <1>2 DEF Usable, FitIn, Fit

LEMMA CountsPrimed ==
    ASSUME NEW n \in Nat
    PROVE  /\ UsableAmong(n)' = Rank(Fits(xsdt'), n)
           /\ AskedAmong(n)' = Rank(Named(acpi_tables', req'.sig), n)
<1>1. {k \in 1 .. n : Usable(k)'} = Below(Fits(xsdt'), n)
  BY UsableIsPrimed DEF Below, Fits
<1>2. {j \in 1 .. n : Sig[acpi_tables'[j]] = req'.sig} = Below(Named(acpi_tables', req'.sig), n)
  BY DEF Below, Named
<1> QED BY <1>1, <1>2 DEF UsableAmong, AskedAmong, Rank

\* What ArrayInv says, of given values.
Array(x, ts, n) ==
    /\ Len(ts) = Bounded(Rank(Fits(x), n))
    /\ \A k \in 1 .. n :
          FitIn(x, k) /\ Rank(Fits(x), k) <= ACPI_MAX_INIT_TABLES =>
             ts[Rank(Fits(x), k)] = x.entry[k]
    /\ \A j \in DOMAIN ts : Fit(x, ts[j])

LEMMA ArrayIs ==
    ASSUME i - 1 \in Nat
    PROVE  ArrayInv <=> Array(xsdt, acpi_tables, i - 1)
<1>1. \A k \in 1 .. i - 1 : UsableAmong(k) = Rank(Fits(xsdt), k)
  BY Counts
<1>2. UsableAmong(i - 1) = Rank(Fits(xsdt), i - 1)
  BY Counts
<1> QED BY <1>1, <1>2, UsableIs DEF ArrayInv, Array

LEMMA ArrayIsPrimed ==
    ASSUME i' - 1 \in Nat
    PROVE  ArrayInv' <=> Array(xsdt', acpi_tables', i' - 1)
<1>1. \A k \in 1 .. i' - 1 : UsableAmong(k)' = Rank(Fits(xsdt'), k)
  BY CountsPrimed
<1>2. UsableAmong(i - 1)' = Rank(Fits(xsdt'), i' - 1)
  <2>1. {k \in 1 .. i' - 1 : Usable(k)'} = Below(Fits(xsdt'), i' - 1)
    BY UsableIsPrimed DEF Below, Fits
  <2> QED BY <2>1 DEF UsableAmong, Rank
<1> QED BY <1>1, <1>2, UsableIsPrimed DEF ArrayInv, Array, Fit

\* An entry that is not usable leaves the array as it is.
LEMMA ArraySkip ==
    ASSUME NEW x, NEW ts, NEW n \in Nat, Array(x, ts, n), ~FitIn(x, n + 1)
    PROVE  Array(x, ts, n + 1)
<1>1. n + 1 \notin Fits(x)
  BY DEF Fits
<1>2. Rank(Fits(x), n + 1) = Rank(Fits(x), n)
  BY <1>1, RankNext
<1>3. \A k \in 1 .. n + 1 : k \in 1 .. n \/ k = n + 1
  OBVIOUS
<1> QED BY <1>2, <1>3 DEF Array

\* A usable entry is appended while there is space.
LEMMA ArrayAdd ==
    ASSUME NEW x, NEW ts \in Seq(Tables), NEW n \in Nat, Array(x, ts, n),
           FitIn(x, n + 1), x.entry[n + 1] \in Tables
    PROVE  Array(x, IF Len(ts) # ACPI_MAX_INIT_TABLES
                    THEN Append(ts, x.entry[n + 1]) ELSE ts, n + 1)
<1> DEFINE c == Rank(Fits(x), n)
<1>1. n + 1 \in Fits(x)
  BY DEF Fits
<1>2. Rank(Fits(x), n + 1) = c + 1 /\ c \in Nat
  BY <1>1, RankNext, RankNat
<1>3. \A k \in 1 .. n + 1 : k \in 1 .. n \/ k = n + 1
  OBVIOUS
<1>4. ASSUME NEW k \in 1 .. n, FitIn(x, k)
      PROVE  Rank(Fits(x), k) \in 1 .. c
  <2>1. k \in Fits(x) /\ k \in Nat \ {0} /\ k \in Nat /\ k <= n
    BY <1>4 DEF Fits
  <2> QED BY <2>1, RankMember, RankMonotone, RankNat
<1>5. ACPI_MAX_INIT_TABLES \in Nat
  BY AcpiAssumption
<1> HIDE DEF c
<1>6. Len(ts) = Bounded(c)
  BY DEF Array, c
<1>7. CASE Len(ts) # ACPI_MAX_INIT_TABLES
  <2> DEFINE t == Append(ts, x.entry[n + 1])
  <2>1. Len(ts) = c /\ c + 1 <= ACPI_MAX_INIT_TABLES
    BY <1>6, <1>7, <1>5, <1>2 DEF Bounded
  <2>2. /\ t \in Seq(Tables) /\ Len(t) = c + 1 /\ t[c + 1] = x.entry[n + 1]
        /\ \A j \in 1 .. c : t[j] = ts[j]
    BY <2>1, AppendProperties
  <2>3. DOMAIN ts = 1 .. c /\ DOMAIN t = 1 .. c + 1
    BY <2>1, <2>2
  <2> HIDE DEF t
  <2>4. Len(t) = Bounded(Rank(Fits(x), n + 1))
    BY <1>2, <1>5, <2>1, <2>2 DEF Bounded
  <2>5. ASSUME NEW k \in 1 .. n + 1, FitIn(x, k), Rank(Fits(x), k) <= ACPI_MAX_INIT_TABLES
        PROVE  t[Rank(Fits(x), k)] = x.entry[k]
    <3>1. CASE k = n + 1
      BY <3>1, <1>2, <2>2
    <3>2. CASE k \in 1 .. n
      <4>1. Rank(Fits(x), k) \in 1 .. c
        BY <3>2, <2>5, <1>4
      <4>2. ts[Rank(Fits(x), k)] = x.entry[k]
        BY <3>2, <2>5 DEF Array
      <4> QED BY <4>1, <4>2, <2>2
    <3> QED BY <3>1, <3>2, <1>3
  <2>6. ASSUME NEW j \in DOMAIN t
        PROVE  Fit(x, t[j])
    <3>1. CASE j = c + 1
      BY <3>1, <2>2 DEF FitIn
    <3>2. CASE j \in 1 .. c
      BY <3>2, <2>2, <2>3 DEF Array
    <3> QED BY <3>1, <3>2, <2>3, <1>2
  <2>7. Array(x, t, n + 1)
    BY <2>4, <2>5, <2>6 DEF Array
  <2> QED BY <2>7, <1>7 DEF t
<1>8. CASE Len(ts) = ACPI_MAX_INIT_TABLES
  <2>1. c >= ACPI_MAX_INIT_TABLES
    BY <1>6, <1>8, <1>5, <1>2 DEF Bounded
  <2>2. Len(ts) = Bounded(Rank(Fits(x), n + 1))
    BY <1>2, <1>5, <1>8, <2>1 DEF Bounded
  <2>3. ~(Rank(Fits(x), n + 1) <= ACPI_MAX_INIT_TABLES)
    BY <1>2, <1>5, <2>1
  <2>4. Array(x, ts, n + 1)
    BY <2>2, <2>3, <1>3 DEF Array
  <2> QED BY <2>4, <1>8
<1> QED BY <1>7, <1>8

-----------------------------------------------------------------------------
(* The window, before and after a step.                                    *)

\* One more entry.
LEMMA LeakedNext ==
    /\ ~Leaked(0)
    /\ \A n \in Nat : Leaked(n + 1) <=> Leaked(n) \/ (xsdt.pages = Window - 1 /\ Leaks(n + 1))
    /\ \A n : Leaked(n) \in BOOLEAN /\ (Leaked(n) => xsdt.pages = Window - 1)
<1>1. \A n \in Nat : \A k : k \in 1 .. n + 1 <=> k \in 1 .. n \/ k = n + 1
  OBVIOUS
<1>2. 1 .. 0 = {}
  OBVIOUS
<1> QED BY <1>1, <1>2 DEF Leaked

LEMMA LeakedSeenPrimed == Leaked(Seen)' <=> LeakedIn(xsdt', Seen')
<1>1. \A k : Leaks(k)' <=> LeaksIn(xsdt', k)
  BY DEF Leaks, LeaksIn
<1> QED BY <1>1 DEF Leaked, LeakedIn

\* What WindowInv says, of given values.
LEMMA WindowAfter ==
    ASSUME NEW n, NEW t, NEW k, xsdt' = xsdt, Root' = n, Top' = t, Seen' = k,
           mapping' = Blocks(n, t, Leaked(k)),
           slot' = [a \in Addrs |->
                      IF a = XSDT /\ XsdtHeld' THEN 0
                      ELSE IF \/ a = cur' /\ pc' \in {"length", "validate", "add"}
                              \/ a = table' /\ pc' = "handler" THEN n
                      ELSE NONE],
           pc' \in Ranging => t > 0 /\ n + t + Lost(Leaked(k)) <= Window
    PROVE  WindowInv'
<1>1. Leaked(Seen)' <=> Leaked(k)
  BY LeakedSeenPrimed, UsableIs
<1>2. Leaked(Seen)' = Leaked(k)
  <2>1. Leaked(k) \in BOOLEAN
    BY LeakedNext
  <2>2. Leaked(Seen)' \in BOOLEAN
    BY DEF Leaked
  <2> QED BY <1>1, <2>1, <2>2
<1>3. Lost(Leaked(Seen))' = Lost(Leaked(k))
  BY <1>2 DEF Lost
<1> QED BY <1>2, <1>3 DEF WindowInv

\* The window at a step.
LEMMA WindowNow ==
    ASSUME AcpiInvariant, pc \notin Stopped
    PROVE  /\ Root \in Nat /\ Leaked(Seen) \in BOOLEAN
           /\ Root + Lost(Leaked(Seen)) <= Window
           /\ Window \in Nat \ {0, 1} /\ Lost(Leaked(Seen)) \in {0, 1}
           /\ i \in Nat \ {0}
<1>1. Leaked(Seen) \in BOOLEAN /\ (Leaked(Seen) => xsdt.pages = Window - 1)
  BY LeakedNext
<1>2. Window \in Nat \ {0, 1}
  BY AcpiAssumption
<1>3. XsdtHeld => xsdt.pages \in 1 .. Window
  BY DEF AcpiInvariant, WorkInv
<1>4. xsdt.pages \in Nat /\ i \in Nat \ {0}
  BY DEF AcpiInvariant, AcpiType
<1> QED BY <1>1, <1>2, <1>3, <1>4 DEF Root, Lost

\* A mapping succeeds if there is room behind the XSDT, and is made there.
LEMMA MapNow ==
    ASSUME AcpiInvariant, pc \in {"header", "map", "idle"}, NEW p \in Nat
    PROVE  /\ CanMap(p) <=> p > 0 /\ Root + p + Lost(Leaked(Seen)) <= Window
           /\ CanMap(p) => /\ First(Runs(p)) = Root
                           /\ [mapping EXCEPT ![First(Runs(p))] = p] = Blocks(Root, p, Leaked(Seen))
<1>0. pc \notin Stopped
  BY DEF Stopped
<1>1. mapping = Blocks(Root, 0, Leaked(Seen))
  BY <1>0 DEF AcpiInvariant, WindowInv, Top
<1>2. Root \in Nat /\ Leaked(Seen) \in BOOLEAN /\ Root + Lost(Leaked(Seen)) <= Window
  BY <1>0, WindowNow
<1>3. Runs(p) = RunsOf(mapping, p)
  BY TakenIs
<1>4. CASE p = 0
  BY <1>4 DEF CanMap
<1>5. CASE p # 0
  <2>1. PICK n \in Nat, lost \in BOOLEAN : n = Root /\ lost = Leaked(Seen)
    BY <1>2
  <2>2. p \in Nat \ {0} /\ n + Lost(lost) <= Window
    BY <1>2, <1>5, <2>1
  <2>3. /\ RunsOf(Blocks(n, 0, lost), p) # {} <=> n + p + Lost(lost) <= Window
        /\ n + p + Lost(lost) <= Window =>
              /\ First(RunsOf(Blocks(n, 0, lost), p)) = n
              /\ [Blocks(n, 0, lost) EXCEPT ![n] = p] = Blocks(n, p, lost)
    BY <2>2, FirstFit
  <2>4. mapping = Blocks(n, 0, lost) /\ Runs(p) = RunsOf(Blocks(n, 0, lost), p)
    BY <1>1, <1>3, <2>1
  <2>5. CanMap(p) <=> n + p + Lost(lost) <= Window
    BY <2>2, <2>3, <2>4 DEF CanMap
  <2>6. CanMap(p) => First(Runs(p)) = n /\ [mapping EXCEPT ![First(Runs(p))] = p] = Blocks(n, p, lost)
    BY <2>3, <2>4, <2>5
  <2>7. p > 0
    BY <2>2
  <2> QED BY <2>1, <2>5, <2>6, <2>7
<1> QED BY <1>4, <1>5

\* What unmapping the table in work leaves: the last slot is lost if it is
\* there, inside a page.
LEMMA UnmapNow ==
    ASSUME AcpiInvariant, pc \in Ranging, NEW a \in Addrs,
           a = IF pc = "handler" THEN table ELSE cur, acpi_unmap(a)
    PROVE  /\ mapping' = Blocks(Root, 0, Leaked(Seen) \/ (Root = Window - 1 /\ a \in Inside))
           /\ slot' = [b \in Addrs |-> IF b = XSDT /\ XsdtHeld THEN 0 ELSE NONE]
           /\ Root = Window - 1 => Top = 1 /\ ~Leaked(Seen)
           /\ Top \in Nat \ {0}
<1>0. pc \notin Stopped
  BY DEF Stopped, Ranging
<1>1. mapping = Blocks(Root, Top, Leaked(Seen)) /\ Top > 0 /\ Root + Top + Lost(Leaked(Seen)) <= Window
  BY <1>0 DEF AcpiInvariant, WindowInv
<1>2. /\ Root \in Nat /\ Leaked(Seen) \in BOOLEAN /\ Window \in Nat \ {0, 1}
      /\ Lost(Leaked(Seen)) \in {0, 1}
  BY <1>0, WindowNow
<1>3. Top \in Nat \ {0}
  <2>1. pc = "handler" => table \in Tables
    BY DEF AcpiInvariant, WorkInv
  <2>2. cur \in Addrs /\ xsdt.pages \in Nat
    BY DEF AcpiInvariant, AcpiType
  <2>3. cur # XSDT => cur \in Tables
    BY <2>2 DEF Addrs
  <2>4. HeadPages[cur] \in 1 .. 2 /\ PagesAt(cur) \in Nat
    BY <2>2, <2>3, AcpiAssumption DEF PagesAt
  <2>5. pc = "handler" => Pages[table] \in Nat
    BY <2>1, AcpiAssumption
  <2>6. Top \in Nat
    BY <2>4, <2>5 DEF Top
  <2> QED BY <2>6, <1>1
<1>4. slot = [b \in Addrs |-> IF b = XSDT /\ XsdtHeld THEN 0 ELSE IF b = a THEN Root ELSE NONE]
  BY <1>0 DEF AcpiInvariant, WindowInv, Ranging, XsdtHeld, Acquiring
<1>5. slot[a] = Root
  BY <1>4 DEF Root, AcpiInvariant, WorkInv, XsdtHeld, Acquiring, Ranging
<1>6. slot' = [b \in Addrs |-> IF b = XSDT /\ XsdtHeld THEN 0 ELSE NONE]
  <2>1. slot' = [slot EXCEPT ![a] = NONE]
    BY DEF acpi_unmap
  <2>2. ~(a = XSDT /\ XsdtHeld)
    BY AcpiAssumption DEF AcpiInvariant, WorkInv, XsdtHeld, Acquiring, Ranging
  <2> QED BY <2>1, <2>2, <1>4
<1>7. PICK n \in Nat, t \in Nat \ {0}, lost \in BOOLEAN : n = Root /\ t = Top /\ lost = Leaked(Seen)
  BY <1>2, <1>3
<1>8. n + t + Lost(lost) <= Window /\ mapping = Blocks(n, t, lost)
  BY <1>1, <1>7
<1>9. n = Window - 1 => t = 1 /\ ~lost
  BY <1>8, <1>2 DEF Lost
<1>10. mapping' = Blocks(n, 0, lost \/ (n = Window - 1 /\ a \in Inside))
  <2>1. CASE n = Window - 1 /\ a \in Inside
    <3>1. mapping' = mapping
      BY <2>1, <1>5, <1>7 DEF acpi_unmap
    <3>2. mapping = Blocks(Window - 1, 1, FALSE)
      BY <1>8, <1>9, <2>1
    <3>3. (lost \/ (n = Window - 1 /\ a \in Inside)) = TRUE
      BY <2>1
    <3> QED BY <3>1, <3>2, <3>3, <2>1, LastSlot
  <2>2. CASE ~(n = Window - 1 /\ a \in Inside)
    <3>1. mapping' = [Blocks(n, t, lost) EXCEPT ![n] = NONE]
      BY <2>2, <1>5, <1>7, <1>8 DEF acpi_unmap
    <3>2. (lost \/ (n = Window - 1 /\ a \in Inside)) = lost
      BY <2>2
    <3>3. mapping' = Blocks(n, 0, lost)
      BY <3>1, <1>8, GivenBack
    <3> QED BY <3>2, <3>3
  <2> QED BY <2>1, <2>2
<1> QED BY <1>3, <1>6, <1>7, <1>9, <1>10

-----------------------------------------------------------------------------
(* The initial states and each action.                                     *)

LEMMA AcpiInit == Init => AcpiInvariant
<1> SUFFICES ASSUME Init PROVE AcpiInvariant
  OBVIOUS
<1>1. PICK k \in 0 .. MaxEntries : xsdt.entry \in [1 .. k -> Tables \cup {NULL}]
  BY DEF Init
<1>2. xsdt.entry \in Seq(Tables \cup {NULL}) /\ Len(xsdt.entry) = k
  BY <1>1, AcpiAssumption
<1>3. AcpiType
  <2>1. xsdt.pages \in Nat /\ xsdt.valid \in BOOLEAN
    BY AcpiAssumption DEF Init
  <2>2. acpi_tables \in Seq(Tables) /\ i \in 1 .. Len(xsdt.entry) + 1
    BY <1>2 DEF Init
  <2>3. req.instance \in Nat
    BY DEF Init, NoReq
  <2> QED BY <2>1, <2>2, <2>3, <1>2 DEF Init, AcpiType, Places, Addrs
<1>4. WindowInv
  <2>1. Root = 0 /\ Top = 0 /\ Seen = 0 /\ ~XsdtHeld /\ pc \notin Ranging /\ pc \notin Stopped
    BY DEF Init, Root, Top, Seen, XsdtHeld, Acquiring, Ranging, Stopped
  <2>2. Blocks(0, 0, FALSE) = [s \in Slots |-> NONE]
    BY DEF Blocks
  <2>3. Leaked(0) = FALSE
    BY LeakedNext
  <2> QED BY <2>1, <2>2, <2>3 DEF Init, WindowInv, Ranging
<1>5. WorkInv
  BY DEF Init, WorkInv, XsdtHeld, Acquiring, Booted
<1>6. ArrayInv
  <2>1. i - 1 \in Nat /\ i - 1 = 0 /\ Len(acpi_tables) = 0 /\ DOMAIN acpi_tables = {}
    BY DEF Init
  <2>2. Bounded(Rank(Fits(xsdt), 0)) = 0
    BY RankZero, AcpiAssumption DEF Bounded
  <2>3. Array(xsdt, acpi_tables, i - 1)
    BY <2>1, <2>2 DEF Array
  <2> QED BY <2>1, <2>3, ArrayIs
<1>7. AnswerRight
  BY DEF Init, AnswerRight
<1> QED BY <1>3, <1>4, <1>5, <1>6, <1>7 DEF AcpiInvariant

\* The array and its place in the XSDT are left alone.
LEMMA ArraySame ==
    ASSUME AcpiInvariant, UNCHANGED <<xsdt, acpi_tables, i>>
    PROVE  ArrayInv'
<1>1. i - 1 \in Nat
  BY DEF AcpiInvariant, AcpiType
<1>2. Array(xsdt, acpi_tables, i - 1)
  BY <1>1, ArrayIs DEF AcpiInvariant
<1>3. i' - 1 \in Nat /\ Array(xsdt', acpi_tables', i' - 1)
  BY <1>1, <1>2
<1> QED BY <1>3, ArrayIsPrimed

\* An entry that is not usable is passed over.
LEMMA ArrayPasses ==
    ASSUME AcpiInvariant, UNCHANGED <<xsdt, acpi_tables>>, i' = i + 1,
           ~FitIn(xsdt, i)
    PROVE  ArrayInv'
<1>1. i - 1 \in Nat /\ (i - 1) + 1 = i /\ i' - 1 = i /\ i \in Nat
  BY DEF AcpiInvariant, AcpiType
<1>2. Array(xsdt, acpi_tables, i - 1)
  BY <1>1, ArrayIs DEF AcpiInvariant
<1>3. Array(xsdt, acpi_tables, (i - 1) + 1)
  BY <1>1, <1>2, ArraySkip
<1>4. i' - 1 \in Nat /\ Array(xsdt', acpi_tables', i' - 1)
  BY <1>1, <1>3
<1> QED BY <1>4, ArrayIsPrimed

LEMMA TableInitStep ==
    ASSUME AcpiInvariant, acpi_table_init
    PROVE  AcpiInvariant'
<1>0. /\ pc = "init" /\ i = 1 /\ UNCHANGED <<xsdt, window, acpi_tables, i, table, req>>
      /\ (pc' = "header" /\ cur' = XSDT) \/ (pc' = "halt" /\ cur' = cur)
  BY DEF acpi_table_init, Fail, firmware, AcpiInvariant, WorkInv
<1>1. ArrayInv'
  BY <1>0, ArraySame
<1>2. AcpiType'
  BY <1>0 DEF AcpiInvariant, AcpiType, Places, Acquiring, Addrs
<1>3. WindowInv'
  <2>1. Root = 0 /\ Top = 0 /\ Seen = 0 /\ ~XsdtHeld /\ pc \notin Stopped
    BY <1>0 DEF Root, Top, Seen, XsdtHeld, Acquiring, Stopped
  <2>2. Root' = 0 /\ Top' = 0 /\ Seen' = 0 /\ ~XsdtHeld' /\ pc' \notin Ranging
    BY <1>0 DEF Root, Top, Seen, XsdtHeld, Acquiring, Ranging
  <2>3. mapping' = Blocks(0, 0, Leaked(0)) /\ slot' = [a \in Addrs |-> NONE]
    BY <2>1, <1>0 DEF AcpiInvariant, WindowInv, window
  <2> QED BY <2>2, <2>3, <1>0, WindowAfter DEF Ranging
<1>4. WorkInv'
  BY <1>0 DEF AcpiInvariant, WorkInv, XsdtHeld, Acquiring, Booted
<1>5. AnswerRight'
  BY <1>0 DEF AnswerRight
<1> QED BY <1>1, <1>2, <1>3, <1>4, <1>5 DEF AcpiInvariant

\* memremap does not return.
LEMMA StopStep ==
    ASSUME AcpiInvariant, NEW p \in Nat, Stops(p), pc \in {"header", "map", "idle"},
           UNCHANGED <<firmware, acpi_tables, cur, i, table>>, req'.instance \in Nat
    PROVE  AcpiInvariant'
<1>0. pc' \in Stopped /\ UNCHANGED <<xsdt, acpi_tables, cur, i, table>>
  BY DEF Stops, Unmapped, Stopped, firmware
<1>1. ArrayInv'
  BY <1>0, ArraySame
<1>2. AcpiType'
  BY <1>0 DEF AcpiInvariant, AcpiType, Places
<1>3. WindowInv'
  BY <1>0 DEF WindowInv
<1>4. WorkInv'
  BY <1>0 DEF WorkInv, XsdtHeld, Acquiring, Booted, Stopped
<1>5. AnswerRight'
  BY <1>0 DEF AnswerRight, Stopped
<1> QED BY <1>1, <1>2, <1>3, <1>4, <1>5 DEF AcpiInvariant

\* A table that is not acquired is the XSDT, and the boot is given up, or is
\* not usable, and is passed over.
LEMMA NotAcquiredStep ==
    ASSUME AcpiInvariant, NotAcquired, UNCHANGED <<firmware, acpi_tables, cur, table, req>>,
           pc \in {"header", "map", "validate"},
           cur # XSDT => ~FitIn(xsdt, i),
           mapping' = Blocks(IF cur = XSDT THEN 0 ELSE xsdt.pages, 0,
                             Leaked(IF cur = XSDT THEN 0 ELSE i)),
           slot' = [a \in Addrs |-> IF a = XSDT /\ cur # XSDT THEN 0 ELSE NONE]
    PROVE  AcpiInvariant'
<1>1. CASE cur = XSDT
  <2>1. pc' = "halt" /\ UNCHANGED <<xsdt, acpi_tables, i, cur, table, req>> /\ i = 1
    BY <1>1 DEF NotAcquired, Fail, firmware, AcpiInvariant, WorkInv, Acquiring
  <2>2. ArrayInv'
    BY <2>1, ArraySame
  <2>3. AcpiType'
    BY <2>1 DEF AcpiInvariant, AcpiType, Places, Addrs
  <2>4. WindowInv'
    <3>1. Root' = 0 /\ Top' = 0 /\ Seen' = 0 /\ ~XsdtHeld' /\ pc' \notin Ranging
      BY <2>1 DEF Root, Top, Seen, XsdtHeld, Acquiring, Ranging
    <3> QED BY <3>1, <2>1, <1>1, WindowAfter DEF Ranging
  <2>5. WorkInv'
    BY <2>1, <1>1 DEF AcpiInvariant, WorkInv, XsdtHeld, Acquiring, Booted
  <2>6. AnswerRight'
    BY <2>1 DEF AnswerRight
  <2> QED BY <2>2, <2>3, <2>4, <2>5, <2>6 DEF AcpiInvariant
<1>2. CASE cur # XSDT
  <2>1. pc' = "entries" /\ i' = i + 1 /\ UNCHANGED <<xsdt, acpi_tables, cur, table, req>>
    BY <1>2 DEF NotAcquired, firmware
  <2>2. i <= Len(xsdt.entry) /\ cur = xsdt.entry[i] /\ xsdt.pages \in 1 .. Window /\ i \in Nat
    BY <1>2 DEF AcpiInvariant, AcpiType, WorkInv, XsdtHeld, Acquiring
  <2>3. ArrayInv'
    BY <2>1, <2>2, <1>2, ArrayPasses
  <2>4. AcpiType'
    BY <2>1, <2>2 DEF AcpiInvariant, AcpiType, Places, Addrs
  <2>5. WindowInv'
    <3>1. Root' = xsdt.pages /\ Top' = 0 /\ Seen' = i /\ XsdtHeld' /\ pc' \notin Ranging
      BY <2>1, <2>2 DEF Root, Top, Seen, XsdtHeld, Ranging
    <3>2. mapping' = Blocks(xsdt.pages, 0, Leaked(i)) /\ xsdt' = xsdt
      BY <1>2, <2>1
    <3>3. slot' = [a \in Addrs |-> IF a = XSDT THEN 0 ELSE NONE]
      BY <1>2
    <3> QED BY <3>1, <3>2, <3>3, WindowAfter DEF Ranging
  <2>6. WorkInv'
    BY <2>1, <2>2, <1>2 DEF WorkInv, XsdtHeld, Acquiring, Booted
  <2>7. AnswerRight'
    BY <2>1 DEF AnswerRight
  <2> QED BY <2>3, <2>4, <2>5, <2>6, <2>7 DEF AcpiInvariant
<1> QED BY <1>1, <1>2

\* The window while no table is mapped, by whose turn it is.
LEMMA BetweenTables ==
    ASSUME AcpiInvariant, pc \in {"header", "map"}
    PROVE  /\ Root = (IF cur = XSDT THEN 0 ELSE xsdt.pages) /\ Top = 0
           /\ Seen = (IF cur = XSDT THEN 0 ELSE IF pc = "map" THEN i ELSE i - 1)
           /\ mapping = Blocks(Root, 0, Leaked(Seen))
           /\ slot = [a \in Addrs |-> IF a = XSDT /\ cur # XSDT THEN 0 ELSE NONE]
           /\ cur # XSDT => xsdt.pages \in 1 .. Window /\ cur \in Tables /\ cur # NULL
                            /\ cur = xsdt.entry[i] /\ i <= Len(xsdt.entry)
           /\ HeadPages[cur] \in 1 .. 2 /\ PagesAt(cur) \in Nat /\ xsdt.pages \in Nat
<1>1. pc \notin Stopped /\ pc \notin Ranging /\ pc \in Acquiring /\ pc # "handler"
  BY DEF Stopped, Ranging, Acquiring
<1>2. cur \in Addrs /\ xsdt.pages \in Nat /\ i \in Nat
  BY DEF AcpiInvariant, AcpiType
<1>3. cur # XSDT => /\ xsdt.pages \in 1 .. Window /\ cur \in Tables /\ cur # NULL
                    /\ cur = xsdt.entry[i] /\ i <= Len(xsdt.entry)
  BY <1>1, <1>2, AcpiAssumption DEF AcpiInvariant, WorkInv, XsdtHeld, Addrs
<1>4. cur = XSDT => i = 1
  BY <1>1 DEF AcpiInvariant, WorkInv
<1>5. Root = (IF cur = XSDT THEN 0 ELSE xsdt.pages) /\ Top = 0
      /\ Seen = (IF cur = XSDT THEN 0 ELSE IF pc = "map" THEN i ELSE i - 1)
  BY <1>1, <1>4 DEF Root, Top, Seen, XsdtHeld
<1>6. mapping = Blocks(Root, 0, Leaked(Seen))
  BY <1>1, <1>5 DEF AcpiInvariant, WindowInv
<1>7. slot = [a \in Addrs |-> IF a = XSDT /\ cur # XSDT THEN 0 ELSE NONE]
  BY <1>1 DEF AcpiInvariant, WindowInv, XsdtHeld
<1>8. HeadPages[cur] \in 1 .. 2 /\ PagesAt(cur) \in Nat
  BY <1>2, <1>3, AcpiAssumption DEF PagesAt
<1> QED BY <1>2, <1>3, <1>5, <1>6, <1>7, <1>8

LEMMA MapHeaderStep ==
    ASSUME AcpiInvariant, MapHeader
    PROVE  AcpiInvariant'
<1>0. pc = "header" /\ UNCHANGED <<firmware, acpi_tables, cur, table, req>> /\ cur \in Addrs
      /\ xsdt' = xsdt
  BY DEF MapHeader, AcpiInvariant, AcpiType, firmware
<1>1. /\ Root = (IF cur = XSDT THEN 0 ELSE xsdt.pages)
      /\ Seen = (IF cur = XSDT THEN 0 ELSE i - 1)
      /\ mapping = Blocks(Root, 0, Leaked(Seen))
      /\ slot = [a \in Addrs |-> IF a = XSDT /\ cur # XSDT THEN 0 ELSE NONE]
      /\ cur # XSDT => xsdt.pages \in 1 .. Window /\ cur \in Tables /\ cur # NULL
                       /\ cur = xsdt.entry[i] /\ i <= Len(xsdt.entry)
      /\ HeadPages[cur] \in 1 .. 2 /\ xsdt.pages \in Nat
  BY <1>0, BetweenTables
<1>2. HeadPages[cur] \in Nat \ {0} /\ pc \notin Stopped
  BY <1>0, <1>1 DEF Stopped
<1>3. /\ CanMap(HeadPages[cur]) <=> Root + HeadPages[cur] + Lost(Leaked(Seen)) <= Window
      /\ CanMap(HeadPages[cur]) =>
            /\ First(Runs(HeadPages[cur])) = Root
            /\ [mapping EXCEPT ![First(Runs(HeadPages[cur]))] = HeadPages[cur]]
                  = Blocks(Root, HeadPages[cur], Leaked(Seen))
  BY <1>0, <1>2, MapNow
<1>4. CASE CanMap(HeadPages[cur]) /\ acpi_mmap(cur, HeadPages[cur]) /\ pc' = "length" /\ UNCHANGED i
  <2>1. pc' = "length" /\ UNCHANGED <<xsdt, acpi_tables, i, cur, table, req>>
    BY <1>4, <1>0
  <2>2. ArrayInv'
    BY <2>1, ArraySame
  <2>3. AcpiType'
    BY <2>1 DEF AcpiInvariant, AcpiType, Places, Acquiring, Addrs
  <2>4. WindowInv'
    <3>1. mapping' = Blocks(Root, HeadPages[cur], Leaked(Seen)) /\ slot' = [slot EXCEPT ![cur] = Root]
      BY <1>3, <1>4 DEF acpi_mmap
    <3>2. Root' = Root /\ Top' = HeadPages[cur] /\ Seen' = Seen /\ (XsdtHeld' <=> cur # XSDT)
      BY <1>0, <2>1 DEF Root, Top, Seen, XsdtHeld, Acquiring
    <3>3. slot' = [a \in Addrs |-> IF a = XSDT /\ cur # XSDT THEN 0 ELSE IF a = cur THEN Root ELSE NONE]
      BY <3>1, <1>1, <1>0
    <3>4. Root + HeadPages[cur] + Lost(Leaked(Seen)) <= Window /\ HeadPages[cur] > 0
      BY <1>3, <1>4, <1>2
    <3> QED BY <3>1, <3>2, <3>3, <3>4, <2>1, WindowAfter
  <2>5. WorkInv'
    BY <2>1, <1>0 DEF AcpiInvariant, WorkInv, XsdtHeld, Acquiring, Booted
  <2>6. AnswerRight'
    BY <2>1 DEF AnswerRight
  <2> QED BY <2>2, <2>3, <2>4, <2>5, <2>6 DEF AcpiInvariant
<1>5. CASE Null(HeadPages[cur]) /\ NotAcquired
  <2>1. NotAcquired /\ UNCHANGED <<mapping, slot>> /\ ~CanMap(HeadPages[cur])
    BY <1>5 DEF Null, window
  <2>2. cur # XSDT => (Leaked(i) <=> Leaked(i - 1))
    <3>1. SUFFICES ASSUME cur # XSDT PROVE Leaked(i) <=> Leaked(i - 1)
      OBVIOUS
    <3>2. i \in Nat \ {0} /\ i - 1 \in Nat /\ (i - 1) + 1 = i /\ Window \in Nat
      BY <1>2, WindowNow
    <3>3. Leaked(i) <=> Leaked(i - 1) \/ (xsdt.pages = Window - 1 /\ Leaks(i))
      BY <3>2, LeakedNext
    <3>4. ~(xsdt.pages + HeadPages[cur] + Lost(Leaked(i - 1)) <= Window)
      BY <3>1, <1>1, <1>3, <2>1
    <3>5. Leaks(i) => HeadPages[cur] = 1
      BY <3>1, <1>1 DEF Leaks
    <3> QED BY <3>1, <3>2, <3>3, <3>4, <3>5, <1>1 DEF Lost
  <2>3. mapping' = Blocks(IF cur = XSDT THEN 0 ELSE xsdt.pages, 0, Leaked(IF cur = XSDT THEN 0 ELSE i))
    <3>1. CASE cur = XSDT
      BY <3>1, <1>1, <2>1
    <3>2. CASE cur # XSDT
      <4>1. Leaked(i) = Leaked(i - 1)
        <5>1. Leaked(i) \in BOOLEAN /\ Leaked(i - 1) \in BOOLEAN
          BY LeakedNext
        <5> QED BY <5>1, <2>2, <3>2
      <4> QED BY <3>2, <4>1, <1>1, <2>1
    <3> QED BY <3>1, <3>2
  <2>4. ASSUME cur # XSDT PROVE ~FitIn(xsdt, i)
    <3>1. ~(xsdt.pages + HeadPages[cur] + Lost(Leaked(i - 1)) <= Window) /\ cur = xsdt.entry[i]
      BY <2>4, <1>1, <1>3, <2>1
    <3>2. ASSUME ~Leaked(i - 1) PROVE ~(xsdt.pages + HeadPages[cur] <= Window)
      BY <3>1, <3>2, <1>1 DEF Lost
    <3>3. LeakedIn(xsdt, i) <=> Leaked(i)
      BY UsableIs
    <3> QED BY <3>1, <3>2, <3>3, <2>2, <2>4 DEF FitIn
  <2> QED BY <2>1, <2>3, <2>4, <1>0, <1>1, NotAcquiredStep
<1>6. CASE Stops(HeadPages[cur]) /\ UNCHANGED i
  <2>1. req'.instance \in Nat
    BY <1>0 DEF AcpiInvariant, AcpiType
  <2> QED BY <1>6, <1>0, <1>2, <2>1, StopStep
<1> QED BY <1>4, <1>5, <1>6 DEF MapHeader

LEMMA UnmapHeaderStep ==
    ASSUME AcpiInvariant, UnmapHeader
    PROVE  AcpiInvariant'
<1>1. pc = "length" /\ pc' = "map" /\ acpi_unmap(cur) /\ cur \in Addrs
      /\ UNCHANGED <<xsdt, acpi_tables, i, cur, table, req>>
  BY DEF UnmapHeader, firmware, AcpiInvariant, AcpiType
<1>2. ArrayInv'
  BY <1>1, ArraySame
<1>3. AcpiType'
  BY <1>1 DEF AcpiInvariant, AcpiType, Places, Acquiring, Addrs
<1>4. /\ mapping' = Blocks(Root, 0, Leaked(Seen) \/ (Root = Window - 1 /\ cur \in Inside))
      /\ slot' = [b \in Addrs |-> IF b = XSDT /\ XsdtHeld THEN 0 ELSE NONE]
      /\ Root = Window - 1 => Top = 1 /\ ~Leaked(Seen)
  BY <1>1, UnmapNow DEF Ranging
<1>5. Top = HeadPages[cur] /\ Root + Top + Lost(Leaked(Seen)) <= Window
  BY <1>1 DEF Top, AcpiInvariant, WindowInv, Ranging, Stopped
<1>6. /\ cur # XSDT => /\ xsdt.pages \in 1 .. Window /\ cur = xsdt.entry[i] /\ i <= Len(xsdt.entry)
                       /\ Root = xsdt.pages /\ Seen = i - 1
      /\ cur = XSDT => i = 1 /\ Root = 0 /\ Seen = 0
      /\ XsdtHeld <=> cur # XSDT
  BY <1>1 DEF AcpiInvariant, WorkInv, XsdtHeld, Acquiring, Root, Seen
<1>7. i \in Nat \ {0} /\ Window \in Nat \ {0, 1} /\ Lost(Leaked(Seen)) \in {0, 1}
  BY <1>1, WindowNow DEF Stopped
<1>8. HeadPages[cur] \in 1 .. 2 /\ (cur # XSDT => cur # NULL)
  BY <1>1, AcpiAssumption DEF Addrs
<1>9. cur # XSDT => (Leaked(i) <=> Leaked(i - 1) \/ (xsdt.pages = Window - 1 /\ cur \in Inside))
  <2> SUFFICES ASSUME cur # XSDT
               PROVE  Leaked(i) <=> Leaked(i - 1) \/ (xsdt.pages = Window - 1 /\ cur \in Inside)
    OBVIOUS
  <2>1. i - 1 \in Nat /\ (i - 1) + 1 = i
    BY <1>7
  <2>2. Leaked(i) <=> Leaked(i - 1) \/ (xsdt.pages = Window - 1 /\ Leaks(i))
    BY <2>1, LeakedNext
  <2>3. xsdt.pages = Window - 1 => HeadPages[cur] = 1
    BY <1>4, <1>5, <1>6
  <2>4. xsdt.pages = Window - 1 => (Leaks(i) <=> cur \in Inside)
    BY <2>3, <1>6, <1>8 DEF Leaks
  <2> QED BY <2>2, <2>4
<1>10. WindowInv'
  <2>1. CASE cur = XSDT
    <3>1. Root' = 0 /\ Top' = 0 /\ Seen' = 0 /\ ~XsdtHeld' /\ pc' \notin Ranging
      BY <1>1, <1>6, <2>1 DEF Root, Top, Seen, XsdtHeld, Acquiring, Ranging
    <3>2. Root # Window - 1
      BY <1>6, <1>7, <2>1
    <3>3. (Leaked(Seen) \/ (Root = Window - 1 /\ cur \in Inside)) = Leaked(0)
      <4>1. Leaked(0) \in BOOLEAN
        BY LeakedNext
      <4> QED BY <3>2, <4>1, <1>6, <2>1
    <3>4. mapping' = Blocks(0, 0, Leaked(0)) /\ slot' = [b \in Addrs |-> NONE]
      BY <1>4, <1>6, <3>3, <2>1
    <3> QED BY <3>1, <3>4, <1>1, WindowAfter DEF Ranging
  <2>2. CASE cur # XSDT
    <3>1. Root' = xsdt.pages /\ Top' = 0 /\ Seen' = i /\ XsdtHeld' /\ pc' \notin Ranging
      BY <1>1, <1>6, <2>2 DEF Root, Top, Seen, XsdtHeld, Acquiring, Ranging
    <3>2. (Leaked(Seen) \/ (Root = Window - 1 /\ cur \in Inside)) = Leaked(i)
      <4>1. Leaked(i) \in BOOLEAN
        BY LeakedNext
      <4> QED BY <4>1, <1>9, <1>6, <2>2
    <3>3. mapping' = Blocks(xsdt.pages, 0, Leaked(i)) /\ slot' = [b \in Addrs |-> IF b = XSDT THEN 0 ELSE NONE]
      BY <1>4, <1>6, <3>2, <2>2
    <3> QED BY <3>1, <3>3, <1>1, WindowAfter DEF Ranging
  <2> QED BY <2>1, <2>2
<1>11. WorkInv'
  <2>1. cur # XSDT => xsdt.pages + HeadPages[cur] <= Window
    BY <1>5, <1>6, <1>7, <1>8
  <2> QED BY <2>1, <1>1 DEF AcpiInvariant, WorkInv, XsdtHeld, Acquiring, Booted
<1>12. AnswerRight'
  BY <1>1 DEF AnswerRight
<1> QED BY <1>2, <1>3, <1>10, <1>11, <1>12 DEF AcpiInvariant

LEMMA MapTableStep ==
    ASSUME AcpiInvariant, MapTable
    PROVE  AcpiInvariant'
<1>0. pc = "map" /\ UNCHANGED <<firmware, acpi_tables, cur, table, req>> /\ cur \in Addrs
      /\ xsdt' = xsdt
  BY DEF MapTable, AcpiInvariant, AcpiType, firmware
<1>1. /\ Root = (IF cur = XSDT THEN 0 ELSE xsdt.pages)
      /\ Seen = (IF cur = XSDT THEN 0 ELSE i)
      /\ mapping = Blocks(Root, 0, Leaked(Seen))
      /\ slot = [a \in Addrs |-> IF a = XSDT /\ cur # XSDT THEN 0 ELSE NONE]
      /\ cur # XSDT => xsdt.pages \in 1 .. Window /\ cur \in Tables /\ cur # NULL
                       /\ cur = xsdt.entry[i] /\ i <= Len(xsdt.entry)
      /\ PagesAt(cur) \in Nat /\ xsdt.pages \in Nat
  BY <1>0, BetweenTables
<1>2. pc \notin Stopped
  BY <1>0 DEF Stopped
<1>3. /\ CanMap(PagesAt(cur)) <=> PagesAt(cur) > 0 /\ Root + PagesAt(cur) + Lost(Leaked(Seen)) <= Window
      /\ CanMap(PagesAt(cur)) =>
            /\ First(Runs(PagesAt(cur))) = Root
            /\ [mapping EXCEPT ![First(Runs(PagesAt(cur)))] = PagesAt(cur)]
                  = Blocks(Root, PagesAt(cur), Leaked(Seen))
  BY <1>0, <1>1, MapNow
<1>4. CASE CanMap(PagesAt(cur)) /\ acpi_mmap(cur, PagesAt(cur)) /\ pc' = "validate" /\ UNCHANGED i
  <2>1. pc' = "validate" /\ UNCHANGED <<xsdt, acpi_tables, i, cur, table, req>>
    BY <1>4, <1>0
  <2>2. ArrayInv'
    BY <2>1, ArraySame
  <2>3. AcpiType'
    BY <2>1 DEF AcpiInvariant, AcpiType, Places, Acquiring, Addrs
  <2>4. WindowInv'
    <3>1. mapping' = Blocks(Root, PagesAt(cur), Leaked(Seen)) /\ slot' = [slot EXCEPT ![cur] = Root]
      BY <1>3, <1>4 DEF acpi_mmap
    <3>2. Root' = Root /\ Top' = PagesAt(cur) /\ Seen' = Seen /\ (XsdtHeld' <=> cur # XSDT)
      BY <1>0, <2>1 DEF Root, Top, Seen, XsdtHeld, Acquiring, PagesAt
    <3>3. slot' = [a \in Addrs |-> IF a = XSDT /\ cur # XSDT THEN 0 ELSE IF a = cur THEN Root ELSE NONE]
      BY <3>1, <1>1, <1>0
    <3>4. Root + PagesAt(cur) + Lost(Leaked(Seen)) <= Window /\ PagesAt(cur) > 0
      BY <1>3, <1>4
    <3> QED BY <3>1, <3>2, <3>3, <3>4, <2>1, WindowAfter
  <2>5. WorkInv'
    BY <2>1, <1>0 DEF AcpiInvariant, WorkInv, XsdtHeld, Acquiring, Booted
  <2>6. AnswerRight'
    BY <2>1 DEF AnswerRight
  <2> QED BY <2>2, <2>3, <2>4, <2>5, <2>6 DEF AcpiInvariant
<1>5. CASE Null(PagesAt(cur)) /\ NotAcquired
  <2>1. NotAcquired /\ UNCHANGED <<mapping, slot>> /\ ~CanMap(PagesAt(cur))
    BY <1>5 DEF Null, window
  <2>2. mapping' = Blocks(IF cur = XSDT THEN 0 ELSE xsdt.pages, 0, Leaked(IF cur = XSDT THEN 0 ELSE i))
    BY <1>1, <2>1
  <2>3. ASSUME cur # XSDT PROVE ~FitIn(xsdt, i)
    <3>1. cur = xsdt.entry[i] /\ PagesAt(cur) = Pages[cur]
      BY <2>3, <1>1 DEF PagesAt
    <3>2. ASSUME ~Leaked(i), Pages[cur] > 0 PROVE ~(xsdt.pages + Pages[cur] <= Window)
      <4>1. Lost(Leaked(Seen)) = 0
        BY <3>2, <2>3, <1>1 DEF Lost
      <4>2. Root = xsdt.pages /\ Pages[cur] \in Nat
        BY <2>3, <1>1, <3>1
      <4>3. ~(Root + PagesAt(cur) + Lost(Leaked(Seen)) <= Window)
        BY <3>2, <3>1, <1>3, <2>1
      <4> QED BY <4>1, <4>2, <4>3, <3>1, <1>1
    <3>3. LeakedIn(xsdt, i) <=> Leaked(i)
      BY UsableIs
    <3> QED BY <3>1, <3>2, <3>3 DEF FitIn, Fit
  <2> QED BY <2>1, <2>2, <2>3, <1>0, <1>1, NotAcquiredStep
<1>6. CASE Stops(PagesAt(cur)) /\ UNCHANGED i
  <2>1. req'.instance \in Nat
    BY <1>0 DEF AcpiInvariant, AcpiType
  <2> QED BY <1>6, <1>0, <1>1, <2>1, StopStep
<1> QED BY <1>4, <1>5, <1>6 DEF MapTable

\* What is known of a table that is mapped whole.
LEMMA MappedWhole ==
    ASSUME AcpiInvariant, pc \in {"validate", "add"}
    PROVE  /\ pc \in Ranging /\ pc \notin Stopped /\ cur \in Addrs
           /\ Top = PagesAt(cur) /\ Top > 0
           /\ Root = (IF cur = XSDT THEN 0 ELSE xsdt.pages)
           /\ Seen = (IF cur = XSDT THEN 0 ELSE i)
           /\ XsdtHeld <=> cur # XSDT
           /\ Root + Top + Lost(Leaked(Seen)) <= Window
           /\ mapping = Blocks(Root, Top, Leaked(Seen))
           /\ Window \in Nat \ {0, 1} /\ xsdt.pages \in Nat /\ PagesAt(cur) \in Nat
           /\ cur # XSDT =>
                 /\ xsdt.pages \in 1 .. Window /\ cur \in Tables /\ cur # NULL
                 /\ cur = xsdt.entry[i] /\ i <= Len(xsdt.entry) /\ ~Leaked(i)
                 /\ HeadPages[cur] \in 1 .. 2 /\ xsdt.pages + HeadPages[cur] <= Window
<1>1. pc \in Ranging /\ pc \notin Stopped /\ cur \in Addrs /\ xsdt.pages \in Nat
  BY DEF AcpiInvariant, AcpiType, Ranging, Stopped
<1>2. pc = "add" => cur # XSDT
  BY DEF AcpiInvariant, WorkInv
<1>3. XsdtHeld <=> cur # XSDT
  BY <1>2 DEF XsdtHeld, Acquiring
<1>4. cur = XSDT => i = 1
  BY <1>2 DEF AcpiInvariant, WorkInv, Acquiring
<1>5. /\ Top = PagesAt(cur) /\ Root = (IF cur = XSDT THEN 0 ELSE xsdt.pages)
      /\ Seen = (IF cur = XSDT THEN 0 ELSE i)
  BY <1>3, <1>4 DEF Top, Root, Seen
<1>6. Root + Top + Lost(Leaked(Seen)) <= Window /\ mapping = Blocks(Root, Top, Leaked(Seen)) /\ Top > 0
  BY <1>1 DEF AcpiInvariant, WindowInv
<1>7. Window \in Nat \ {0, 1}
  BY AcpiAssumption
<1>8. cur # XSDT => /\ xsdt.pages \in 1 .. Window /\ cur \in Tables /\ cur # NULL
                    /\ cur = xsdt.entry[i] /\ i <= Len(xsdt.entry)
                    /\ xsdt.pages + HeadPages[cur] <= Window
  BY <1>1, <1>3, AcpiAssumption DEF AcpiInvariant, WorkInv, Acquiring, Addrs
<1>9. HeadPages[cur] \in 1 .. 2 /\ PagesAt(cur) \in Nat
  BY <1>1, <1>8, AcpiAssumption DEF PagesAt
<1>10. cur # XSDT => ~Leaked(i)
  <2>1. Leaked(i) => xsdt.pages = Window - 1
    BY LeakedNext
  <2> QED BY <2>1, <1>5, <1>6, <1>7, <1>8, <1>9 DEF Lost
<1> QED BY <1>1, <1>3, <1>5, <1>6, <1>7, <1>8, <1>9, <1>10

\* Unmapping it leaves the XSDT alone in the window.
LEMMA UnmapWhole ==
    ASSUME AcpiInvariant, pc \in {"validate", "add"}, acpi_unmap(cur)
    PROVE  /\ mapping' = Blocks(Root, 0, Leaked(Seen))
           /\ slot' = [a \in Addrs |-> IF a = XSDT /\ cur # XSDT THEN 0 ELSE NONE]
<1>1. /\ pc \in Ranging /\ cur \in Addrs /\ Window \in Nat \ {0, 1} /\ Top = PagesAt(cur)
      /\ Root = (IF cur = XSDT THEN 0 ELSE xsdt.pages) /\ (XsdtHeld <=> cur # XSDT)
      /\ Seen = (IF cur = XSDT THEN 0 ELSE i)
      /\ cur # XSDT => /\ cur # NULL /\ cur = xsdt.entry[i] /\ i <= Len(xsdt.entry) /\ ~Leaked(i)
                       /\ HeadPages[cur] \in 1 .. 2 /\ xsdt.pages + HeadPages[cur] <= Window
  BY MappedWhole
<1>2. /\ mapping' = Blocks(Root, 0, Leaked(Seen) \/ (Root = Window - 1 /\ cur \in Inside))
      /\ slot' = [b \in Addrs |-> IF b = XSDT /\ XsdtHeld THEN 0 ELSE NONE]
  <2>1. cur = IF pc = "handler" THEN table ELSE cur
    OBVIOUS
  <2> QED BY <1>1, <2>1, UnmapNow
<1>3. ~(Root = Window - 1 /\ cur \in Inside)
  <2>1. CASE cur = XSDT
    BY <2>1, <1>1
  <2>2. CASE cur # XSDT
    <3> SUFFICES ASSUME Root = Window - 1, cur \in Inside PROVE FALSE
      OBVIOUS
    <3>1. HeadPages[cur] = 1 /\ xsdt.pages = Window - 1
      BY <2>2, <1>1
    <3>2. Leaks(i)
      BY <2>2, <3>1, <1>1 DEF Leaks
    <3>3. i \in Nat \ {0}
      BY DEF AcpiInvariant, AcpiType
    <3>4. i - 1 \in Nat /\ (i - 1) + 1 = i
      BY <3>3
    <3>5. Leaked(i)
      BY <3>1, <3>2, <3>4, LeakedNext
    <3> QED BY <3>5, <2>2, <1>1
  <2> QED BY <2>1, <2>2
<1>4. (Leaked(Seen) \/ (Root = Window - 1 /\ cur \in Inside)) = Leaked(Seen)
  <2>1. Leaked(Seen) \in BOOLEAN
    BY LeakedNext
  <2> QED BY <2>1, <1>3
<1> QED BY <1>1, <1>2, <1>4

LEMMA ValidateStep ==
    ASSUME AcpiInvariant, Validate
    PROVE  AcpiInvariant'
<1>0. pc = "validate" /\ UNCHANGED <<firmware, acpi_tables, cur, table, req>>
      /\ xsdt' = xsdt
  BY DEF Validate, firmware
<1>1. /\ cur \in Addrs /\ pc \notin Stopped
      /\ Top = PagesAt(cur) /\ Top > 0
      /\ Root = (IF cur = XSDT THEN 0 ELSE xsdt.pages)
      /\ Seen = (IF cur = XSDT THEN 0 ELSE i)
      /\ XsdtHeld <=> cur # XSDT
      /\ Root + Top + Lost(Leaked(Seen)) <= Window
      /\ mapping = Blocks(Root, Top, Leaked(Seen))
      /\ Window \in Nat \ {0, 1} /\ xsdt.pages \in Nat /\ PagesAt(cur) \in Nat
      /\ cur # XSDT =>
            /\ xsdt.pages \in 1 .. Window /\ cur \in Tables /\ cur # NULL
            /\ cur = xsdt.entry[i] /\ i <= Len(xsdt.entry) /\ ~Leaked(i)
            /\ xsdt.pages + HeadPages[cur] <= Window
  BY <1>0, MappedWhole
<1>2. CASE ValidAt(cur)
  <2>1. pc' = (IF cur = XSDT THEN "entries" ELSE "add") /\ UNCHANGED <<mapping, slot>>
        /\ UNCHANGED <<xsdt, acpi_tables, i, cur, table, req>>
    BY <1>2, <1>0 DEF Validate, Acquired, window
  <2>2. ArrayInv'
    BY <2>1, ArraySame
  <2>3. AcpiType'
    BY <2>1 DEF AcpiInvariant, AcpiType, Places, Addrs
  <2>4. WindowInv'
    <3>1. CASE cur = XSDT
      <4>1. i = 1 /\ xsdt.pages > 0
        BY <3>1, <1>0, <1>1 DEF AcpiInvariant, WorkInv, Acquiring, PagesAt
      <4>2. Root' = xsdt.pages /\ Top' = 0 /\ Seen' = 0 /\ XsdtHeld' /\ pc' \notin Ranging
        BY <2>1, <3>1, <4>1 DEF Root, Top, Seen, XsdtHeld, Ranging
      <4>3. mapping' = Blocks(xsdt.pages, 0, Leaked(0))
        <5>1. mapping' = Blocks(0, xsdt.pages, Leaked(0))
          BY <2>1, <1>1, <3>1 DEF PagesAt
        <5>2. PICK t \in Nat \ {0} : t = xsdt.pages
          BY <4>1, <1>1
        <5>3. Blocks(0, t, Leaked(0)) = Blocks(t, 0, Leaked(0))
          BY DEF Blocks
        <5> QED BY <5>1, <5>2, <5>3
      <4>4. slot' = [a \in Addrs |-> IF a = XSDT THEN 0 ELSE NONE]
        <5>1. slot = [a \in Addrs |-> IF a = XSDT /\ XsdtHeld THEN 0 ELSE IF a = cur THEN Root ELSE NONE]
          BY <1>0, <1>1 DEF AcpiInvariant, WindowInv
        <5> QED BY <5>1, <2>1, <1>1, <3>1
      <4> QED BY <4>2, <4>3, <4>4, <2>1, WindowAfter DEF Ranging
    <3>2. CASE cur # XSDT
      <4>1. Root' = Root /\ Top' = Top /\ Seen' = Seen /\ XsdtHeld' /\ pc' = "add"
        BY <2>1, <3>2, <1>0, <1>1 DEF Root, Top, Seen, XsdtHeld, PagesAt
      <4>2. slot' = [a \in Addrs |-> IF a = XSDT /\ XsdtHeld' THEN 0 ELSE IF a = cur' THEN Root ELSE NONE]
        <5>1. slot = [a \in Addrs |-> IF a = XSDT /\ XsdtHeld THEN 0 ELSE IF a = cur THEN Root ELSE NONE]
          BY <1>0, <1>1 DEF AcpiInvariant, WindowInv
        <5> QED BY <5>1, <4>1, <2>1, <1>1, <3>2
      <4> QED BY <4>1, <4>2, <2>1, <1>1, WindowAfter
    <3> QED BY <3>1, <3>2
  <2>5. cur # XSDT => Usable(i)
    <3> SUFFICES ASSUME cur # XSDT PROVE Usable(i)
      OBVIOUS
    <3>1. Valid[cur] /\ Top = Pages[cur] /\ Pages[cur] \in Nat
      BY <1>1, <1>2 DEF ValidAt, PagesAt
    <3>2. Pages[cur] > 0 /\ xsdt.pages + Pages[cur] <= Window
      BY <3>1, <1>1 DEF Lost
    <3> QED BY <3>1, <3>2, <1>1 DEF Usable
  <2>6. xsdt.pages \in 1 .. Window
    <3>1. cur = XSDT => xsdt.pages > 0 /\ xsdt.pages <= Window
      <4>1. Lost(Leaked(Seen)) \in {0, 1}
        BY DEF Lost
      <4> QED BY <4>1, <1>1 DEF PagesAt
    <3> QED BY <3>1, <1>1
  <2>7. cur = XSDT => i = 1
    BY <1>0 DEF AcpiInvariant, WorkInv, Acquiring
  <2>8. WorkInv'
    <3>1. Usable(i)' <=> Usable(i)
      BY <2>1 DEF Usable, Leaked, Leaks
    <3> QED BY <2>1, <2>5, <2>6, <2>7, <3>1, <1>0, <1>1 DEF WorkInv, XsdtHeld, Acquiring, Booted
  <2>9. AnswerRight'
    BY <2>1 DEF AnswerRight
  <2> QED BY <2>2, <2>3, <2>4, <2>8, <2>9 DEF AcpiInvariant
<1>3. CASE ~ValidAt(cur)
  <2>1. NotAcquired /\ acpi_unmap(cur)
    BY <1>3, <1>0 DEF Validate
  <2>2. mapping' = Blocks(Root, 0, Leaked(Seen))
        /\ slot' = [a \in Addrs |-> IF a = XSDT /\ cur # XSDT THEN 0 ELSE NONE]
    BY <2>1, <1>0, UnmapWhole
  <2>3. cur # XSDT => ~FitIn(xsdt, i)
    BY <1>3, <1>1 DEF ValidAt, FitIn
  <2>4. mapping' = Blocks(IF cur = XSDT THEN 0 ELSE xsdt.pages, 0, Leaked(IF cur = XSDT THEN 0 ELSE i))
    BY <2>2, <1>1
  <2> QED BY <2>1, <2>2, <2>3, <2>4, <1>0, NotAcquiredStep
<1> QED BY <1>2, <1>3

\* The window between two entries.
LEMMA BetweenEntries ==
    ASSUME AcpiInvariant, pc = "entries"
    PROVE  /\ Root = xsdt.pages /\ Top = 0 /\ Seen = i - 1 /\ XsdtHeld
           /\ mapping = Blocks(xsdt.pages, 0, Leaked(i - 1))
           /\ slot = [a \in Addrs |-> IF a = XSDT THEN 0 ELSE NONE]
           /\ xsdt.pages \in 1 .. Window /\ i \in Nat \ {0} /\ Window \in Nat \ {0, 1}
<1>1. pc \notin Stopped /\ pc \notin Ranging /\ XsdtHeld
  BY DEF Stopped, Ranging, XsdtHeld
<1>2. Root = xsdt.pages /\ Top = 0 /\ Seen = i - 1
  BY <1>1 DEF Root, Top, Seen
<1>3. mapping = Blocks(xsdt.pages, 0, Leaked(i - 1)) /\ slot = [a \in Addrs |-> IF a = XSDT THEN 0 ELSE NONE]
  BY <1>1, <1>2 DEF AcpiInvariant, WindowInv
<1>4. xsdt.pages \in 1 .. Window /\ i \in Nat \ {0}
  BY <1>1 DEF AcpiInvariant, AcpiType, WorkInv
<1> QED BY <1>1, <1>2, <1>3, <1>4, AcpiAssumption

LEMMA NextEntryStep ==
    ASSUME AcpiInvariant, NextEntry
    PROVE  AcpiInvariant'
<1>0. pc = "entries" /\ i <= Len(xsdt.entry) /\ i \in 1 .. Len(xsdt.entry)
      /\ UNCHANGED <<xsdt, mapping, slot, acpi_tables, table, req>>
      /\ xsdt.entry[i] \in Tables \cup {NULL}
  BY DEF NextEntry, firmware, window, AcpiInvariant, AcpiType
<1>3. /\ mapping = Blocks(xsdt.pages, 0, Leaked(i - 1))
      /\ slot = [a \in Addrs |-> IF a = XSDT THEN 0 ELSE NONE]
      /\ xsdt.pages \in 1 .. Window /\ i \in Nat \ {0}
  BY <1>0, BetweenEntries
<1>1. CASE xsdt.entry[i] = NULL
  <2>1. i' = i + 1 /\ UNCHANGED <<pc, cur>>
    BY <1>1 DEF NextEntry
  <2>2. ArrayInv'
    BY <2>1, <1>0, <1>1, ArrayPasses DEF FitIn
  <2>3. AcpiType'
    BY <2>1, <1>0 DEF AcpiInvariant, AcpiType, Places, Addrs
  <2>4. WindowInv'
    <3>1. Root' = xsdt.pages /\ Top' = 0 /\ Seen' = i /\ XsdtHeld' /\ pc' \notin Ranging
      BY <2>1, <1>0, <1>3 DEF Root, Top, Seen, XsdtHeld, Ranging
    <3>2. Leaked(i) = Leaked(i - 1)
      <4>1. i - 1 \in Nat /\ (i - 1) + 1 = i
        BY <1>3
      <4>2. Leaked(i) <=> Leaked(i - 1) \/ (xsdt.pages = Window - 1 /\ Leaks(i))
        BY <4>1, LeakedNext
      <4>3. ~Leaks(i)
        BY <1>1 DEF Leaks
      <4>4. Leaked(i) \in BOOLEAN /\ Leaked(i - 1) \in BOOLEAN
        BY LeakedNext
      <4> QED BY <4>2, <4>3, <4>4
    <3>3. mapping' = Blocks(xsdt.pages, 0, Leaked(i))
      BY <3>2, <1>0, <1>3
    <3> QED BY <3>1, <3>3, <1>0, <1>3, WindowAfter DEF Ranging
  <2>5. WorkInv'
    BY <2>1, <1>0 DEF AcpiInvariant, WorkInv, XsdtHeld, Acquiring, Booted
  <2>6. AnswerRight'
    BY <2>1, <1>0 DEF AnswerRight
  <2> QED BY <2>2, <2>3, <2>4, <2>5, <2>6 DEF AcpiInvariant
<1>2. CASE xsdt.entry[i] # NULL
  <2>1. pc' = "header" /\ cur' = xsdt.entry[i] /\ i' = i
    BY <1>2 DEF NextEntry
  <2>0. cur' \in Tables /\ cur' # XSDT
    BY <2>1, <1>0, <1>2, AcpiAssumption
  <2>2. ArrayInv'
    BY <2>1, <1>0, ArraySame
  <2>3. AcpiType'
    BY <2>0, <2>1, <1>0 DEF AcpiInvariant, AcpiType, Places, Acquiring, Addrs
  <2>4. WindowInv'
    <3>1. Root' = xsdt.pages /\ Top' = 0 /\ Seen' = i - 1 /\ XsdtHeld' /\ pc' \notin Ranging
      BY <2>0, <2>1, <1>0, <1>3 DEF Root, Top, Seen, XsdtHeld, Acquiring, Ranging
    <3> QED BY <3>1, <1>0, <1>3, WindowAfter DEF Ranging
  <2>5. WorkInv'
    BY <2>0, <2>1, <1>0 DEF AcpiInvariant, WorkInv, XsdtHeld, Acquiring, Booted
  <2>6. AnswerRight'
    BY <2>1 DEF AnswerRight
  <2> QED BY <2>2, <2>3, <2>4, <2>5, <2>6 DEF AcpiInvariant
<1> QED BY <1>1, <1>2

LEMMA AddTableStep ==
    ASSUME AcpiInvariant, acpi_add_table
    PROVE  AcpiInvariant'
<1>0. pc = "add" /\ pc' = "entries" /\ i' = i + 1 /\ acpi_unmap(cur)
      /\ acpi_tables' = (IF HasSpace THEN Append(acpi_tables, cur) ELSE acpi_tables)
      /\ UNCHANGED <<xsdt, cur, table, req>>
  BY DEF acpi_add_table, firmware
<1>1. /\ i \in 1 .. Len(xsdt.entry) /\ cur = xsdt.entry[i] /\ cur # XSDT /\ cur \in Tables
      /\ Usable(i) /\ xsdt.pages \in 1 .. Window /\ acpi_tables \in Seq(Tables)
  BY <1>0 DEF AcpiInvariant, AcpiType, WorkInv, XsdtHeld, Addrs
<1>2. acpi_tables' \in Seq(Tables)
  BY <1>0, <1>1, AppendProperties
<1>3. ArrayInv'
  <2>1. i - 1 \in Nat /\ (i - 1) + 1 = i /\ i' - 1 = i /\ i \in Nat
    BY <1>0, <1>1
  <2>2. Array(xsdt, acpi_tables, i - 1)
    BY <2>1, ArrayIs DEF AcpiInvariant
  <2>3. FitIn(xsdt, (i - 1) + 1) /\ xsdt.entry[(i - 1) + 1] \in Tables
    BY <2>1, <1>1, UsableIs
  <2>4. Array(xsdt, IF Len(acpi_tables) # ACPI_MAX_INIT_TABLES
                    THEN Append(acpi_tables, xsdt.entry[(i - 1) + 1]) ELSE acpi_tables, (i - 1) + 1)
    BY <2>1, <2>2, <2>3, <1>1, ArrayAdd
  <2>5. i' - 1 \in Nat /\ Array(xsdt', acpi_tables', i' - 1)
    BY <2>1, <2>4, <1>0, <1>1 DEF HasSpace
  <2> QED BY <2>5, ArrayIsPrimed
<1>4. AcpiType'
  BY <1>0, <1>1, <1>2 DEF AcpiInvariant, AcpiType, Places, Addrs
<1>5. WindowInv'
  <2>1. Root = xsdt.pages /\ Seen = i
    BY <1>0, <1>1, MappedWhole
  <2>2. mapping' = Blocks(xsdt.pages, 0, Leaked(i))
        /\ slot' = [a \in Addrs |-> IF a = XSDT THEN 0 ELSE NONE]
    BY <2>1, <1>0, <1>1, UnmapWhole
  <2>3. Root' = xsdt.pages /\ Top' = 0 /\ Seen' = i /\ XsdtHeld' /\ pc' \notin Ranging
    BY <1>0, <1>1 DEF Root, Top, Seen, XsdtHeld, Ranging
  <2> QED BY <2>2, <2>3, <1>0, WindowAfter DEF Ranging
<1>6. WorkInv'
  BY <1>0, <1>1 DEF WorkInv, XsdtHeld, Acquiring, Booted
<1>7. AnswerRight'
  BY <1>0 DEF AnswerRight
<1> QED BY <1>3, <1>4, <1>5, <1>6, <1>7 DEF AcpiInvariant

LEMMA EntriesDoneStep ==
    ASSUME AcpiInvariant, EntriesDone
    PROVE  AcpiInvariant'
<1>0. pc = "entries" /\ pc' = "idle" /\ i > Len(xsdt.entry) /\ acpi_unmap(XSDT)
      /\ UNCHANGED <<xsdt, acpi_tables, i, cur, table, req>>
      /\ i = Len(xsdt.entry) + 1
  BY DEF EntriesDone, firmware, AcpiInvariant, AcpiType
<1>1. ArrayInv'
  BY <1>0, ArraySame
<1>2. AcpiType'
  BY <1>0 DEF AcpiInvariant, AcpiType, Places, Booted, Addrs
<1>3. WindowInv'
  <2>1. /\ mapping = Blocks(xsdt.pages, 0, Leaked(i - 1))
        /\ slot = [a \in Addrs |-> IF a = XSDT THEN 0 ELSE NONE]
        /\ xsdt.pages \in 1 .. Window /\ Window \in Nat \ {0, 1}
    BY <1>0, BetweenEntries
  <2>2. slot[XSDT] = 0 /\ 0 # Window - 1
    BY <2>1 DEF Addrs
  <2>3. mapping' = [mapping EXCEPT ![0] = NONE] /\ slot' = [slot EXCEPT ![XSDT] = NONE]
    BY <2>2, <1>0 DEF acpi_unmap
  <2>4. PICK n \in Nat \ {0}, lost \in BOOLEAN : n = xsdt.pages /\ lost = Leaked(i - 1)
    <3>1. Leaked(i - 1) \in BOOLEAN /\ xsdt.pages \in Nat \ {0}
      BY <2>1, LeakedNext
    <3> QED BY <3>1
  <2>5. mapping' = Blocks(0, 0, Leaked(i - 1))
    BY <2>1, <2>3, <2>4, RootGivenBack
  <2>6. slot' = [a \in Addrs |-> NONE]
    BY <2>1, <2>3
  <2>7. Root' = 0 /\ Top' = 0 /\ Seen' = i - 1 /\ ~XsdtHeld' /\ pc' \notin Ranging
    BY <1>0 DEF Root, Top, Seen, XsdtHeld, Acquiring, Ranging
  <2> QED BY <2>5, <2>6, <2>7, <1>0, WindowAfter DEF Ranging
<1>4. WorkInv'
  BY <1>0 DEF AcpiInvariant, WorkInv, XsdtHeld, Acquiring, Booted
<1>5. AnswerRight'
  BY <1>0 DEF AnswerRight
<1> QED BY <1>1, <1>2, <1>3, <1>4, <1>5 DEF AcpiInvariant

\* The window after the boot: nothing but perhaps the last slot.
LEMMA BetweenCalls ==
    ASSUME AcpiInvariant, pc \in {"idle", "failed"}
    PROVE  /\ Root = 0 /\ Top = 0 /\ Seen = i - 1 /\ ~XsdtHeld
           /\ mapping = Blocks(0, 0, Leaked(i - 1))
           /\ slot = [a \in Addrs |-> NONE]
           /\ i = Len(xsdt.entry) + 1
<1>1. pc \notin Stopped /\ pc \notin Ranging /\ ~XsdtHeld
  BY DEF Stopped, Ranging, XsdtHeld, Acquiring
<1>2. Root = 0 /\ Top = 0 /\ Seen = i - 1
  BY <1>1 DEF Root, Top, Seen
<1>3. mapping = Blocks(0, 0, Leaked(i - 1)) /\ slot = [a \in Addrs |-> NONE]
  BY <1>1, <1>2 DEF AcpiInvariant, WindowInv
<1> QED BY <1>1, <1>2, <1>3 DEF AcpiInvariant, WorkInv, Booted

\* The search takes the first match, which is the instance asked for; its
\* mapping cannot fail.
LEMMA GetTableStep ==
    ASSUME AcpiInvariant, NEW s \in Sigs, NEW k \in 1 .. MaxInstance, acpi_get_table(s, k)
    PROVE  AcpiInvariant'
<1> DEFINE N == Named(acpi_tables, s)
           M == Matches(s, k)
<1>0. /\ pc = "idle" /\ req' = [sig |-> s, instance |-> k]
      /\ UNCHANGED <<xsdt, acpi_tables, cur, i>> /\ UNCHANGED firmware
      /\ k \in Nat \ {0} /\ acpi_tables \in Seq(Tables)
  BY AcpiAssumption DEF acpi_get_table, firmware, AcpiInvariant, AcpiType
<1>1. ArrayInv'
  BY <1>0, ArraySame
<1>2. M = {j \in 1 .. Len(acpi_tables) : j \in N /\ k <= Rank(N, j)}
  <2>1. ASSUME NEW j \in 1 .. Len(acpi_tables)
        PROVE  {h \in 1 .. j : Sig[acpi_tables[h]] = s} = Below(N, j)
    BY DEF Below, Named
  <2>2. \A j \in 1 .. Len(acpi_tables) : Cardinality({h \in 1 .. j : Sig[acpi_tables[h]] = s}) = Rank(N, j)
    BY <2>1 DEF Rank
  <2>3. \A j \in 1 .. Len(acpi_tables) : Sig[acpi_tables[j]] = s <=> j \in N
    BY DEF Named
  <2> HIDE DEF N
  <2> QED BY <2>2, <2>3 DEF Matches
<1>3. \A j \in Nat : AskedAmong(j)' = Rank(N, j)
  BY <1>0, CountsPrimed
<1>4. CASE M = {}
  <2>1. pc' = "failed" /\ UNCHANGED <<mapping, slot, table>>
    BY <1>4 DEF acpi_get_table, window
  <2>2. AcpiType'
    BY <2>1, <1>0 DEF AcpiInvariant, AcpiType, Places, Booted, Addrs
  <2>3. WindowInv'
    <3>1. mapping = Blocks(0, 0, Leaked(i - 1)) /\ slot = [a \in Addrs |-> NONE]
      BY <1>0, BetweenCalls
    <3>2. Root' = 0 /\ Top' = 0 /\ Seen' = i - 1 /\ ~XsdtHeld' /\ pc' \notin Ranging
      BY <2>1, <1>0 DEF Root, Top, Seen, XsdtHeld, Acquiring, Ranging
    <3> QED BY <3>1, <3>2, <2>1, <1>0, WindowAfter DEF Ranging
  <2>4. WorkInv'
    BY <2>1, <1>0 DEF AcpiInvariant, WorkInv, XsdtHeld, Acquiring, Booted
  <2>5. Rank(N, Len(acpi_tables)) < k
    <3>1. Len(acpi_tables) \in Nat /\ Rank(N, Len(acpi_tables)) \in Nat
      BY <1>0, RankNat
    <3>2. ASSUME k <= Rank(N, Len(acpi_tables)) PROVE FALSE
      <4>1. k \in 1 .. Rank(N, Len(acpi_tables))
        BY <3>2, <3>1, <1>0
      <4>2. PICK j \in 1 .. Len(acpi_tables) : j \in N /\ Rank(N, j) = k
        BY <4>1, <3>1, RankReached
      <4>3. j \in M
        BY <4>2, <1>2, <1>0
      <4> QED BY <4>3, <1>4
    <3> QED BY <3>1, <3>2, <1>0
  <2>6. AnswerRight'
    <3>1. Len(acpi_tables) \in Nat
      BY <1>0
    <3>2. AskedAmong(Len(acpi_tables))' < req'.instance
      <4>1. PICK l \in Nat : l = Len(acpi_tables)
        BY <3>1
      <4>2. l = Len(acpi_tables')
        BY <4>1, <1>0
      <4>3. AskedAmong(Len(acpi_tables))' = Rank(N, l)
        <5>1. {j \in 1 .. Len(acpi_tables') : Sig[acpi_tables'[j]] = req'.sig} = Below(N, l)
          BY <4>1, <1>0 DEF Below, Named
        <5> QED BY <5>1 DEF AskedAmong, Rank
      <4> QED BY <4>3, <4>1, <2>5, <1>0
    <3> QED BY <3>2, <2>1 DEF AnswerRight
  <2> QED BY <1>1, <2>2, <2>3, <2>4, <2>6 DEF AcpiInvariant
<1>5. CASE M # {}
  <2> DEFINE f == First(M)
             t == acpi_tables[f]
  <2>1. M \in SUBSET Nat
    BY <1>2
  <2>2. \E j \in M : \A h \in M : j <= h
    BY <2>1, <1>5, LeastNatural
  <2>3. f \in M /\ \A h \in M : f <= h
    BY <2>2 DEF First
  <2>4. f \in 1 .. Len(acpi_tables) /\ f \in N /\ k <= Rank(N, f)
    BY <2>3, <1>2
  <2>5. Rank(N, f) = k
    <3>1. f \in Nat /\ Rank(N, f) \in Nat
      BY <2>4, RankNat
    <3>2. k \in 1 .. Rank(N, f)
      BY <3>1, <2>4, <1>0
    <3>3. PICK j \in 1 .. f : j \in N /\ Rank(N, j) = k
      BY <3>1, <3>2, RankReached
    <3>4. j \in M
      BY <3>3, <2>4, <1>2, <1>0
    <3>5. f = j
      BY <3>3, <3>4, <2>3, <3>1
    <3> QED BY <3>3, <3>5
  <2>6. t \in Tables /\ t # XSDT /\ Fit(xsdt, t)
    <3>1. f \in DOMAIN acpi_tables
      BY <2>4, <1>0
    <3> HIDE DEF f
    <3>2. t \in Tables
      BY <3>1, <1>0
    <3>3. Fit(xsdt, t)
      BY <3>1 DEF AcpiInvariant, ArrayInv
    <3> QED BY <3>2, <3>3, AcpiAssumption
  <2>7. /\ CanMap(Pages[t]) /\ First(Runs(Pages[t])) = 0
        /\ [mapping EXCEPT ![0] = Pages[t]] = Blocks(0, Pages[t], Leaked(i - 1))
        /\ Pages[t] > 0 /\ 0 + Pages[t] + Lost(Leaked(i - 1)) <= Window /\ Pages[t] \in Nat
    <3>1. Root = 0 /\ Seen = i - 1 /\ xsdt.pages \in Nat
      BY <1>0, BetweenCalls DEF AcpiInvariant, AcpiType
    <3>2. Pages[t] \in Nat /\ Window \in Nat \ {0, 1}
      BY <2>6, AcpiAssumption
    <3>3. Leaked(i - 1) => xsdt.pages = Window - 1
      BY LeakedNext
    <3> HIDE DEF t
    <3>4. Pages[t] > 0 /\ xsdt.pages + Pages[t] <= Window
      BY <2>6 DEF Fit
    <3>5. 0 + Pages[t] + Lost(Leaked(i - 1)) <= Window
      BY <3>1, <3>2, <3>3, <3>4 DEF Lost
    <3>6. /\ CanMap(Pages[t]) <=> Pages[t] > 0 /\ Root + Pages[t] + Lost(Leaked(Seen)) <= Window
          /\ CanMap(Pages[t]) =>
                /\ First(Runs(Pages[t])) = Root
                /\ [mapping EXCEPT ![First(Runs(Pages[t]))] = Pages[t]] = Blocks(Root, Pages[t], Leaked(Seen))
      BY <1>0, <3>2, MapNow
    <3> QED BY <3>1, <3>2, <3>4, <3>5, <3>6
  <2>8. pc' = "handler" /\ table' = t /\ acpi_mmap(t, Pages[t])
    BY <1>5, <2>7 DEF acpi_get_table, Null, Stops
  <2>9. t \in Addrs /\ Sig[t] = s /\ f \in DOMAIN acpi_tables /\ f \in Nat
    BY <2>6, <2>4, <1>0 DEF Addrs, Named
  <2> HIDE DEF M
  <2>10. PICK g \in Nat : g = f
    BY <2>9
  <2>11. PICK u \in Tables : u = t
    BY <2>6
  <2> HIDE DEF f, t
  <2>12. AcpiType'
    BY <2>8, <2>6, <1>0 DEF AcpiInvariant, AcpiType, Places, Booted, Addrs
  <2>13. mapping' = Blocks(0, Pages[u], Leaked(i - 1)) /\ slot' = [a \in Addrs |-> IF a = u THEN 0 ELSE NONE]
    <3>1. slot = [a \in Addrs |-> NONE]
      BY <1>0, BetweenCalls
    <3>2. mapping' = [mapping EXCEPT ![0] = Pages[t]] /\ slot' = [slot EXCEPT ![t] = 0]
      BY <2>7, <2>8 DEF acpi_mmap
    <3> QED BY <3>1, <3>2, <2>7, <2>11
  <2>14. pc' = "handler" /\ table' = u /\ u # XSDT
    BY <2>8, <2>11, <2>6
  <2>15. WindowInv'
    <3>1. Root' = 0 /\ Top' = Pages[u] /\ Seen' = i - 1 /\ ~XsdtHeld'
      BY <2>14, <1>0 DEF Root, Top, Seen, XsdtHeld, Acquiring
    <3>2. Pages[u] > 0 /\ 0 + Pages[u] + Lost(Leaked(i - 1)) <= Window
      BY <2>7, <2>11
    <3>3. slot' = [a \in Addrs |-> IF a = XSDT /\ XsdtHeld' THEN 0
                                   ELSE IF \/ a = cur' /\ pc' \in {"length", "validate", "add"}
                                           \/ a = table' /\ pc' = "handler" THEN 0
                                   ELSE NONE]
      BY <3>1, <2>13, <2>14
    <3> QED BY <3>1, <3>2, <3>3, <2>13, <1>0, WindowAfter
  <2>16. WorkInv'
    BY <2>14, <1>0 DEF AcpiInvariant, WorkInv, XsdtHeld, Acquiring, Booted
  <2>17. g \in DOMAIN acpi_tables /\ u = acpi_tables[g] /\ Sig[u] = s /\ Rank(N, g) = k
    BY <2>9, <2>10, <2>11, <2>5 DEF t
  <2>18. AskedAmong(g)' = k
    BY <1>3, <2>17
  <2>19. AnswerRight'
    <3>1. mapping'[slot'[u]] = Pages[u]
      <4>1. slot'[u] = 0 /\ 0 \in Slots
        BY <2>13, <2>9, <2>11, AcpiAssumption DEF Slots
      <4>2. Pages[u] > 0
        BY <2>7, <2>11
      <4>3. Blocks(0, Pages[u], Leaked(i - 1))[0] = Pages[u]
        BY <4>1, <4>2 DEF Blocks
      <4> QED BY <4>1, <4>3, <2>13
    <3>2. \E j \in DOMAIN acpi_tables' :
             /\ table' = acpi_tables'[j]
             /\ Sig[table'] = req'.sig /\ AskedAmong(j)' = req'.instance
      BY <2>17, <2>18, <2>14, <1>0
    <3> QED BY <3>1, <3>2, <2>14 DEF AnswerRight
  <2> QED BY <1>1, <2>12, <2>15, <2>16, <2>19 DEF AcpiInvariant
<1> QED BY <1>4, <1>5

LEMMA PutTableStep ==
    ASSUME AcpiInvariant, acpi_put_table
    PROVE  AcpiInvariant'
<1>0. pc = "handler" /\ pc' = "idle" /\ acpi_unmap(table) /\ table' = NULL
      /\ req' = NoReq /\ UNCHANGED <<xsdt, acpi_tables, i, cur>>
  BY DEF acpi_put_table, firmware
<1>1. ArrayInv'
  BY <1>0, ArraySame
<1>2. AcpiType'
  BY <1>0 DEF AcpiInvariant, AcpiType, Places, Booted, Addrs, NoReq
<1>3. WindowInv'
  <2>1. table \in Addrs /\ pc \in Ranging /\ pc \notin Stopped
    BY <1>0 DEF AcpiInvariant, WorkInv, Addrs, Ranging, Stopped
  <2>2. Root = 0 /\ Seen = i - 1 /\ ~XsdtHeld
    BY <1>0 DEF Root, Seen, XsdtHeld, Acquiring
  <2>3. /\ mapping' = Blocks(Root, 0, Leaked(Seen) \/ (Root = Window - 1 /\ table \in Inside))
        /\ slot' = [b \in Addrs |-> IF b = XSDT /\ XsdtHeld THEN 0 ELSE NONE]
    BY <2>1, <1>0, UnmapNow
  <2>4. (Leaked(Seen) \/ (Root = Window - 1 /\ table \in Inside)) = Leaked(i - 1)
    <3>1. Leaked(i - 1) \in BOOLEAN
      BY LeakedNext
    <3>2. 0 # Window - 1
      BY AcpiAssumption
    <3> QED BY <3>1, <3>2, <2>2
  <2>5. mapping' = Blocks(0, 0, Leaked(i - 1)) /\ slot' = [b \in Addrs |-> NONE]
    BY <2>2, <2>3, <2>4
  <2>6. Root' = 0 /\ Top' = 0 /\ Seen' = i - 1 /\ ~XsdtHeld' /\ pc' \notin Ranging
    BY <1>0 DEF Root, Top, Seen, XsdtHeld, Acquiring, Ranging
  <2> QED BY <2>5, <2>6, <1>0, WindowAfter DEF Ranging
<1>4. WorkInv'
  BY <1>0 DEF AcpiInvariant, WorkInv, XsdtHeld, Acquiring, Booted
<1>5. AnswerRight'
  BY <1>0 DEF AnswerRight
<1> QED BY <1>1, <1>2, <1>3, <1>4, <1>5 DEF AcpiInvariant

LEMMA NotFoundStep ==
    ASSUME AcpiInvariant, NotFound
    PROVE  AcpiInvariant'
<1>0. pc = "failed" /\ pc' = "idle" /\ req' = NoReq
      /\ UNCHANGED <<xsdt, mapping, slot, acpi_tables, i, cur, table>>
  BY DEF NotFound, firmware, window
<1>1. ArrayInv'
  BY <1>0, ArraySame
<1>2. AcpiType'
  BY <1>0 DEF AcpiInvariant, AcpiType, Places, Booted, Addrs, NoReq
<1>3. WindowInv'
  <2>1. mapping = Blocks(0, 0, Leaked(i - 1)) /\ slot = [a \in Addrs |-> NONE]
    BY <1>0, BetweenCalls
  <2>2. Root' = 0 /\ Top' = 0 /\ Seen' = i - 1 /\ ~XsdtHeld' /\ pc' \notin Ranging
    BY <1>0 DEF Root, Top, Seen, XsdtHeld, Acquiring, Ranging
  <2> QED BY <2>1, <2>2, <1>0, WindowAfter DEF Ranging
<1>4. WorkInv'
  BY <1>0 DEF AcpiInvariant, WorkInv, XsdtHeld, Acquiring, Booted
<1>5. AnswerRight'
  BY <1>0 DEF AnswerRight
<1> QED BY <1>1, <1>2, <1>3, <1>4, <1>5 DEF AcpiInvariant

-----------------------------------------------------------------------------
(* The theorems.                                                           *)

LEMMA AcpiUnchanged == AcpiInvariant /\ UNCHANGED vars => AcpiInvariant'
<1> SUFFICES ASSUME AcpiInvariant, UNCHANGED vars PROVE AcpiInvariant'
  OBVIOUS
<1>1. UNCHANGED <<xsdt, mapping, slot, acpi_tables, pc, cur, i, table, req>>
  BY DEF vars, firmware, window
<1>2. ArrayInv'
  BY <1>1, ArraySame
<1>3. AcpiType'
  BY <1>1 DEF AcpiInvariant, AcpiType
<1>4. WindowInv'
  <2>1. CASE pc \in Stopped
    BY <2>1, <1>1 DEF WindowInv
  <2>2. CASE pc \notin Stopped
    <3>1. Root' = Root /\ Top' = Top /\ Seen' = Seen /\ XsdtHeld' = XsdtHeld
      BY <1>1 DEF Root, Top, Seen, XsdtHeld, PagesAt
    <3>2. WindowInv
      BY DEF AcpiInvariant
    <3> QED BY <3>1, <3>2, <2>2, <1>1, WindowAfter DEF WindowInv
  <2> QED BY <2>1, <2>2
<1>5. WorkInv'
  <2>1. Usable(i)' <=> Usable(i)
    BY <1>1 DEF Usable, Leaked, Leaks
  <2> QED BY <2>1, <1>1 DEF AcpiInvariant, WorkInv, XsdtHeld
<1>6. AnswerRight'
  <2>1. \A n \in Nat : AskedAmong(n)' = AskedAmong(n)
    BY <1>1, Counts, CountsPrimed
  <2>2. AskedAmong(Len(acpi_tables))' = AskedAmong(Len(acpi_tables))
    BY <1>1 DEF AskedAmong
  <2>3. \A j \in DOMAIN acpi_tables : j \in Nat
    BY DEF AcpiInvariant, AcpiType
  <2>4. AnswerRight
    BY DEF AcpiInvariant
  <2> QED BY <1>1, <2>1, <2>2, <2>3, <2>4 DEF AnswerRight
<1> QED BY <1>2, <1>3, <1>4, <1>5, <1>6 DEF AcpiInvariant

LEMMA AcpiNext == AcpiInvariant /\ [Next]_vars => AcpiInvariant'
<1> SUFFICES ASSUME AcpiInvariant, [Next]_vars PROVE AcpiInvariant'
  OBVIOUS
<1>1. CASE acpi_table_init
  BY <1>1, TableInitStep
<1>2. CASE MapHeader
  BY <1>2, MapHeaderStep
<1>3. CASE UnmapHeader
  BY <1>3, UnmapHeaderStep
<1>4. CASE MapTable
  BY <1>4, MapTableStep
<1>5. CASE Validate
  BY <1>5, ValidateStep
<1>6. CASE NextEntry
  BY <1>6, NextEntryStep
<1>7. CASE acpi_add_table
  BY <1>7, AddTableStep
<1>8. CASE EntriesDone
  BY <1>8, EntriesDoneStep
<1>9. CASE acpi_put_table
  BY <1>9, PutTableStep
<1>10. CASE NotFound
  BY <1>10, NotFoundStep
<1>11. CASE \E s \in Sigs, k \in 1 .. MaxInstance : acpi_get_table(s, k)
  BY <1>11, GetTableStep
<1>12. CASE UNCHANGED vars
  BY <1>12, AcpiUnchanged
<1> QED BY <1>1, <1>2, <1>3, <1>4, <1>5, <1>6, <1>7, <1>8, <1>9, <1>10, <1>11, <1>12 DEF Next, Step

LEMMA AcpiAlways == Spec => []AcpiInvariant
<1> QED BY AcpiInit, AcpiNext, PTL DEF Spec

\* What the ranges take, together.
LEMMA TakenLast ==
    ASSUME NEW lost \in BOOLEAN
    PROVE  Taken(Blocks(0, 0, lost)) = IF lost THEN {Window - 1} ELSE {}
<1>1. 0 + 0 + Lost(lost) <= Window
  BY AcpiAssumption DEF Lost
<1>2. Taken(Blocks(0, 0, lost)) = (0 .. 0 + 0 - 1) \cup (IF lost THEN {Window - 1} ELSE {})
  BY <1>1, TakenBlocks
<1>3. 0 .. 0 + 0 - 1 = {}
  OBVIOUS
<1> QED BY <1>2, <1>3

\* No early return of acpi__acquire_table, acpi_add_table or acpi_get_table
\* leaves a page mapped: whenever no call is in progress the window is whole
\* but for its last slot, which is lost exactly if an XSDT that leaves one
\* slot came with a table inside a page, whose header iounmap does not give
\* back; and it is whole when the boot is given up.
THEOREM NothingStaysMapped == Spec => []NothingLeftMapped
<1>1. AcpiInvariant => NothingLeftMapped
  <2> SUFFICES ASSUME AcpiInvariant PROVE NothingLeftMapped
    OBVIOUS
  <2>0. \A n : Leaked(n) \in BOOLEAN
    BY LeakedNext
  <2>1. ASSUME pc = "halt" PROVE Reserved = {}
    <3>1. pc \notin Stopped /\ ~XsdtHeld /\ i = 1
      BY <2>1 DEF Stopped, XsdtHeld, Acquiring, AcpiInvariant, WorkInv
    <3>2. Root = 0 /\ Top = 0 /\ Seen = 0
      BY <3>1, <2>1 DEF Root, Top, Seen
    <3>3. mapping = Blocks(0, 0, FALSE)
      <4>1. Leaked(0) = FALSE
        BY LeakedNext
      <4> QED BY <3>1, <3>2, <4>1 DEF AcpiInvariant, WindowInv
    <3> QED BY <3>3, TakenLast, TakenIs
  <2>2. ASSUME pc = "idle"
        PROVE  Reserved = IF Leaked(Len(xsdt.entry)) THEN {Window - 1} ELSE {}
    <3>1. mapping = Blocks(0, 0, Leaked(i - 1)) /\ i = Len(xsdt.entry) + 1
      BY <2>2, BetweenCalls
    <3>2. i - 1 = Len(xsdt.entry)
      BY <3>1 DEF AcpiInvariant, AcpiType
    <3>3. PICK lost \in BOOLEAN : lost = Leaked(Len(xsdt.entry))
      BY <2>0
    <3>4. mapping = Blocks(0, 0, lost)
      BY <3>1, <3>2, <3>3
    <3> QED BY <3>3, <3>4, TakenLast, TakenIs
  <2> QED BY <2>1, <2>2 DEF NothingLeftMapped
<1> QED BY <1>1, AcpiAlways, PTL

\* After acpi_boot_table_init the array holds exactly the usable tables of the
\* XSDT, in its order, up to the array's length.
THEOREM ArrayFaithful == Spec => []TablesFaithful
<1>1. AcpiInvariant => TablesFaithful
  <2> SUFFICES ASSUME AcpiInvariant, pc = "idle"
               PROVE  LET n == UsableAmong(Len(xsdt.entry))
                      IN  /\ Len(acpi_tables) = IF n < ACPI_MAX_INIT_TABLES THEN n ELSE ACPI_MAX_INIT_TABLES
                          /\ \A k \in DOMAIN xsdt.entry :
                                Usable(k) /\ UsableAmong(k) <= ACPI_MAX_INIT_TABLES =>
                                   acpi_tables[UsableAmong(k)] = xsdt.entry[k]
    BY DEF TablesFaithful
  <2>1. i - 1 = Len(xsdt.entry) /\ DOMAIN xsdt.entry = 1 .. Len(xsdt.entry)
    BY DEF AcpiInvariant, AcpiType, WorkInv, Booted
  <2> QED BY <2>1 DEF AcpiInvariant, ArrayInv, Bounded
<1> QED BY <1>1, AcpiAlways, PTL

\* acpi_get_table answers the instance asked for of its signature, mapped
\* whole, and answers none only if the array has none.
THEOREM AnswersRight == Spec => []AnswerRight
<1>1. AcpiInvariant => AnswerRight
  BY DEF AcpiInvariant
<1> QED BY <1>1, AcpiAlways, PTL
=============================================================================
