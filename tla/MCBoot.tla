------------------------------- MODULE MCBoot -------------------------------
(* Six pages of two bytes, SZ_1M after two; the kernel has page 2 and the  *)
(* brk page 3.  Memory maps of up to four descriptors that cover the six   *)
(* pages, in any order; neighbouring memory has different types.           *)
EXTENDS Boot

D(a, b, t) == [start |-> a * PAGE_SIZE, pages |-> b - a, type |-> t]
Cuts == {c \in (0 .. 6) \X (0 .. 6) \X (0 .. 6) : c[1] <= c[2] /\ c[2] <= c[3]}
Orders == {o \in [1 .. 4 -> 1 .. 4] : \A i, j \in 1 .. 4 : i # j => o[i] # o[j]}
Type(isRam, i) == IF ~isRam THEN "ACPI_NVS" ELSE IF i % 2 = 0 THEN "CONVENTIONAL" ELSE "LOADER_CODE"
Map(c, t) == <<D(0, c[1], Type(t[1], 1)), D(c[1], c[2], Type(t[2], 2)),
               D(c[2], c[3], Type(t[3], 3)), D(c[3], 6, Type(t[4], 4))>>
Ordered(s, o) == SelectSeq([i \in 1 .. 4 |-> s[o[i]]], LAMBDA d : d.pages > 0)
MCDescLists == {Ordered(Map(c, t), o) : c \in Cuts, t \in [1 .. 4 -> BOOLEAN], o \in Orders}

MCRamdisks == {[image |-> 0, size |-> 0], [image |-> 8, size |-> 1]}
=============================================================================
