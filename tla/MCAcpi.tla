------------------------------- MODULE MCAcpi -------------------------------
(* Two good MADTs, one inside a page; one with a wrong checksum whose header *)
(* crosses a page, one that does not fit beside a long XSDT, one of length   *)
(* 0, and another table inside a page.                                       *)
EXTENDS Acpi

MCTables == 2 .. 7
MCHeadPages == [a \in {1} \cup MCTables |-> IF a = 4 THEN 2 ELSE 1]
MCPages == [t \in MCTables |-> CASE t \in {4, 5} -> 2 [] t = 6 -> 0 [] OTHER -> 1]
MCInside == {1, 3, 4, 7}
MCValid == [t \in MCTables |-> t # 4]
MCSig == [t \in MCTables |-> IF t = 7 THEN "HPET" ELSE "APIC"]
MCXsdtPages == {1, 2, 3, 4}

\* The word behind mapping[]: a free mark, 0, a range.
MCBeyond == {-1, 0, 1}
=============================================================================
