------------------------------- MODULE MCMadt -------------------------------
(* Three processors (the boot processor among them, one listed as x2APIC), *)
(* one disabled, one with the broadcast ID; two IO-APICs, one of them not  *)
(* at the start of a page; two overrides; an entry that needs nothing done.*)
EXTENDS Madt, TLC

Processor(ty, n, on) == [type |-> ty, id |-> n, uid |-> n + 10, enabled |-> on]
IoApic(n, a, g) == [type |-> "IO_APIC", id |-> n, address |-> a, gsi_base |-> g]
Override(a) == [type |-> "LOCAL_APIC_OVERRIDE", address |-> a]
Plain(ty) == [type |-> ty]

CpuEntries == {Processor("LOCAL_APIC", n, TRUE) : n \in {1, 2}} \cup
              {Processor("LOCAL_X2APIC", 4, TRUE), Processor("LOCAL_X2APIC", 255, TRUE),
               Processor("LOCAL_APIC", 5, FALSE)}
IoEntries == {IoApic(7, 16, 0), IoApic(8, 25, 24)}

MadtEntries == CpuEntries \cup IoEntries \cup
               {Override(64), Override(72), Plain("LOCAL_APIC_NMI")}

\* The IO-APICs have 4 and 2 entries; PAGE_SIZE is 8.
Redirections == (16 :> 4) @@ (25 :> 2)
=============================================================================
