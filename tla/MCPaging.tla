------------------------------ MODULE MCPaging ------------------------------
(* Small instances of Paging for TLC. *)
EXTENDS Paging

Piece(a, b) == [base |-> a, size |-> b - a]

\* Every way to put one or two regions, side by side or apart, into memory.
Regions(from) ==
    UNION {{Piece(a, b) : b \in a + 1 .. MaxPages * PAGE_SIZE} :
              a \in from .. MaxPages * PAGE_SIZE}

TwoRegions ==
    UNION {{<<r>>} \cup {<<r, s>> : s \in Regions(r.base + r.size)} : r \in Regions(0)}

\* The kernel within a table and across the boundary of two; a processor with
\* INVPCID and one without; firmware with global pages and without; the PAT of
\* a reset, one whose slots for the kernel's UC- and UC are WC and WP, and the
\* one the kernel will program.
Machine(l, leaf7, invpcid, bits, p, on) ==
    [load |-> l, cpu |-> [leaf7 |-> leaf7, invpcid |-> invpcid], cr4 |-> bits,
     pat |-> p, mtrr |-> on]
OddPat == [k \in Slots |-> <<"WB", "WT", "WC", "WP", "UC", "WB", "WC", "UC-">>[k + 1]]
SomeMachines ==
    {Machine(1, TRUE, TRUE, {"PAE", "PGE"}, ResetPat, TRUE),
     Machine(5, FALSE, FALSE, {"PAE"}, OddPat, TRUE),
     Machine(5, FALSE, FALSE, {"PAE", "PGE"}, PatMsrVal, FALSE)}
=============================================================================
