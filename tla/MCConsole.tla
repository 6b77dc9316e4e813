----------------------------- MODULE MCConsole -----------------------------
(* Two slots for three serial ports of which two are the same.             *)
EXTENDS Console

Entry(n, x, a) == [name |-> n, index |-> x, addr |-> a]

MCSerialPorts == <<8, 8, 9>>

\* The screen; a port there is, and one there is not; a port by its address,
\* one that is not there, and options that cannot be parsed; no such console.
MCCmdLines == {Entry("tty", 0, NONE), Entry("ttyS", 1, NONE), Entry("ttyS", 2, NONE),
               Entry("uart", 0, 9), Entry("uart", 0, 5), Entry("uart", 0, NONE),
               Entry("lp", 0, NONE)}
\* Only the screen.
MCNoPorts == <<>>
MCScreenOnly == {Entry("tty", 0, NONE)}

MCPreferred == {Entry("tty", 0, NONE), Entry("ttyS", 0, NONE)}
=============================================================================
