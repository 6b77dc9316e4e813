----------------------------- MODULE MCMemblock -----------------------------
(* Small instances of Memblock for TLC. *)
EXTENDS MemblockRefinement

\* The two ranges the kernel asks for: low memory, and everywhere.
KernelWindows == {<<0, MaxAddr \div 2>>, <<0, MaxAddr>>}
=============================================================================
