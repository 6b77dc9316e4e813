------------------------------ MODULE MCFixmap ------------------------------
(* Small instances of Fixmap for TLC. *)
EXTENDS Fixmap

\* The word behind mapping[] may look like a free slot, or like a range.
FreeOrRange == {-1, 1}
=============================================================================
