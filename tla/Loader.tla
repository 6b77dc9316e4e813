------------------------------- MODULE Loader -------------------------------
(***************************************************************************)
(* The EFI stub: its dealings with the firmware (EfiBoot), in which the    *)
(* decompression of the kernel is one step that succeeds or fails, and     *)
(* that step itself (Deflate).  A behaviour is one of the two.             *)
(***************************************************************************)
EXTENDS EfiBoot, Deflate

VARIABLE part    \* "stub" or "inflate"

loaderVars == <<part, vars, inflateVars>>

AnyMemory == CHOOSE m \in Memories : TRUE
NoFile == [bytes |-> <<>>, data |-> <<>>, good |-> TRUE]

LoaderInit ==
    \/ part = "stub" /\ Init /\ StartInflate(NoFile)
    \/ part = "inflate" /\ mem = AnyMemory /\ handles = <<>> /\ Init /\ InflateInit

LoaderNext ==
    \/ part = "stub" /\ Next /\ UNCHANGED <<part, inflateVars>>
    \/ part = "inflate" /\ InflateNext /\ UNCHANGED <<part, vars>>

LoaderSpec == LoaderInit /\ [][LoaderNext]_loaderVars
=============================================================================
