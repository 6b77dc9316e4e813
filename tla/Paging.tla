------------------------------- MODULE Paging -------------------------------
(***************************************************************************)
(* The kernel's address space: the tables it boots on (EarlyMap), in which *)
(* the building of the direct map is a few steps, and that building itself *)
(* (DirectMap).  A behaviour is one of the two.                            *)
(***************************************************************************)
EXTENDS DirectMap, EarlyMap

VARIABLE tree    \* "early" or "direct"

pagingVars == <<tree, vars, earlyVars>>

AnyMachine == CHOOSE m \in Machines : TRUE

PagingInit ==
    \/ tree = "direct" /\ Init /\ EarlyStart(AnyMachine)
    \/ tree = "early" /\ StartMapping(<<>>) /\ EarlyInit

PagingNext ==
    \/ tree = "direct" /\ Next /\ UNCHANGED <<tree, earlyVars>>
    \/ tree = "early" /\ EarlyNext /\ UNCHANGED <<tree, vars>>

\* The processor goes on with the access it is at.
PagingSpec ==
    /\ PagingInit /\ [][PagingNext]_pagingVars
    /\ WF_<<at, tab, touching>>(tree = "early" /\ Resolve)
=============================================================================
