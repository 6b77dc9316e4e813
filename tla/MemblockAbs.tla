---------------------------- MODULE MemblockAbs -----------------------------
(***************************************************************************)
(* What the boot memory allocator promises, without its array: every byte  *)
(* of physical memory is absent or has a flag and a node, and each call of *)
(* include/cyanea/memblock.h takes effect at once, between the call and    *)
(* its return.                                                             *)
(***************************************************************************)
EXTENDS Integers

CONSTANTS PAGE_SIZE, MaxAddr, Nodes, Aligns

VARIABLES
    mem,     \* what is known of each byte
    st,      \* "idle", "busy" before the effect, "done" after it, "dead"
    req,     \* the call being served
    res      \* its result

vars == <<mem, st, req, res>>

NO_NODE == -1
Nids    == Nodes \cup {NO_NODE}
ENOSPC  == -28

Bytes  == 0 .. MaxAddr - 1
Absent == [flags |-> "ABSENT", nid |-> NO_NODE]
Cell(f, nd) == [flags |-> f, nid |-> nd]

NoReq == [fn |-> "add", base |-> 0, size |-> 0, nid |-> NO_NODE, set |-> FALSE,
          align |-> 1, lo |-> 0, hi |-> 0, exact |-> FALSE]

Requests == [fn : {"add", "remove", "setclr", "set_node", "alloc"},
             base : Nat, size : Nat, nid : Nids, set : BOOLEAN,
             align : Aligns \cup {1}, lo : Nat, hi : Nat, exact : BOOLEAN]

Range(b, s) == b .. b + s - 1

Init ==
    /\ mem = [a \in Bytes |-> Absent]
    /\ st = "idle" /\ req = NoReq /\ res = 0

-----------------------------------------------------------------------------
\* Adding memory leaves the bytes that are known already as they are.
Added(m, c) ==
    [a \in Bytes |-> IF a \in Range(c.base, c.size) /\ m[a] = Absent
                     THEN Cell("NONE", c.nid) ELSE m[a]]

\* The other calls change the known bytes of their range, and only those.
Changed(m, c, b) ==
    [a \in Bytes |->
        IF a \notin Range(b, c.size) \/ m[a] = Absent THEN m[a]
        ELSE CASE c.fn = "remove"   -> Absent
               [] c.fn = "set_node" -> [m[a] EXCEPT !.nid = c.nid]
               [] OTHER             -> [m[a] EXCEPT !.flags =
                                          IF c.set THEN "RESERVED" ELSE "NONE"]]

\* A block memblock_alloc may hand out: aligned, above the first page, inside
\* the window, every byte of it free and on one node.
Block(p, c, nd) ==
    /\ p % c.align = 0
    /\ p >= PAGE_SIZE /\ p >= c.lo /\ p + c.size <= c.hi
    /\ \A a \in Range(p, c.size) : a \in Bytes /\ mem[a] = Cell("NONE", nd)

-----------------------------------------------------------------------------
Request ==
    /\ st = "idle"
    /\ req' \in Requests
    /\ req'.base + req'.size <= MaxAddr
    /\ st' = IF req'.fn = "add" THEN "done" ELSE "busy"
    /\ mem' = IF req'.fn = "add" THEN Added(mem, req') ELSE mem
    /\ res' = 0

Effect ==
    /\ st = "busy" /\ req.fn # "alloc"
    /\ st' = "done"
    /\ mem' = Changed(mem, req, req.base)
    /\ UNCHANGED <<req, res>>

\* The node asked for comes first; another one is second best, and only for a
\* caller that does not insist.
Grant(p, nd) ==
    /\ st = "busy" /\ req.fn = "alloc"
    /\ p # 0 /\ Block(p, req, nd)
    /\ req.nid \notin {NO_NODE, nd} /\ req.size > 0 =>
          /\ ~req.exact
          /\ \A q \in Bytes : ~Block(q, req, req.nid)
    /\ st' = "done"
    /\ res' = p
    /\ mem' = Changed(mem, req, p)
    /\ UNCHANGED req

\* The array behind the interface has no room for the cuts.
Refuse ==
    /\ st = "busy" /\ st' = "done"
    /\ res' = IF req.fn = "alloc" THEN 0 ELSE ENOSPC
    /\ UNCHANGED <<mem, req>>

Return ==
    /\ st = "done" /\ st' = "idle"
    /\ req' = NoReq /\ res' = 0
    /\ UNCHANGED mem

\* No room to add memory: the kernel stops.  No other call may stop it.
Stop ==
    /\ st = "done" /\ req.fn = "add" /\ st' = "dead"
    /\ UNCHANGED <<mem, req, res>>

Answer ==
    \/ Effect
    \/ \E p \in Bytes, nd \in Nids : Grant(p, nd)
    \/ Refuse
    \/ Return
    \/ Stop

Next == Request \/ Answer

\* What is answered, without the promise of an answer: a call may stay where it
\* is for ever.
Safety == Init /\ [][Next]_vars

\* Every call that is made is answered.
Spec == Safety /\ WF_vars(Answer)
=============================================================================
