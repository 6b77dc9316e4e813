------------------------------- MODULE Params -------------------------------
(***************************************************************************)
(* Boot parameters: do_param (init/main.c) looks every registered option   *)
(* up in the command line with param_get_option (ukernel/params.c), a      *)
(* state machine that reads the line once, and hands the value to the      *)
(* option's function.  One buffer, 'param', serves all options; Options    *)
(* are those do_param is asked for, the early ones.                        *)
(*                                                                         *)
(* Characters are members of Chars; " " separates words and "=" a value.   *)
(* Cells of the buffer that nothing has been written to hold JUNK.         *)
(***************************************************************************)
EXTENDS Integers, Sequences

CONSTANTS
    Chars,        \* characters of the command line
    MaxLen,       \* bound of its length
    SIZE,         \* COMMAND_LINE_SIZE; a line that long has no NUL
    Options,      \* the registered options, in the order of .init.setup
    BUF_LEN       \* sizeof(param)

SP == " "
EQ == "="
NUL == "NUL"
JUNK == "JUNK"

ASSUME ParamsAssumption ==
    /\ NUL \notin Chars /\ JUNK \notin Chars
    /\ MaxLen \in Nat /\ SIZE \in Nat \ {0} /\ MaxLen <= SIZE
    /\ Options \in Seq(Seq(Chars \ {SP, EQ}))
    /\ \A k \in DOMAIN Options : Options[k] # <<>>
    /\ BUF_LEN \in Nat \ {0}

EINVAL == -22

VARIABLES
    cmdline,
    p,         \* the option do_param is at
    pc,        \* "lookup", "scan", "found", "done"
    state,     \* "WORDSTART", "WORDCMP", "WORDSKIP" or "BUFCOPY"
    i, n,      \* locals of __param_get_option
    op,        \* index of the option's character to compare
    buffer,    \* index of the cell to write next
    buf,       \* the buffer
    ret,       \* what param_get_option returned
    calls      \* for each option, what its function was called with

scan == <<state, i, n, op, buffer>>
vars == <<cmdline, p, pc, scan, buf, ret, calls>>

NotCalled == <<>>

Init ==
    /\ cmdline \in UNION {[1 .. k -> Chars] : k \in 0 .. MaxLen}
    /\ p = 1 /\ pc = "lookup"
    /\ state = "WORDSTART" /\ i = 1 /\ n = -1 /\ op = 1 /\ buffer = 1
    /\ buf = [k \in 1 .. BUF_LEN |-> JUNK]
    /\ ret = 0
    /\ calls = [k \in DOMAIN Options |-> NotCalled]

option == Options[p]
ch == IF i <= Len(cmdline) THEN cmdline[i] ELSE NUL

-----------------------------------------------------------------------------
\* param_get_option is called for the next option.
Lookup ==
    /\ pc = "lookup" /\ p <= Len(Options)
    /\ pc' = "scan"
    /\ state' = "WORDSTART" /\ i' = 1 /\ n' = -1 /\ op' = 1 /\ buffer' = 1
    /\ UNCHANGED <<cmdline, p, buf, ret, calls>>

LookupDone ==
    /\ pc = "lookup" /\ p > Len(Options)
    /\ pc' = "done"
    /\ UNCHANGED <<cmdline, p, scan, buf, ret, calls>>

\* What __param_get_option returns, as param_get_option passes it on.
Result(r) == CASE r = -2 -> 0 [] r = -1 -> EINVAL [] OTHER -> r

Finish(r) ==
    /\ ret' = Result(r)
    /\ pc' = "found"

\* The end of an iteration that leaves b in the buffer, the next cell at w
\* and the count at m: the next character, or the terminating NUL.
Advance(b, w, m) ==
    /\ i' = i + 1
    /\ IF ch # NUL /\ i < SIZE
       THEN buf' = b /\ UNCHANGED <<pc, ret>>
       ELSE buf' = [b EXCEPT ![w] = NUL] /\ Finish(m)

Comparing == pc = "scan" /\ (state = "WORDCMP" \/ (state = "WORDSTART" /\ ch # SP))

\* Index of the option's character that is compared with ch.
At == IF state = "WORDSTART" THEN 1 ELSE op

Blank ==
    /\ pc = "scan" /\ state = "WORDSTART" /\ ch = SP
    /\ Advance(buf, buffer, n)
    /\ UNCHANGED <<cmdline, p, state, n, op, buffer, calls>>

CompareEqual ==
    /\ Comparing /\ At <= Len(option) /\ ch = option[At]
    /\ state' = "WORDCMP" /\ op' = At + 1
    /\ Advance(buf, buffer, n)
    /\ UNCHANGED <<cmdline, p, n, buffer, calls>>

\* (Mutant of Value: the buffer goes on behind the value before.)
ValueAppended ==
    /\ Comparing /\ At > Len(option) /\ ch = EQ
    /\ state' = "BUFCOPY" /\ n' = 0 /\ op' = At
    /\ Advance(buf, buffer, 0)
    /\ UNCHANGED <<cmdline, p, buffer, calls>>

Value ==
    /\ Comparing /\ At > Len(option) /\ ch = EQ
    /\ state' = "BUFCOPY" /\ n' = 0 /\ buffer' = 1 /\ op' = At
    /\ Advance(buf, 1, 0)
    /\ UNCHANGED <<cmdline, p, calls>>

\* The option stands alone: it returns at once.
Boolean ==
    /\ Comparing /\ At > Len(option) /\ ch \in {SP, NUL}
    /\ Finish(-2)
    /\ UNCHANGED <<cmdline, p, scan, buf, calls>>

AfterSkip == IF ch = SP THEN "WORDSTART" ELSE "WORDSKIP"

\* Another word: the option is not there, or only its beginning is.
CompareDiffers ==
    /\ Comparing
    /\ IF At > Len(option) THEN ch \notin {EQ, SP, NUL} ELSE ch # option[At]
    /\ state' = AfterSkip /\ op' = At
    /\ Advance(buf, buffer, n)
    /\ UNCHANGED <<cmdline, p, n, buffer, calls>>

Skip ==
    /\ pc = "scan" /\ state = "WORDSKIP"
    /\ state' = AfterSkip
    /\ Advance(buf, buffer, n)
    /\ UNCHANGED <<cmdline, p, n, op, buffer, calls>>

\* "++n < buf_len"
Fits(m) == m < BUF_LEN

\* A character of the value, the NUL at the end of the line included.
Copy ==
    /\ pc = "scan" /\ state = "BUFCOPY" /\ ch # SP
    /\ n' = n + 1
    /\ buffer' = IF Fits(n') THEN buffer + 1 ELSE buffer
    /\ Advance(IF Fits(n') THEN [buf EXCEPT ![buffer] = ch] ELSE buf, buffer', n')
    /\ UNCHANGED <<cmdline, p, state, op, calls>>

CopyDone ==
    /\ pc = "scan" /\ state = "BUFCOPY" /\ ch = SP
    /\ state' = "WORDSTART"
    /\ Advance(buf, buffer, n)
    /\ UNCHANGED <<cmdline, p, n, op, buffer, calls>>

\* do_param: p->setup_func(param), unless the option is not there.
Call ==
    /\ pc = "found"
    /\ calls' = IF ret < 0 THEN calls ELSE [calls EXCEPT ![p] = buf]
    /\ p' = p + 1
    /\ pc' = "lookup"
    /\ UNCHANGED <<cmdline, scan, buf, ret>>

Next ==
    \/ Lookup \/ LookupDone
    \/ Blank \/ CompareEqual \/ Value \/ Boolean \/ CompareDiffers
    \/ Skip \/ Copy \/ CopyDone
    \/ Call

Spec == Init /\ [][Next]_vars

-----------------------------------------------------------------------------
(* What the command line says, without reading it character by character.  *)

At_(k) == IF k <= Len(cmdline) THEN cmdline[k] ELSE NUL

\* The places where a word begins that begins with the option o.
WordsFor(o) ==
    {s \in 1 .. Len(cmdline) :
        /\ s = 1 \/ cmdline[s - 1] = SP
        /\ s + Len(o) - 1 <= Len(cmdline)
        /\ SubSeq(cmdline, s, s + Len(o) - 1) = o}

\* A line that fills the array has no NUL, so its last word has no end.
Alone(o)  == {s \in WordsFor(o) : s + Len(o) <= SIZE /\ At_(s + Len(o)) \in {SP, NUL}}
Valued(o) == {s \in WordsFor(o) : At_(s + Len(o)) = EQ}

\* The value of the word at s: what follows "=" up to a blank or the end.
ValueAt(o, s) ==
    LET from == s + Len(o) + 1
        len == CHOOSE k \in 0 .. Len(cmdline) :
                   /\ \A j \in from .. from + k - 1 : At_(j) \notin {SP, NUL}
                   /\ At_(from + k) \in {SP, NUL}
    IN  SubSeq(cmdline, from, from + len - 1)

LastOf(S) == CHOOSE s \in S : \A t \in S : t <= s

\* The string in a buffer, up to its NUL.
IsString(b) == \E k \in DOMAIN b : b[k] = NUL
StringIn(b) == SubSeq(b, 1, (CHOOSE k \in DOMAIN b : b[k] = NUL /\ \A j \in 1 .. k - 1 : b[j] # NUL) - 1)

Truncated(v) == IF Len(v) < BUF_LEN THEN v ELSE SubSeq(v, 1, BUF_LEN - 1)

-----------------------------------------------------------------------------
(* Properties.                                                             *)

\* An option's function is called if and only if a word of the command line
\* is the option, alone or with a value; a word that only begins with it, or
\* with which it only begins, does not count.  "second 'op1' override the first
\* 'op1'": the function gets the last value, cut to the buffer and terminated,
\* whatever the lookups before it left.
LastValueWins ==
    pc = "done" => \A k \in DOMAIN Options :
        /\ calls[k] # NotCalled <=> Alone(Options[k]) \cup Valued(Options[k]) # {}
        /\ Valued(Options[k]) # {} /\ Alone(Options[k]) = {} =>
            /\ IsString(calls[k])
            /\ StringIn(calls[k]) =
                  Truncated(ValueAt(Options[k], LastOf(Valued(Options[k]))))
=============================================================================
