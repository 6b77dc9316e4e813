-------------------------------- MODULE Text --------------------------------
(***************************************************************************)
(* The kernel's text: the command line (Params), printing (Format) and     *)
(* reading numbers (Strtox).  A behaviour is one of the three, or a number *)
(* printed and read again.                                                 *)
(***************************************************************************)
EXTENDS Params, Format, Strtox

VARIABLE which   \* "params", "print", "read" or "readback"

textVars == <<which, vars, printVars, readVars>>

AnyJob == CHOOSE j \in Jobs : TRUE
ParamsOff == cmdline = <<>> /\ Init
PrintOff == StartPrint(AnyJob)
ReadOff == StartRead("strtoull", <<>>, 0)

TextInit ==
    \/ which = "params" /\ Init /\ PrintOff /\ ReadOff
    \/ which = "print" /\ ParamsOff /\ PrintInit /\ ReadOff
    \/ which = "read" /\ ParamsOff /\ PrintOff /\ ReadInit

\* A number in a field that begins with it, and the bases it can be read in.
Readable(it) ==
    /\ Supported(it) /\ it.conv \in {"d", "i", "u", "o", "x", "X"}
    /\ IsSigned(it) \/ ~With(it, "+")
    /\ ~With(it, " ") /\ Field(it)[1] # " "
ReadBases(it) == {BaseOf(it.conv)} \cup (IF BaseOf(it.conv) # 10 /\ With(it, "#") THEN {0} ELSE {})

ReadBack ==
    /\ which = "print" /\ fstate = "end" /\ fret = 0
    /\ Readable(job.item)
    /\ \E b \in ReadBases(job.item) :
         LET fn == IF IsSigned(job.item) THEN "strtoll" ELSE "strtoull"
         IN  /\ call' = [fn |-> fn, str |-> out, base |-> b]
             /\ base' = b
             /\ rpc' = (IF fn = "strtoll" THEN "sign" ELSE "base")
    /\ unread' = out
    /\ which' = "readback"
    /\ UNCHANGED <<vars, printVars, fill, inptr, in_, minus, result, rret>>

TextNext ==
    \/ which = "params" /\ Next /\ UNCHANGED <<which, printVars, readVars>>
    \/ which = "print" /\ PrintNext /\ UNCHANGED <<which, vars, readVars>>
    \/ which \in {"read", "readback"} /\ ReadNext /\ UNCHANGED <<which, vars, printVars>>
    \/ ReadBack

TextSpec == TextInit /\ [][TextNext]_textVars

\* A number that was printed is read as itself (vsnprintf.c and strtox.c): in
\* the base of its conversion, and in base 0 if its prefix was printed, with
\* the least and the greatest numbers of every width.
ReadsBack ==
    which = "readback" /\ rpc = "end" =>
        rret = [ret |-> 0, result |-> Amount(job.item) % 2 ^ W]
=============================================================================
