------------------------------- MODULE Format ------------------------------
(***************************************************************************)
(* iob_vsnprintf (uklib/io_buffer/vsnprintf.c): the parser of a format,    *)
(* one step for each character, and the conversions.                       *)
(*                                                                         *)
(* An argument is [v, s]: the bits of a number or pointer, and the string  *)
(* that a pointer other than NULL points to.  Flags are the bit mask of    *)
(* the code, because "%p" passes them where the base belongs.  What is     *)
(* written goes to 'out'; the buffer behind it is in Console.              *)
(***************************************************************************)
EXTENDS Integers, Sequences

CONSTANTS
    Bits,      \* width of each rank, from char to long long
    T_STR,     \* size of t_str
    Jobs       \* what is printed: records of a format and its arguments

RANK_CHAR == -2
RANK_INT == 0
RANK_LLONG == 2
Ranks == RANK_CHAR .. RANK_LLONG

ASSUME PrintAssumption ==
    /\ Bits \in [Ranks -> Nat \ {0}]
    /\ \A r \in RANK_CHAR .. RANK_LLONG - 1 : Bits[r] <= Bits[r + 1]
    /\ T_STR \in Nat
    /\ \A j \in Jobs : j.format \in Seq(STRING)

FL_ZERO == 1
FL_MINUS == 2
FL_PLUS == 4
FL_SPACE == 8
FL_HASH == 16
FL_SIGNED == 32
FL_UPPER == 64

Has(f, bit) == (f \div bit) % 2 = 1
Or(f, bit) == IF Has(f, bit) THEN f ELSE f + bit
FlagOf == [c \in {"-", "+", " ", "#", "0"} |->
              CASE c = "-" -> FL_MINUS [] c = "+" -> FL_PLUS [] c = " " -> FL_SPACE
                [] c = "#" -> FL_HASH [] c = "0" -> FL_ZERO]

lcdigits == <<"0", "1", "2", "3", "4", "5", "6", "7", "8", "9", "a", "b", "c", "d", "e", "f">>
ucdigits == <<"0", "1", "2", "3", "4", "5", "6", "7", "8", "9", "A", "B", "C", "D", "E", "F">>
isdigit(c) == \E d \in 1 .. 10 : lcdigits[d] = c
Decimal(c) == (CHOOSE d \in 1 .. 10 : lcdigits[d] = c) - 1

ULL == 2 ^ Bits[RANK_LLONG]
AsSigned(x, b) == LET y == x % 2 ^ b IN IF y >= 2 ^ (b - 1) THEN y - 2 ^ b ELSE y
Larger(a, b) == IF a > b THEN a ELSE b

VARIABLES
    job,        \* the call
    pos,        \* 'p', from 1
    fstate,     \* "NORMAL", "FLAGS", "WIDTH", "PRECISION", "MODIFIERS"; "end", "fault"
    ap,         \* the arguments not taken yet
    flags, width, precision, rank,
    out,        \* the characters written
    fret        \* the value returned

conversion == <<flags, width, precision, rank>>
printVars == <<job, pos, fstate, ap, conversion, out, fret>>

NULCH == "NUL"
CharAt(k) == IF k <= Len(job.format) THEN job.format[k] ELSE NULCH
fch == CharAt(pos)

StartPrint(j) ==
    /\ job = j
    /\ pos = 1 /\ fstate = "NORMAL" /\ ap = j.args
    /\ flags = 0 /\ width = 0 /\ precision = -1 /\ rank = RANK_INT
    /\ out = <<>> /\ fret = 0

PrintInit == \E j \in Jobs : StartPrint(j)

-----------------------------------------------------------------------------
(* The conversions *)

put_padding(condition, c, w, nchar) ==
    IF condition /\ w > nchar THEN [k \in 1 .. w - nchar |-> c] ELSE <<>>

\* The divisions until nothing is left; at least one.
NDigits(v, base) == CHOOSE k \in 1 .. Bits[RANK_LLONG] : v < base ^ k /\ (k = 1 \/ v >= base ^ (k - 1))

Minus(value, f) == Has(f, FL_SIGNED) /\ value >= ULL \div 2
Magnitude(value, f) == IF Minus(value, f) THEN ULL - value ELSE value
Ndigits(value, f, base, prec) == Larger(NDigits(Magnitude(value, f), base), prec)

Nchar(value, f, base, prec) ==
    Ndigits(value, f, base, prec)
      + (IF Minus(value, f) \/ Has(f, FL_PLUS) \/ Has(f, FL_SPACE) THEN 1 ELSE 0)
      + (IF ~Has(f, FL_HASH) THEN 0 ELSE IF base = 16 THEN 2 ELSE IF base = 8 THEN 1 ELSE 0)

Sign(value, f) ==
    IF Minus(value, f) THEN <<"-">>
    ELSE IF Has(f, FL_PLUS) THEN <<"+">>
    ELSE IF Has(f, FL_SPACE) THEN <<" ">> ELSE <<>>

Preceding(f, base) ==
    IF Has(f, FL_HASH) /\ base = 16 THEN <<"0", IF Has(f, FL_UPPER) THEN "X" ELSE "x">>
    ELSE IF Has(f, FL_HASH) /\ base = 8 THEN <<"0">> ELSE <<>>

\* The digits of v in nd places, as values.
Places(v, base, nd) == [k \in 1 .. nd |-> (v \div base ^ (nd - k)) % base]

\* t_str is filled to ndigits, and digits() has sixteen characters and a NUL.
InBounds(value, f, base, prec) ==
    LET nd == Ndigits(value, f, base, prec)
    IN  nd <= T_STR /\ \A k \in 1 .. nd : Places(Magnitude(value, f), base, nd)[k] <= 16

digits(f, d) == IF d = 16 THEN NULCH ELSE (IF Has(f, FL_UPPER) THEN ucdigits ELSE lcdigits)[d + 1]

format_int(value, f, base, w, prec) ==
    LET nd == Ndigits(value, f, base, prec)
        nchar == Nchar(value, f, base, prec)
        ds == Places(Magnitude(value, f), base, nd)
    IN  put_padding(~Has(f, FL_MINUS) /\ ~Has(f, FL_ZERO), " ", w, nchar)
          \o Sign(value, f) \o Preceding(f, base)
          \o put_padding(~Has(f, FL_MINUS) /\ Has(f, FL_ZERO), "0", w, nchar)
          \o [k \in 1 .. nd |-> digits(f, ds[k])]
          \o put_padding(Has(f, FL_MINUS), " ", w, nchar)

\* (Mutant of ArgValue: no number is sign-extended.)
ArgValueZero(a, f, r) == a.v % 2 ^ Bits[r]

\* ap_format_int: the argument as unsigned long long.  A char or short is cast
\* to its unsigned type, signed or not.
ArgValue(a, f, r) ==
    IF Has(f, FL_SIGNED) /\ r >= RANK_INT THEN AsSigned(a.v, Bits[r]) % ULL
    ELSE a.v % 2 ^ Bits[r]

format_str(str, f, w, prec) ==
    LET count == IF prec # -1 /\ Len(str) > prec THEN prec ELSE Len(str)
    IN  put_padding(~Has(f, FL_MINUS), " ", w, count)
          \o SubSeq(str, 1, count)
          \o put_padding(Has(f, FL_MINUS), " ", w, count)

NullText == <<"(", "n", "u", "l", "l", ")">>

-----------------------------------------------------------------------------
(* The parser *)

Step(s) == fstate' = s /\ pos' = pos + 1
Put(s) == out' = out \o s

\* va_arg(ap, int)
IntArg == AsSigned(Head(ap).v, Bits[RANK_INT])

Literal ==
    /\ fstate = "NORMAL" /\ fch \notin {"%", NULCH}
    /\ Step("NORMAL") /\ Put(<<fch>>)
    /\ UNCHANGED <<job, ap, conversion, fret>>

Percent ==
    /\ fstate = "NORMAL" /\ fch = "%" /\ CharAt(pos + 1) = "%"
    /\ fstate' = "NORMAL" /\ pos' = pos + 2 /\ Put(<<"%">>)
    /\ UNCHANGED <<job, ap, conversion, fret>>

\* (Mutant of Directive: what an earlier conversion set is kept.)
DirectiveKeeps ==
    /\ fstate = "NORMAL" /\ fch = "%" /\ CharAt(pos + 1) # "%"
    /\ Step("FLAGS")
    /\ UNCHANGED <<job, ap, conversion, out, fret>>

Directive ==
    /\ fstate = "NORMAL" /\ fch = "%" /\ CharAt(pos + 1) # "%"
    /\ Step("FLAGS")
    /\ flags' = 0 /\ rank' = RANK_INT /\ width' = 0 /\ precision' = -1
    /\ UNCHANGED <<job, ap, out, fret>>

Flag ==
    /\ fstate = "FLAGS" /\ fch \in DOMAIN FlagOf
    /\ flags' = Or(flags, FlagOf[fch])
    /\ Step("FLAGS")
    /\ UNCHANGED <<job, ap, width, precision, rank, out, fret>>

\* A character other than a flag is read as one of the width at once, and one
\* that does not belong to a width or a precision as a modifier.
InWidth == fstate = "WIDTH" \/ (fstate = "FLAGS" /\ fch \notin DOMAIN FlagOf)
StarWidth == fch = "*" /\ width = 0
StarPrecision == fch = "*" /\ precision = 0
InModifiers ==
    /\ fch # NULCH
    /\ \/ fstate = "MODIFIERS"
       \/ InWidth /\ ~isdigit(fch) /\ ~StarWidth /\ fch # "."
       \/ fstate = "PRECISION" /\ ~isdigit(fch) /\ ~StarPrecision

WidthDigit ==
    /\ InWidth /\ isdigit(fch)
    /\ width' = width * 10 + Decimal(fch)
    /\ Step("WIDTH")
    /\ UNCHANGED <<job, ap, flags, precision, rank, out, fret>>

WidthStar ==
    /\ InWidth /\ StarWidth
    /\ width' = (IF IntArg < 0 THEN -IntArg ELSE IntArg)
    /\ flags' = (IF IntArg < 0 THEN Or(flags, FL_MINUS) ELSE flags)
    /\ ap' = Tail(ap)
    /\ Step(IF CharAt(pos + 1) # "." THEN "MODIFIERS" ELSE "WIDTH")
    /\ UNCHANGED <<job, precision, rank, out, fret>>

Point ==
    /\ InWidth /\ fch = "."
    /\ precision' = 0
    /\ Step("PRECISION")
    /\ UNCHANGED <<job, ap, flags, width, rank, out, fret>>

PrecisionDigit ==
    /\ fstate = "PRECISION" /\ isdigit(fch)
    /\ precision' = precision * 10 + Decimal(fch)
    /\ Step("PRECISION")
    /\ UNCHANGED <<job, ap, flags, width, rank, out, fret>>

PrecisionStar ==
    /\ fstate = "PRECISION" /\ StarPrecision
    /\ precision' = (IF IntArg < 0 THEN -1 ELSE IntArg)
    /\ ap' = Tail(ap)
    /\ Step("MODIFIERS")
    /\ UNCHANGED <<job, flags, width, rank, out, fret>>

Shorter == fch = "h" /\ rank > RANK_CHAR
Longer == fch = "l" /\ rank < RANK_LLONG

Modifier ==
    /\ InModifiers /\ (Shorter \/ Longer)
    /\ rank' = (IF Shorter THEN rank - 1 ELSE rank + 1)
    /\ Step("MODIFIERS")
    /\ UNCHANGED <<job, ap, flags, width, precision, out, fret>>

Converting(cs) == InModifiers /\ ~Shorter /\ ~Longer /\ fch \in cs

\* The rest of a conversion: its text, or a read or write out of bounds.
Converted(ok, f, text) ==
    /\ flags' = f /\ ap' = Tail(ap)
    /\ IF ok THEN Step("NORMAL") /\ Put(text)
       ELSE fstate' = "fault" /\ UNCHANGED <<pos, out>>
    /\ UNCHANGED <<job, width, precision, rank, fret>>

BaseOf(c) == CASE c \in {"d", "i", "u"} -> 10 [] c = "o" -> 8 [] OTHER -> 16

Integer ==
    /\ Converting({"d", "i", "u", "o", "x", "X"})
    /\ LET f == CASE fch \in {"d", "i"} -> Or(flags, FL_SIGNED)
                  [] fch = "X" -> Or(flags, FL_UPPER)
                  [] OTHER -> flags
           v == ArgValue(Head(ap), f, rank)
           base == BaseOf(fch)
       IN  Converted(InBounds(v, f, base, precision), f, format_int(v, f, base, width, precision))

\* The call gives 16 for the flags, which is FL_HASH, and the flags for the base.
Pointer ==
    /\ Converting({"p", "P"})
    /\ LET f == Or(IF fch = "P" THEN Or(flags, FL_UPPER) ELSE flags, FL_HASH)
           v == Head(ap).v
       IN  Converted(InBounds(v, 16, f, 2), f, format_int(v, 16, f, width, 2))

Character ==
    /\ Converting({"c"})
    /\ Converted(TRUE, flags, format_str(<<Head(ap).s[1]>>, flags, width, precision))

String ==
    /\ Converting({"s"})
    /\ LET a == Head(ap)
       IN  Converted(TRUE, flags, format_str(IF a.v # 0 THEN a.s ELSE NullText, flags, width, precision))

Unknown ==
    /\ InModifiers /\ ~Shorter /\ ~Longer
    /\ fch \notin {"d", "i", "u", "o", "x", "X", "p", "P", "c", "s"}
    /\ fstate' = "end" /\ fret' = -1
    /\ UNCHANGED <<job, pos, ap, conversion, out>>

End ==
    /\ fstate \notin {"end", "fault"} /\ fch = NULCH
    /\ fstate' = "end" /\ fret' = 0
    /\ UNCHANGED <<job, pos, ap, conversion, out>>

PrintNext ==
    \/ Literal \/ Percent \/ Directive \/ Flag \/ WidthDigit \/ WidthStar \/ Point
    \/ PrecisionDigit \/ PrecisionStar \/ Modifier
    \/ Integer \/ Pointer \/ Character \/ String \/ Unknown \/ End

-----------------------------------------------------------------------------
(* What is to be printed, and how it may be written as a format *)

\* The value in a b, by its digits from the left.
Written(k, b, dig) ==
    LET t[j \in Nat] == IF j < b THEN <<dig[j + 1]>>
                    ELSE Append(t[j \div b], dig[(j % b) + 1])
    IN  t[k]

\* An item has a sequence of flag characters, the way its width and precision
\* are given ("none", "digits" or "star") and their values, a rank, a
\* conversion and an argument.
Given(how, k) == CASE how = "none" -> <<>> [] how = "digits" -> Written(k, 10, lcdigits) [] how = "star" -> <<"*">>
RankText == [r \in Ranks |-> <<<<"h", "h">>, <<"h">>, <<>>, <<"l">>, <<"l", "l">>>>[r + 3]]

\* The item, a percent sign and a plain "%u".
Spell(it) ==
    <<"%">> \o it.flags \o Given(it.w.how, it.w.n)
      \o (IF it.p.how = "none" THEN <<>> ELSE <<".">> \o Given(it.p.how, it.p.n))
      \o RankText[it.rank] \o <<it.conv, "%", "%", "%", "u">>

Number_(k) == [v |-> k % ULL, s |-> <<>>]
JobOf(it) ==
    [item |-> it, format |-> Spell(it),
     args |-> (IF it.w.how = "star" THEN <<Number_(it.w.n)>> ELSE <<>>)
                \o (IF it.p.how = "star" THEN <<Number_(it.p.n)>> ELSE <<>>)
                \o <<it.arg, Number_(7)>>]

IsSigned(it) == it.conv \in {"d", "i"}
Amount(it) == IF IsSigned(it) THEN AsSigned(it.arg.v, Bits[it.rank]) ELSE it.arg.v % 2 ^ Bits[it.rank]
With(it, c) == \E k \in DOMAIN it.flags : it.flags[k] = c

\* Not supported: a negative char or short, "%P", and "%p" with flags.
Supported(it) ==
    /\ ~(IsSigned(it) /\ it.rank < RANK_INT /\ Amount(it) < 0)
    /\ it.conv # "P" /\ (it.conv = "p" => it.flags = <<>> /\ ~(it.w.how = "star" /\ it.w.n < 0))

Repeat(c, k) == [j \in 1 .. k |-> c]
Abs_(k) == IF k < 0 THEN -k ELSE k
GivenPrecision(it) == IF it.p.how = "none" \/ it.p.n < 0 THEN -1 ELSE it.p.n

\* The parts of a number: what precedes its digits, and the digits.
Leading(it) ==
    (IF IsSigned(it) /\ Amount(it) < 0 THEN <<"-">>
     ELSE IF With(it, "+") /\ it.conv # "p" THEN <<"+">>
     ELSE IF With(it, " ") /\ it.conv # "p" THEN <<" ">> ELSE <<>>)
      \o (CASE it.conv = "p" -> <<"0", "x">>
            [] it.conv \in {"x", "X"} /\ With(it, "#") -> <<"0", it.conv>>
            [] it.conv = "o" /\ With(it, "#") -> <<"0">>
            [] OTHER -> <<>>)
Figures_(it) ==
    LET v == IF it.conv = "p" THEN it.arg.v ELSE Abs_(Amount(it))
        t == Written(v, BaseOf(it.conv), IF it.conv = "X" THEN ucdigits ELSE lcdigits)
        least == IF it.conv = "p" THEN 2 ELSE GivenPrecision(it)
    IN  Repeat("0", Larger(0, least - Len(t))) \o t

Content(it) ==
    LET s == IF it.arg.v = 0 /\ it.conv = "s" THEN NullText ELSE it.arg.s
        k == GivenPrecision(it)
    IN  IF it.conv \in {"c", "s"} THEN SubSeq(s, 1, IF k = -1 \/ k > Len(s) THEN Len(s) ELSE k)
        ELSE Leading(it) \o Figures_(it)

\* The field: its content, filled up to the width on the side asked for.
Field(it) ==
    LET more == Larger(0, Abs_(it.w.n) - Len(Content(it)))
        left == With(it, "-") \/ it.w.n < 0
    IN  CASE left -> Content(it) \o Repeat(" ", more)
          [] ~left /\ With(it, "0") /\ it.conv \notin {"c", "s", "p"} ->
                Leading(it) \o Repeat("0", more) \o Figures_(it)
          [] OTHER -> Repeat(" ", more) \o Content(it)

\* A directive prints the field it describes, however its width and precision
\* are given (uklib/io_buffer/vsnprintf.c): the digits of the very number,
\* as wide as asked for and no wider than needed, padding on the right side
\* of sign and prefix; and nothing of it is left in the parser for what
\* follows.  An unknown conversion ends the printing with -1.
FormatRight ==
    /\ fstate = "fault" => ~Supported(job.item)
    /\ fstate = "end" /\ Supported(job.item) =>
          IF job.item.conv = "?" THEN fret = -1 /\ out = <<>>
          ELSE fret = 0 /\ out = Field(job.item) \o <<"%", "7">>
=============================================================================
