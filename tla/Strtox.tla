------------------------------- MODULE Strtox -------------------------------
(***************************************************************************)
(* strtoull and strtoll (uklib/strtox.c, uklib/io_buffer/strtox.c): a      *)
(* number read from a string through the input side of an io_buffer with   *)
(* a scratch buffer, one step for each read.  What the parser has read too *)
(* far it puts back, which fails silently at the start of the buffer.      *)
(*                                                                         *)
(* unsigned long long has W bits.                                          *)
(***************************************************************************)
EXTENDS Integers, Sequences

CONSTANTS
    W,
    BUF,        \* size of scratch_buf
    Strings,    \* what is read
    Bases       \* the bases asked for

ASSUME StrtoxAssumption ==
    /\ W \in Nat /\ W > 4
    /\ BUF \in Nat /\ BUF > 2       \* reads of one or two are buffered
    /\ Strings \subseteq Seq(STRING)
    /\ Bases \subseteq Nat

Figures == <<{"0"}, {"1"}, {"2"}, {"3"}, {"4"}, {"5"}, {"6"}, {"7"}, {"8"}, {"9"},
             {"a", "A"}, {"b", "B"}, {"c", "C"}, {"d", "D"}, {"e", "E"}, {"f", "F"}>>
digit_value(c) ==
    IF \E d \in DOMAIN Figures : c \in Figures[d]
    THEN (CHOOSE d \in DOMAIN Figures : c \in Figures[d]) - 1 ELSE -1

ULLONG_MAX == 2 ^ W - 1
ERANGE == -34

VARIABLES
    call,       \* the function, string and base of the call
    unread,     \* what the operation 'read' has not delivered
    fill,       \* the scratch buffer, as far as it was filled last
    inptr, in_, \* index of the next character in it, and how many there are
    rpc,        \* "sign", "base", "digits", "end"
    minus, base, result,
    rret        \* [ret, result]: what the caller gets

stream == <<unread, fill, inptr, in_>>
number == <<minus, base, result>>
readVars == <<call, stream, rpc, number, rret>>

StartRead(fn, s, b) ==
    /\ call = [fn |-> fn, str |-> s, base |-> b]
    /\ unread = s /\ fill = <<>> /\ inptr = 1 /\ in_ = 0
    /\ rpc = (IF fn = "strtoll" THEN "sign" ELSE "base")
    /\ minus = FALSE /\ base = b /\ result = 0
    /\ rret = [ret |-> 1, result |-> 0]

ReadInit == \E fn \in {"strtoull", "strtoll"}, s \in Strings, b \in Bases : StartRead(fn, s, b)

-----------------------------------------------------------------------------
(* __iob_read and __iob_ungetc, on io = [unread, fill, inptr, in_] *)

io == [unread |-> unread, fill |-> fill, inptr |-> inptr, in_ |-> in_]
IoIs(x) == unread' = x.unread /\ fill' = x.fill /\ inptr' = x.inptr /\ in_' = x.in_

Lesser(a, b) == IF a < b THEN a ELSE b

\* An empty buffer is filled anew from its start.
Filled(x) ==
    LET k == Lesser(BUF, Len(x.unread))
    IN  IF x.in_ # 0 \/ k = 0 THEN x
        ELSE [unread |-> SubSeq(x.unread, k + 1, Len(x.unread)),
              fill |-> SubSeq(x.unread, 1, k), inptr |-> 1, in_ |-> k]

\* One character, <<>> at the end of the string.
ReadOne(x) ==
    LET y == Filled(x)
    IN  IF y.in_ = 0 THEN [io |-> y, got |-> <<>>]
        ELSE [io |-> [y EXCEPT !.inptr = @ + 1, !.in_ = @ - 1], got |-> <<y.fill[y.inptr]>>]

\* Two, or as many as there are.
ReadTwo(x) ==
    LET one == ReadOne(x)
        two == ReadOne(one.io)
    IN  [io |-> two.io, got |-> one.got \o two.got]

\* (Mutant of Unget: the character is not counted as input.)
UngetForgets(x, c) == [x EXCEPT !.inptr = @ - 1]

\* _IO_UNGET_SLOP_FULL: at the start of the buffer nothing is put back.
Unget(x, c) ==
    IF x.inptr = 1 THEN x
    ELSE [x EXCEPT !.inptr = @ - 1, !.fill[x.inptr - 1] = c, !.in_ = @ + 1]

-----------------------------------------------------------------------------
Finish_(ret, res) == rpc' = "end" /\ rret' = [ret |-> ret, result |-> res]

\* strtoll on the empty string leaves its result as it was: any value.
NoSign ==
    /\ rpc = "sign" /\ ReadOne(io).got = <<>>
    /\ \E r \in {0, ULLONG_MAX} : Finish_(0, r)
    /\ IoIs(ReadOne(io).io)
    /\ UNCHANGED <<call, number>>

ReadSign ==
    /\ rpc = "sign"
    /\ LET r == ReadOne(io)
       IN  /\ r.got # <<>>
           /\ minus' = (r.got[1] = "-")
           /\ IoIs(IF r.got[1] \in {"-", "+"} THEN r.io ELSE Unget(r.io, r.got[1]))
    /\ rpc' = "base"
    /\ UNCHANGED <<call, base, result, rret>>

\* base 0: "0x" for 16, "0" for 8, else 10
DetectBase ==
    /\ rpc = "base" /\ call.base = 0
    /\ LET a == ReadOne(io)
           b == ReadOne(a.io)
       IN  \/ /\ a.got = <<>>
              /\ IoIs(a.io) /\ UNCHANGED base
           \/ /\ a.got # <<>> /\ a.got # <<"0">>
              /\ base' = 10 /\ IoIs(Unget(a.io, a.got[1]))
           \/ /\ a.got = <<"0">> /\ b.got \in {<<"x">>, <<"X">>}
              /\ base' = 16 /\ IoIs(b.io)
           \/ /\ a.got = <<"0">> /\ b.got \notin {<<"x">>, <<"X">>}
              /\ base' = 8
              /\ IoIs(IF b.got = <<>> THEN b.io ELSE Unget(b.io, b.got[1]))
    /\ rpc' = "digits"
    /\ UNCHANGED <<call, minus, result, rret>>

SkipPrefix ==
    /\ rpc = "base" /\ call.base # 0
    /\ LET r == ReadTwo(io)
       IN  IoIs(CASE base # 16 -> io
                  [] base = 16 /\ r.got \in {<<"0", "x">>, <<"0", "X">>} -> r.io
                  [] base = 16 /\ Len(r.got) = 1 -> Unget(r.io, r.got[1])
                  [] base = 16 /\ Len(r.got) = 0 -> r.io
                  [] OTHER -> Unget(Unget(r.io, r.got[2]), r.got[1]))
    /\ rpc' = "digits"
    /\ UNCHANGED <<call, number, rret>>

\* Only a result with one of its four highest bits set is looked at.
Overflows(d) == result >= 2 ^ (W - 4) /\ result > (ULLONG_MAX - d) \div base

\* iob_strtoll: the negated value, or the value, must fit.
Returned(u) ==
    LET neg == (ULLONG_MAX + 1 - u) % (ULLONG_MAX + 1)
        v == IF minus THEN neg ELSE u
        refused == IF minus THEN neg # 0 /\ neg < 2 ^ (W - 1) ELSE u >= 2 ^ (W - 1)
    IN  IF call.fn = "strtoll" /\ refused THEN Finish_(ERANGE, 0) ELSE Finish_(0, v)

Digit ==
    /\ rpc = "digits"
    /\ LET r == ReadOne(io)
           d == IF r.got = <<>> THEN -1 ELSE digit_value(r.got[1])
       IN  \/ /\ d >= 0 /\ d < base /\ ~Overflows(d)
              /\ result' = (result * base + d) % 2 ^ W
              /\ IoIs(r.io)
              /\ UNCHANGED <<rpc, rret>>
           \/ /\ d >= 0 /\ d < base /\ Overflows(d)
              /\ IoIs(Unget(r.io, r.got[1])) /\ Finish_(ERANGE, 0)
              /\ UNCHANGED result
           \/ /\ r.got # <<>> /\ (d < 0 \/ d >= base)
              /\ IoIs(Unget(r.io, r.got[1])) /\ Returned(result)
              /\ UNCHANGED result
           \/ /\ r.got = <<>>
              /\ IoIs(r.io) /\ Returned(result)
              /\ UNCHANGED result
    /\ UNCHANGED <<call, minus, base>>

ReadNext == NoSign \/ ReadSign \/ DetectBase \/ SkipPrefix \/ Digit

-----------------------------------------------------------------------------
(* What a number in a string is, without reading it character by character *)

HasSign(s) == call.fn = "strtoll" /\ s # <<>> /\ s[1] \in {"-", "+"}
Unsigned(s) == IF HasSign(s) THEN Tail(s) ELSE s
HasPrefix(s, b) == b \in {0, 16} /\ Len(s) >= 2 /\ s[1] = "0" /\ s[2] \in {"x", "X"}
BaseIs(s, b) ==
    IF b # 0 THEN b ELSE IF HasPrefix(s, 0) THEN 16 ELSE IF s # <<>> /\ s[1] = "0" THEN 8 ELSE 10
Body(s, b) == IF HasPrefix(s, b) THEN SubSeq(s, 3, Len(s)) ELSE s

\* The value of the first k characters, if they are all figures.
Value_(s, b, k) ==
    LET v[j \in 0 .. k] == IF j = 0 THEN 0 ELSE v[j - 1] * b + digit_value(s[j])
    IN  v[k]
Count(s, b) ==
    CHOOSE k \in 0 .. Len(s) :
        /\ \A j \in 1 .. k : digit_value(s[j]) \in 0 .. b - 1
        /\ k = Len(s) \/ digit_value(s[k + 1]) \notin 0 .. b - 1

Meant ==
    LET s == Unsigned(call.str)
        b == BaseIs(s, call.base)
        body == Body(s, call.base)
        v == Value_(body, b, Count(body, b))
    IN  IF HasSign(call.str) /\ call.str[1] = "-" THEN -v ELSE v

InRange == IF call.fn = "strtoll" THEN Meant \in -(2 ^ (W - 1)) .. 2 ^ (W - 1) - 1
           ELSE Meant \in 0 .. ULLONG_MAX

\* What is left when the reader stops after k characters of the body.
LeftAfter == Body(Unsigned(call.str), call.base)
Remaining == SubSeq(fill, inptr, inptr + in_ - 1) \o unread

\* Strings, with or without a sign, a prefix or figures, are read as the
\* number they mean (uklib/io_buffer/strtox.c): all figures up to the first
\* character that is none, -ERANGE exactly if the number does not fit, and
\* afterwards the stream stands at that character, whatever had to be put
\* back and however often the buffer was filled.
ParseRight ==
    rpc = "end" /\ ~(call.fn = "strtoll" /\ call.str = <<>>) =>
        /\ rret.ret = (IF InRange THEN 0 ELSE ERANGE)
        /\ InRange =>
              LET s == Unsigned(call.str)
                  b == BaseIs(s, call.base)
              IN  /\ rret.result = Meant % 2 ^ W
                  /\ Remaining = SubSeq(LeftAfter, Count(LeftAfter, b) + 1, Len(LeftAfter))
=============================================================================
