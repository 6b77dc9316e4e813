-------------------------------- MODULE Gzip --------------------------------
(***************************************************************************)
(* What a gzip file is, from the side of the one who writes it, after the  *)
(* two documents deflate.c refers to (RFC 1951 and RFC 1952): the          *)
(* reference that Deflate is checked against.                              *)
(*                                                                         *)
(* A block is stored, [kind, data], or compressed, [kind, ops] with        *)
(* literals <<byte>> and pairs <<length, distance>>; a dynamic one also    *)
(* has its code lengths [ll, d, rle], sequences that begin with symbol 0;  *)
(* rle: whether lengths other than 0 are written with repetitions, too.    *)
(***************************************************************************)
EXTENDS Integers, Sequences, FiniteSets, Bitwise

\* Numbers have their low bit first, codes their high bit.
NumberBits(v, n) == [k \in 1 .. n |-> (v \div 2 ^ (k - 1)) % 2]
CodeBits(v, n) == [k \in 1 .. n |-> (v \div 2 ^ (n - k)) % 2]

\* The code of a symbol: codes of one length are consecutive, the first one
\* follows from the codes that are shorter.
Code(lens, sym) ==
    LET Having(b) == {s \in DOMAIN lens : lens[s] = b}
        first[b \in Nat] == IF b <= 1 THEN 0 ELSE 2 * (first[b - 1] + Cardinality(Having(b - 1)))
        n == lens[sym + 1]
    IN  CodeBits(first[n] + Cardinality({s \in Having(n) : s < sym + 1}), n)

FixedLlLengths == [k \in 1 .. 288 |-> IF k <= 144 THEN 8 ELSE IF k <= 256 THEN 9 ELSE IF k <= 280 THEN 7 ELSE 8]
FixedDLengths == [k \in 1 .. 32 |-> 5]

\* Symbols in groups of four (lengths) or two (distances), each group with one
\* bit more than the one before; 258 is a symbol of its own.
LengthClass(i) ==
    IF i < 8 THEN [base |-> 3 + i, bits |-> 0]
    ELSE IF i = 28 THEN [base |-> 258, bits |-> 0]
    ELSE [base |-> 3 + (4 + (i % 4)) * 2 ^ ((i \div 4) - 1), bits |-> (i \div 4) - 1]
DistanceClass(i) ==
    IF i < 4 THEN [base |-> 1 + i, bits |-> 0]
    ELSE [base |-> 1 + (2 + (i % 2)) * 2 ^ ((i \div 2) - 1), bits |-> (i \div 2) - 1]

LengthIndex(n) == CHOOSE i \in 0 .. 28 : LengthClass(i).base <= n /\ (i = 28 \/ LengthClass(i + 1).base > n)
DistanceIndex(n) == CHOOSE i \in 0 .. 29 : DistanceClass(i).base <= n /\ (i = 29 \/ DistanceClass(i + 1).base > n)

OpBits(op, lc, dc) ==
    IF Len(op) = 1 THEN Code(lc, op[1])
    ELSE LET l == LengthIndex(op[1])
             e == DistanceIndex(op[2])
         IN  Code(lc, 257 + l) \o NumberBits(op[1] - LengthClass(l).base, LengthClass(l).bits)
               \o Code(dc, e) \o NumberBits(op[2] - DistanceClass(e).base, DistanceClass(e).bits)

RECURSIVE OpsBits(_, _, _)
OpsBits(ops, lc, dc) ==
    IF ops = <<>> THEN Code(lc, 256) ELSE OpBits(Head(ops), lc, dc) \o OpsBits(Tail(ops), lc, dc)

-----------------------------------------------------------------------------
(* The code lengths of a dynamic block *)

ClLengths == [k \in 1 .. 19 |-> IF k <= 13 THEN 4 ELSE 5]
ClOrder == <<16, 17, 18, 0, 8, 7, 9, 6, 10, 5, 11, 4, 12, 3, 13, 2, 14, 1, 15>>

Run(lens) == CHOOSE n \in 1 .. Len(lens) :
                 /\ \A k \in 1 .. n : lens[k] = lens[1]
                 /\ n = Len(lens) \/ lens[n + 1] # lens[1]
AtMost(n, m) == IF n < m THEN n ELSE m

RECURSIVE LengthsBits(_, _, _)
LengthsBits(lens, before, rle) ==
    LET run == Run(lens)
        Use(sym, n, base, bits) ==
            Code(ClLengths, sym) \o NumberBits(n - base, bits)
              \o LengthsBits(SubSeq(lens, n + 1, Len(lens)), lens[1], rle)
    IN  IF lens = <<>> THEN <<>>
        ELSE IF rle /\ lens[1] = before /\ run >= 3 /\ before # 0 THEN Use(16, AtMost(run, 6), 3, 2)
        ELSE IF lens[1] = 0 /\ run >= 11 THEN Use(18, AtMost(run, 138), 11, 7)
        ELSE IF lens[1] = 0 /\ run >= 3 THEN Use(17, AtMost(run, 10), 3, 3)
        ELSE Use(lens[1], 1, 1, 0)

RECURSIVE ClBits(_)
ClBits(k) == IF k = 0 THEN <<>> ELSE ClBits(k - 1) \o NumberBits(ClLengths[ClOrder[k] + 1], 3)

TreeBits(codes) ==
    NumberBits(Len(codes.ll) - 257, 5) \o NumberBits(Len(codes.d) - 1, 5) \o NumberBits(15, 4)
      \o ClBits(19) \o LengthsBits(codes.ll \o codes.d, 0, codes.rle)

-----------------------------------------------------------------------------
(* Blocks, files and their data *)

Aligned(bits) == bits \o [k \in 1 .. (8 - (Len(bits) % 8)) % 8 |-> 0]

RECURSIVE DataBits(_)
DataBits(data) == IF data = <<>> THEN <<>> ELSE NumberBits(Head(data), 8) \o DataBits(Tail(data))

RECURSIVE BlocksBits(_, _)
BlocksBits(before, blocks) ==
    LET b == Head(blocks)
        f == IF Len(blocks) = 1 THEN 1 ELSE 0
        n == Len(b.data)
    IN  IF blocks = <<>> THEN before
        ELSE BlocksBits(
               CASE b.kind = "stored" ->
                        Aligned(before \o <<f, 0, 0>>) \o NumberBits(n, 16) \o NumberBits(65535 - n, 16)
                          \o DataBits(b.data)
                 [] b.kind = "fixed" ->
                        before \o <<f, 1, 0>> \o OpsBits(b.ops, FixedLlLengths, FixedDLengths)
                 [] b.kind = "dynamic" ->
                        before \o <<f, 0, 1>> \o TreeBits(b.codes) \o OpsBits(b.ops, b.codes.ll, b.codes.d),
               Tail(blocks))

BytesOf(bits) ==
    LET a == Aligned(bits)
    IN  [k \in 1 .. Len(a) \div 8 |->
            LET v[j \in 0 .. 8] == IF j = 0 THEN 0 ELSE v[j - 1] + a[8 * (k - 1) + j] * 2 ^ (j - 1)
            IN  v[8]]

\* What ops give after 'data': a pair repeats what lies 'distance' back.
RECURSIVE Expand(_, _)
Expand(data, ops) ==
    LET op == Head(ops)
        n == Len(data)
    IN  IF ops = <<>> THEN data
        ELSE Expand(IF Len(op) = 1 THEN data \o op
                    ELSE data \o [k \in 1 .. op[1] |-> data[n - op[2] + 1 + ((k - 1) % op[2])]],
                    Tail(ops))

RECURSIVE BlocksData(_, _)
BlocksData(data, blocks) ==
    IF blocks = <<>> THEN data
    ELSE BlocksData(IF Head(blocks).kind = "stored" THEN data \o Head(blocks).data
                    ELSE Expand(data, Head(blocks).ops), Tail(blocks))

\* The checksum bit by bit, as halves of 16 bits.
Shift1(c) ==
    LET s == <<c[1] \div 2, (c[2] \div 2) + (c[1] % 2) * \h8000>>
    IN  IF c[2] % 2 = 1 THEN <<s[1] ^^ \hEDB8, s[2] ^^ \h8320>> ELSE s
Words == (0 .. 65535) \X (0 .. 65535)

\* Bytes a to b, in halves to keep the recursion flat.
Crc(data) ==
    LET bit[k \in 0 .. 8, c \in Words] == IF k = 0 THEN c ELSE bit[k - 1, Shift1(c)]
        from[a \in Nat, b \in Nat, c \in Words] ==
            IF a > b THEN c
            ELSE IF a = b THEN bit[8, <<c[1], c[2] ^^ data[a]>>]
            ELSE from[((a + b) \div 2) + 1, b, from[a, (a + b) \div 2, c]]
        crc == from[1, Len(data), <<\hFFFF, \hFFFF>>]
    IN  <<crc[1] ^^ \hFFFF, crc[2] ^^ \hFFFF>>

Bytes2(h) == <<h % 256, h \div 256>>
Bytes4(w) == Bytes2(w[2]) \o Bytes2(w[1])

\* The parts of a header: flags, and what they announce.
HeaderBytes(parts) ==
    LET flag == (IF "crc" \in parts THEN 2 ELSE 0) + (IF "extra" \in parts THEN 4 ELSE 0)
                  + (IF "name" \in parts THEN 8 ELSE 0) + (IF "comment" \in parts THEN 16 ELSE 0)
        fields == (IF "extra" \in parts THEN <<2, 0, 7, 0>> ELSE <<>>)
                    \o (IF "name" \in parts THEN <<65, 0>> ELSE <<>>)
                    \o (IF "comment" \in parts THEN <<66, 67, 0>> ELSE <<>>)
        all == <<\h1F, \h8B, 8, flag, 0, 0, 0, 0, 0, 3>> \o fields
    IN  all \o (IF "crc" \in parts THEN Bytes2(Crc(all)[2]) ELSE <<>>)

GzipFile(parts, blocks) ==
    LET data == BlocksData(<<>>, blocks)
    IN  [bytes |-> HeaderBytes(parts) \o BytesOf(BlocksBits(<<>>, blocks))
                     \o Bytes4(Crc(data)) \o Bytes4(<<0, Len(data)>>),
         data |-> data, good |-> TRUE]
=============================================================================
