------------------------------ MODULE Deflate ------------------------------
(***************************************************************************)
(* The decompression of the kernel (efi-boot/deflate.c): decompress_gzip   *)
(* with its header, deflate_buffer with the three kinds of blocks, and the *)
(* checksum, with the tables and sizes of the code.                        *)
(*                                                                         *)
(* A bit reader is a record [ptr, acc, nr, err]: in_ptr, bit_accum,        *)
(* nr_bits and error.  Arrays are sequences; index 0 of the code is 1.     *)
(* A Huffman tree is [bl_count, sorted].  A 32-bit word is a pair of       *)
(* halves, the high one first.                                             *)
(***************************************************************************)
EXTENDS Integers, Sequences, FiniteSets, Bitwise

CONSTANT Files    \* records of the bytes of a file, and what it is to give

MAX_BITS == 16
MAX_SYMBOLS == 288
MAX_DISTANCE == 32

ERR_NONE == 0
ERR_OVERFLOW == 1
ERR_SYMBOL == 2
ERR_UNDEFINED == 3
FAULT == 4          \* an access out of the bounds of an array

VARIABLES
    file,
    dpc,            \* "header", "block", "lengths", "symbols", "crc", "end"
    rd, in_end,     \* the bit reader, and where its input ends
    final,          \* block_final
    hlit, hdist, lengths, it,   \* locals of huffman_dynamic_tree
    ll, distance,   \* the trees
    dest, dest_size, block_start,
    dret

dynamic == <<hlit, hdist, lengths, it>>
trees == <<ll, distance>>
written == <<dest, dest_size, block_start>>
inflateVars == <<file, dpc, rd, in_end, final, dynamic, trees, written, dret>>

NoTree == [bl_count |-> <<>>, sorted |-> <<>>]

StartInflate(f) ==
    /\ file = f /\ dpc = "header"
    /\ rd = [ptr |-> 1, acc |-> 0, nr |-> 0, err |-> ERR_NONE] /\ in_end = 1
    /\ final = 0 /\ hlit = 0 /\ hdist = 0 /\ lengths = <<>> /\ it = 0
    /\ ll = NoTree /\ distance = NoTree
    /\ dest = <<>> /\ dest_size = 0 /\ block_start = 0 /\ dret = 0

InflateInit == \E f \in Files : StartInflate(f)

-----------------------------------------------------------------------------
(* Checksum *)

crctab32 ==
    <<<<0, 0>>, <<\h1DB7, \h1064>>, <<\h3B6E, \h20C8>>, <<\h26D9, \h30AC>>,
      <<\h76DC, \h4190>>, <<\h6B6B, \h51F4>>, <<\h4DB2, \h6158>>, <<\h5005, \h713C>>,
      <<\hEDB8, \h8320>>, <<\hF00F, \h9344>>, <<\hD6D6, \hA3E8>>, <<\hCB61, \hB38C>>,
      <<\h9B64, \hC2B0>>, <<\h86D3, \hD2D4>>, <<\hA00A, \hE278>>, <<\hBDBD, \hF21C>>>>

Xor32(a, b) == <<a[1] ^^ b[1], a[2] ^^ b[2]>>
Shift4(a) == <<a[1] \div 16, (a[2] \div 16) + (a[1] % 16) * 4096>>
Ones == <<\hFFFF, \hFFFF>>

Nibble(crc) == Xor32(crctab32[(crc[2] % 16) + 1], Shift4(crc))

Words32 == (0 .. 65535) \X (0 .. 65535)

\* The loop over bytes a to b, in halves to keep the recursion flat.
update_crc32(bytes) ==
    LET crc[a \in Nat, b \in Nat, c \in Words32] ==
            IF a = b THEN Nibble(Nibble(Xor32(c, <<0, bytes[a]>>)))
            ELSE crc[((a + b) \div 2) + 1, b, crc[a, (a + b) \div 2, c]]
    IN  IF bytes = <<>> THEN <<0, 0>> ELSE Xor32(crc[1, Len(bytes), Ones], Ones)

-----------------------------------------------------------------------------
(* Bits and symbols.  A result is [rd, v]: the reader afterwards, a value. *)

Byte(k) == file.bytes[k]
RECURSIVE Accumulate(_, _)

\* (Mutant of Accumulate: a byte more than is needed is taken.)
AccumulateAhead(r, n) ==
    IF r.nr > n \/ r.err # ERR_NONE THEN r
    ELSE IF r.ptr = in_end THEN [r EXCEPT !.err = ERR_OVERFLOW]
    ELSE Accumulate([r EXCEPT !.acc = @ + Byte(r.ptr) * 2 ^ r.nr, !.nr = @ + 8, !.ptr = @ + 1], n)

\* Bytes are taken until there are n bits, and no further.
Accumulate(r, n) ==
    IF r.nr >= n \/ r.err # ERR_NONE THEN r
    ELSE IF r.ptr = in_end THEN [r EXCEPT !.err = ERR_OVERFLOW]
    ELSE Accumulate([r EXCEPT !.acc = @ + Byte(r.ptr) * 2 ^ r.nr, !.nr = @ + 8, !.ptr = @ + 1], n)

get_bits(r, n) ==
    LET q == Accumulate(r, n)
    IN  IF q.err # ERR_NONE THEN [rd |-> q, v |-> 0]
        ELSE [rd |-> [q EXCEPT !.acc = @ \div 2 ^ n, !.nr = @ - n], v |-> q.acc % 2 ^ n]

get_extra_bits(r, n, base) ==
    LET b == get_bits(r, n)
    IN  IF n = 0 THEN [rd |-> r, v |-> base] ELSE [b EXCEPT !.v = base + @]

\* bl_count and the symbols by length, among equal lengths in their order.
huffman_tree(lens, nr_sym) ==
    LET syms == [k \in 1 .. nr_sym |-> k - 1]
        Of(b) == SelectSeq(syms, LAMBDA s : lens[s + 1] = b)
        all[b \in 0 .. MAX_BITS - 1] == IF b = 0 THEN <<>> ELSE all[b - 1] \o Of(b)
    IN  [bl_count |-> [b \in 1 .. MAX_BITS - 1 |-> Len(Of(b))], sorted |-> all[MAX_BITS - 1]]

RECURSIVE DecodeAt(_, _, _, _, _)
DecodeAt(r, tree, level, sum, offs) ==
    LET b == get_bits(r, 1)
        o == 2 * offs + b.v
        count == tree.bl_count[level]
    IN  IF level = MAX_BITS THEN [rd |-> [r EXCEPT !.err = ERR_SYMBOL], v |-> 0]
        ELSE IF b.rd.err # ERR_NONE THEN [rd |-> b.rd, v |-> 0]
        ELSE IF o < count THEN [rd |-> b.rd, v |-> tree.sorted[sum + o + 1]]
        ELSE DecodeAt(b.rd, tree, level + 1, sum + count, o - count)

decode_symbol(r, tree) == DecodeAt(r, tree, 1, 0, 0)

FixedLl ==
    [bl_count |-> [b \in 1 .. 15 |-> CASE b = 7 -> 24 [] b = 8 -> 152 [] b = 9 -> 112 [] OTHER -> 0],
     sorted |-> [k \in 1 .. 288 |-> CASE k <= 24 -> 256 + (k - 1)
                                      [] k > 24 /\ k <= 168 -> k - 25
                                      [] k > 168 /\ k <= 176 -> 280 + (k - 169)
                                      [] OTHER -> 144 + (k - 177)]]
FixedDistance ==
    [bl_count |-> [b \in 1 .. 15 |-> IF b = 5 THEN 32 ELSE 0], sorted |-> [k \in 1 .. 32 |-> k - 1]]

-----------------------------------------------------------------------------
(* The header of the file *)

F_HCRC == 2
F_EXTRA == 4
F_NAME == 8
F_COMMENT == 16

FileEnd == Len(file.bytes) + 1
Flagged(f) == (Byte(4) \div f) % 2 = 1
Le16(k) == Byte(k) + 256 * Byte(k + 1)

\* Each part of the header is skipped from the index s, or gives 0 if refused.
SkipExtra(s) ==
    IF ~Flagged(F_EXTRA) THEN s
    ELSE IF s + Le16(s) + 2 > FileEnd THEN 0 ELSE s + Le16(s) + 2

SkipText(f, s) ==
    LET zeros == {k \in s .. FileEnd - 1 : Byte(k) = 0}
    IN  IF s = 0 \/ ~Flagged(f) THEN s
        ELSE IF zeros = {} THEN 0 ELSE (CHOOSE k \in zeros : \A z \in zeros : k <= z) + 1

SkipCrc(s) ==
    IF s = 0 \/ ~Flagged(F_HCRC) THEN s
    ELSE IF s + 2 > FileEnd \/ update_crc32(SubSeq(file.bytes, 1, s - 1))[2] # Le16(s)
    THEN 0 ELSE s + 2

BadMagic ==
    \/ Len(file.bytes) < 18
    \/ Byte(1) # \h1F \/ Byte(2) # \h8B \/ Byte(3) # 8 \/ Byte(4) >= 32

DataStart ==
    IF BadMagic THEN 0
    ELSE LET s == SkipCrc(SkipText(F_COMMENT, SkipText(F_NAME, SkipExtra(11))))
         IN  IF s = 0 \/ s + 8 > FileEnd THEN 0 ELSE s

EINVAL_ == -22

Refuse == dpc' = "end" /\ dret' = EINVAL_

Header ==
    /\ dpc = "header" /\ DataStart # 0
    /\ rd' = [rd EXCEPT !.ptr = DataStart] /\ in_end' = FileEnd - 8
    /\ dpc' = "block"
    /\ UNCHANGED <<file, final, dynamic, trees, written, dret>>

HeaderBad ==
    /\ dpc = "header" /\ DataStart = 0
    /\ Refuse
    /\ UNCHANGED <<file, rd, in_end, final, dynamic, trees, written>>

-----------------------------------------------------------------------------
(* Blocks *)

BlockFinal == get_bits(rd, 1)
BlockType == get_bits(BlockFinal.rd, 2)
InBlock(t) == dpc = "block" /\ BlockType.rd.err = ERR_NONE /\ BlockType.v = t

\* Where the loop over blocks goes on, and how deflate_buffer returns.
AfterBlock(r, fin) ==
    /\ rd' = r
    /\ IF r.err # ERR_NONE THEN Refuse
       ELSE dpc' = (IF fin = 0 THEN "block" ELSE "crc") /\ UNCHANGED dret

BlockBad ==
    /\ dpc = "block" /\ (BlockType.rd.err # ERR_NONE \/ BlockType.v = 3)
    /\ AfterBlock(IF BlockType.rd.err # ERR_NONE THEN BlockType.rd
                  ELSE [BlockType.rd EXCEPT !.err = ERR_UNDEFINED], 1)
    /\ UNCHANGED <<file, in_end, final, dynamic, trees, written>>

\* deflate_uncompressed_block: from the next byte, the bits left are dropped.
Stored ==
    /\ InBlock(0)
    /\ LET r == BlockType.rd
           length == Le16(r.ptr)
           from == r.ptr + 4
       IN  IF in_end - r.ptr < 4 \/ in_end - from < length
           THEN /\ AfterBlock([r EXCEPT !.err = ERR_OVERFLOW], 1)
                /\ UNCHANGED <<final, written>>
           ELSE /\ AfterBlock([r EXCEPT !.ptr = from + length, !.acc = 0, !.nr = 0], BlockFinal.v)
                /\ final' = BlockFinal.v
                /\ dest' = dest \o SubSeq(file.bytes, from, from + length - 1)
                /\ dest_size' = dest_size + length
                /\ UNCHANGED block_start
    /\ UNCHANGED <<file, in_end, dynamic, trees>>

Fixed ==
    /\ InBlock(1)
    /\ ll' = FixedLl /\ distance' = FixedDistance
    /\ rd' = BlockType.rd /\ final' = BlockFinal.v /\ block_start' = Len(dest)
    /\ dpc' = "symbols"
    /\ UNCHANGED <<file, in_end, dynamic, dest, dest_size, dret>>

code_len_for_code_idx == <<16, 17, 18, 0, 8, 7, 9, 6, 10, 5, 11, 4, 12, 3, 13, 2, 14, 1, 15>>

\* The lengths of the code lengths, three bits each; the reader k lengths on.
RECURSIVE CodeLengths(_, _, _)
CodeLengths(r, k, lens) ==
    IF k = 0 THEN [rd |-> r, v |-> lens]
    ELSE LET before == CodeLengths(r, k - 1, lens)
             c == get_bits(before.rd, 3)
         IN  [rd |-> c.rd, v |-> [before.v EXCEPT ![code_len_for_code_idx[k] + 1] = c.v]]

Dynamic ==
    /\ InBlock(2)
    /\ LET a == get_extra_bits(BlockType.rd, 5, 257)
           b == get_extra_bits(a.rd, 5, 1)
           c == get_extra_bits(b.rd, 4, 4)
           zeros == [k \in 1 .. MAX_SYMBOLS + MAX_DISTANCE |-> 0]
           cl == CodeLengths(c.rd, c.v, zeros)
       IN  IF c.rd.err # ERR_NONE \/ cl.rd.err # ERR_NONE
           THEN AfterBlock([rd EXCEPT !.err = ERR_OVERFLOW], 1) /\ UNCHANGED <<final, dynamic, ll>>
           ELSE /\ hlit' = a.v /\ hdist' = b.v /\ it' = 0
                /\ lengths' = cl.v /\ ll' = huffman_tree(cl.v, 19)
                /\ rd' = cl.rd /\ final' = BlockFinal.v
                /\ dpc' = "lengths" /\ UNCHANGED dret
    /\ UNCHANGED <<file, in_end, distance, written>>

SYM_CL_COPY_3_6 == 16
SYM_CL_REPEAT_3_10 == 17
SYN_CL_REPEAT_11_138 == 18

\* The length a code length symbol stands for and how often: [rd, sym, n].
Repeated(s) ==
    LET Often(bits, base, sym) ==
            LET b == get_extra_bits(s.rd, bits, base) IN [rd |-> b.rd, sym |-> sym, n |-> b.v]
    IN  CASE s.v = SYM_CL_COPY_3_6 ->
                IF it = 0 THEN [rd |-> [s.rd EXCEPT !.err = ERR_SYMBOL], sym |-> 0, n |-> 0]
                ELSE Often(2, 3, lengths[it])
          [] s.v = SYM_CL_REPEAT_3_10 -> Often(3, 3, 0)
          [] s.v = SYN_CL_REPEAT_11_138 -> Often(7, 11, 0)
          [] OTHER -> [rd |-> s.rd, sym |-> s.v, n |-> 1]

\* One iteration of the loop over the lengths of both alphabets.
LengthSymbol ==
    /\ dpc = "lengths" /\ it < hlit + hdist
    /\ LET s == decode_symbol(rd, ll)
           r == Repeated(s)
       IN  IF s.rd.err # ERR_NONE \/ r.rd.err # ERR_NONE
           THEN /\ AfterBlock([rd EXCEPT !.err = IF s.rd.err # ERR_NONE THEN s.rd.err ELSE r.rd.err], 1)
                /\ UNCHANGED <<lengths, it>>
           ELSE IF it + r.n > MAX_SYMBOLS + MAX_DISTANCE
           THEN /\ rd' = [rd EXCEPT !.err = FAULT] /\ dpc' = "fault"
                /\ UNCHANGED <<lengths, it, dret>>
           ELSE /\ lengths' = [k \in DOMAIN lengths |-> IF k \in it + 1 .. it + r.n THEN r.sym ELSE lengths[k]]
                /\ it' = it + r.n /\ rd' = r.rd
                /\ UNCHANGED <<dpc, dret>>
    /\ UNCHANGED <<file, in_end, final, hlit, hdist, trees, written>>

LengthsDone ==
    /\ dpc = "lengths" /\ it >= hlit + hdist
    /\ ll' = huffman_tree(lengths, hlit)
    /\ distance' = huffman_tree(SubSeq(lengths, hlit + 1, hlit + hdist), hdist)
    /\ block_start' = Len(dest)
    /\ dpc' = "symbols"
    /\ UNCHANGED <<file, rd, in_end, final, dynamic, dest, dest_size, dret>>

-----------------------------------------------------------------------------
(* deflate_block *)

length_bits == <<0, 0, 0, 0, 0, 0, 0, 0, 1, 1, 1, 1, 2, 2, 2, 2, 3, 3, 3, 3,
                 4, 4, 4, 4, 5, 5, 5, 5, 0, 127>>
length_base == <<3, 4, 5, 6, 7, 8, 9, 10, 11, 13, 15, 17, 19, 23, 27, 31, 35, 43, 51, 59,
                 67, 83, 99, 115, 131, 163, 195, 227, 258, 0>>
dist_bits == <<0, 0, 0, 0, 1, 1, 2, 2, 3, 3, 4, 4, 5, 5, 6, 6, 7, 7, 8, 8,
               9, 9, 10, 10, 11, 11, 12, 12, 13, 13>>
dist_base == <<1, 2, 3, 4, 5, 7, 9, 13, 17, 25, 33, 49, 65, 97, 129, 193, 257, 385, 513, 769,
               1025, 1537, 2049, 3073, 4097, 6145, 8193, 12289, 16385, 24577>>

SYM_LL_EOB == 256
SYM_LL_LENGTH == 257

Symbol == decode_symbol(rd, ll)
Decoding == dpc = "symbols" /\ Symbol.rd.err = ERR_NONE

SymbolBad ==
    /\ dpc = "symbols" /\ Symbol.rd.err # ERR_NONE
    /\ AfterBlock(Symbol.rd, 1)
    /\ UNCHANGED <<file, in_end, final, dynamic, trees, written>>

EndOfBlock ==
    /\ Decoding /\ Symbol.v = SYM_LL_EOB
    /\ dest_size' = dest_size + (Len(dest) - block_start)
    /\ AfterBlock(Symbol.rd, final)
    /\ UNCHANGED <<file, in_end, final, dynamic, trees, dest, block_start>>

Literal ==
    /\ Decoding /\ Symbol.v < SYM_LL_EOB
    /\ dest' = Append(dest, Symbol.v)
    /\ rd' = Symbol.rd
    /\ UNCHANGED <<file, dpc, in_end, final, dynamic, trees, dest_size, block_start, dret>>

\* Byte by byte, so that a copy may run into what it has written.
CopyBytes(d, length, offset) ==
    LET byte[k \in 1 .. Len(d) + length] == IF k <= Len(d) THEN d[k] ELSE byte[k - offset]
    IN  [k \in 1 .. Len(d) + length |-> byte[k]]

Pair ==
    /\ Decoding /\ Symbol.v >= SYM_LL_LENGTH
    /\ LET k == Symbol.v - SYM_LL_LENGTH + 1
           length == get_extra_bits(Symbol.rd, length_bits[k], length_base[k])
           d == decode_symbol(length.rd, distance)
           offset == get_extra_bits(d.rd, dist_bits[d.v + 1], dist_base[d.v + 1])
       IN  IF k > 29 \/ d.v >= 30 \/ (offset.rd.err = ERR_NONE /\ offset.v > Len(dest))
           THEN /\ rd' = [rd EXCEPT !.err = FAULT] /\ dpc' = "fault"
                /\ UNCHANGED <<dest, dret>>
           ELSE IF length.rd.err # ERR_NONE \/ d.rd.err # ERR_NONE \/ offset.rd.err # ERR_NONE
           THEN AfterBlock([rd EXCEPT !.err = ERR_OVERFLOW], 1) /\ UNCHANGED dest
           ELSE /\ dest' = CopyBytes(dest, length.v, offset.v) /\ rd' = offset.rd
                /\ UNCHANGED <<dpc, dret>>
    /\ UNCHANGED <<file, in_end, final, dynamic, trees, dest_size, block_start>>

-----------------------------------------------------------------------------
TrailerCrc == LET k == FileEnd - 8 IN <<Le16(k + 2), Le16(k)>>

CrcAgrees == update_crc32(SubSeq(dest, 1, dest_size)) = TrailerCrc

CheckCrc ==
    /\ dpc = "crc"
    /\ dpc' = "end" /\ dret' = (IF CrcAgrees THEN 0 ELSE EINVAL_)
    /\ UNCHANGED <<file, rd, in_end, final, dynamic, trees, written>>

InflateNext ==
    \/ Header \/ HeaderBad \/ BlockBad \/ Stored \/ Fixed \/ Dynamic
    \/ LengthSymbol \/ LengthsDone \/ SymbolBad \/ EndOfBlock \/ Literal \/ Pair
    \/ CheckCrc

\* A file made from data is decompressed to that very data, whatever blocks,
\* codes and header fields it uses (deflate.c): every length and distance is
\* taken from the right symbol and bits, a stored block begins at its byte
\* after any bits before it, and nothing is accessed out of bounds.  A file that
\* was cut short, or damaged in a header with a checksum, in the data or in the
\* checksum, is not taken for a kernel (decompress_gzip): the header, the bits
\* running out, or one of the checksums gives it away.  The size in the trailer
\* is not looked at, and damage that leads the decoder out of its arrays ends
\* in "fault".
InflateRight ==
    /\ file.good => dpc # "fault"
    /\ dpc = "end" =>
          IF file.good THEN dret = 0 /\ dest_size = Len(file.data) /\ dest = file.data
                       ELSE dret # 0
=============================================================================
