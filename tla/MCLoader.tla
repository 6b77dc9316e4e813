------------------------------ MODULE MCLoader ------------------------------
(* Seven pages, with a page of the firmware somewhere or nowhere; the      *)
(* kernel has one page, aligned to three.  Files of one or two blocks.     *)
EXTENDS Loader, Gzip

MCMemories ==
    {[p \in Pages |-> IF p = f THEN "FIRMWARE" ELSE "CONVENTIONAL"] : f \in {0, 3, NPages}}

Gop(o, l, c, m, a) == [opens |-> o, linear |-> l, console |-> c, mode |-> m, area |-> a]

\* Without the protocol, without pixels, plain, and with the console.
MCGops == {Gop(FALSE, TRUE, TRUE, 1, <<5>>), Gop(TRUE, FALSE, TRUE, 1, <<5>>),
           Gop(TRUE, TRUE, FALSE, 2, <<NONE, 6, 4>>), Gop(TRUE, TRUE, TRUE, 1, <<4, 3, 3>>)}

StoredBlock(d) == [kind |-> "stored", data |-> d]
FixedBlock(o) == [kind |-> "fixed", ops |-> o]
DynamicBlock(c, o) == [kind |-> "dynamic", codes |-> c, ops |-> o]

\* Code lengths of the symbols in f, which maps symbols to them.
Lens(n, f) == [k \in 1 .. n |-> IF k - 1 \in DOMAIN f THEN f[k - 1] ELSE 0]
Codes(lc, dc, r) == [ll |-> lc, d |-> dc, rle |-> r]

Lits == {<<65>>, <<200>>}

\* Two bits for everything, one distance.
Short(r) == Codes(Lens(258, [s \in {65, 200, 256, 257} |-> 2]), <<1>>, r)

\* Every length of code there is; symbols at the ends of both alphabets.
Steps == <<65, 66, 67, 68, 69, 70, 71, 72, 73, 74, 75, 76, 285, 200, 256, 257>>
Long(r) ==
    Codes(Lens(286, [s \in {Steps[k] : k \in 1 .. 16} |->
                        LET k == CHOOSE j \in 1 .. 16 : Steps[j] = s IN IF k = 16 THEN 15 ELSE k]),
          Lens(30, [s \in {0, 1, 3, 29} |-> IF s = 0 THEN 1 ELSE IF s = 1 THEN 2 ELSE 3]), r)

\* No distances at all; lengths that are the same across both alphabets.
NoPairs(r) == Codes(Lens(257, [s \in {65, 256} |-> 1]), <<0>>, r)
Across(r) ==
    Codes(Lens(261, [s \in {65, 66, 200, 256, 257, 258, 259, 260} |-> 3]), [k \in 1 .. 8 |-> 3], r)

Some(c, ops) == {DynamicBlock(c, o) : o \in ops}
Choices ==
    {StoredBlock(d) : d \in {<<>>, <<7>>, <<1, 2, 3>>}}
      \cup {FixedBlock(o) : o \in {<<>>, <<<<65>>>>, <<<<65>>, <<200>>>>, <<<<65>>, <<3, 1>>, <<66>>>>,
                                   <<<<65>>, <<200>>, <<5, 2>>>>}}
      \cup Some(Short(TRUE), {<<>>, <<<<65>>, <<200>>>>, <<<<65>>, <<3, 1>>>>})
      \cup Some(Long(TRUE), {<<<<76>>, <<65>>, <<66>>, <<200>>, <<3, 4>>, <<258, 2>>>>})
      \cup Some(NoPairs(TRUE), {<<<<65>>, <<65>>>>})
      \cup Some(Across(TRUE), {<<<<65>>, <<66>>, <<3, 1>>, <<6, 5>>, <<200>>>>})

\* A block alone, after a literal, after a stored byte, and before one.
Several ==
    {<<b>> : b \in Choices} \cup {<<FixedBlock(<<<<65>>>>), b>> : b \in Choices}
      \cup {<<StoredBlock(<<9>>), b>> : b \in Choices} \cup {<<b, StoredBlock(<<9, 8>>)>> : b \in Choices}

\* Lengths and distances at both ends of the classes.
Edges == {3, 4, 10, 11, 12, 13, 18, 19, 34, 35, 66, 67, 130, 131, 226, 227, 257, 258}
Reaches == {1, 2, 4, 5, 6, 7, 8, 9, 12, 13, 16, 17, 24, 25, 48, 49, 96, 97, 192, 193, 256}
Pairs ==
    {<<FixedBlock(<<<<65>>, <<66>>, <<n, 2>>>>)>> : n \in Edges}
      \cup {<<FixedBlock(<<<<65>>, <<66>>, <<67>>, <<253, 3>>, <<3, n>>>>)>> : n \in Reaches}

Plain == {<<DynamicBlock(Across(FALSE), <<<<65>>, <<200>>>>)>>}

HeaderParts == {"extra", "name", "comment", "crc"}
Good == {GzipFile({}, b) : b \in Several \cup Pairs \cup Plain}
          \cup {GzipFile(h, <<FixedBlock(<<<<65>>>>)>>) : h \in SUBSET HeaderParts}

\* Files that are cut, or have one byte changed where it cannot be missed: in
\* a header with a checksum, in the stored data or in the checksum.
Bad(bytes) == [bytes |-> bytes, data |-> <<>>, good |-> FALSE]
Cut(f, k) == Bad(SubSeq(f.bytes, 1, Len(f.bytes) - k))
Flip(f, k) == Bad([f.bytes EXCEPT ![k] = IF @ = 255 THEN 0 ELSE @ + 1])
Sample == {GzipFile({}, b) : b \in {<<b>> : b \in Choices \ {FixedBlock(<<>>), StoredBlock(<<>>)}}}
Damaged ==
    {Cut(f, k) : f \in Sample, k \in {1, 2, 5, 9, 11}}
      \cup {Flip(GzipFile(HeaderParts, <<StoredBlock(<<1, 2, 3>>)>>), k) : k \in {1, 2, 3, 5, 12, 16, 19, 22}}
      \cup {Flip(f, k) : f \in {GzipFile({}, <<StoredBlock(<<1, 2, 3>>)>>)}, k \in {16, 18, 19, 20, 21, 22}}
      \cup {Bad([(CHOOSE f \in Sample : TRUE).bytes EXCEPT ![11] = 7])}

MCFiles == Good \cup Damaged
=============================================================================
