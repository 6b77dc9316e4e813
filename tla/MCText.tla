------------------------------- MODULE MCText -------------------------------
(* Two options, one of which begins with the other, and a buffer for a     *)
(* value of two characters; formats with every combination of a few flags, *)
(* widths, precisions and arguments; short strings around a number.        *)
EXTENDS Text

MCOptions == <<<<"a", "b">>, <<"a">>>>

MCBits == [r \in Ranks |-> <<3, 4, 6, 8, 8>>[r + 3]]

How(h, k) == [how |-> h, n |-> k]
FlagTexts == {<<>>, <<"-">>, <<"0">>, <<"+">>, <<" ", "0">>, <<"#">>, <<"#", "0">>, <<"-", "0", "+", "#">>}
Widths == {How("none", 0), How("digits", 4), How("digits", 10), How("star", 5), How("star", -5)}
Precisions == {How("none", -1), How("digits", 0), How("digits", 3), How("star", 4), How("star", -1)}

\* One each of zero, a small number, and -1 and the least number of a width.
Numbers == {[v |-> k, s |-> <<>>] : k \in {0, 5, 7, 63, 128, 255}}
Texts == {[v |-> 0, s |-> <<>>], [v |-> 1, s |-> <<>>], [v |-> 1, s |-> <<"x", "y", "z", "x">>]}

Items(convs, ranks, as) ==
    [flags : FlagTexts, w : Widths, p : Precisions, rank : ranks, conv : convs, arg : as]

MCJobs == {JobOf(it) : it \in
              Items({"d", "u", "o", "x", "X"}, {-2, 0, 2}, Numbers)
                \cup Items({"i"}, {-1, 1}, Numbers)
                \cup Items({"p", "P"}, {0}, Numbers)
                \cup Items({"s"}, {0}, Texts)
                \cup Items({"c"}, {0}, {[v |-> 1, s |-> <<"x">>]})
                \cup Items({"?"}, {0}, {[v |-> 1, s |-> <<>>]})}

MCStrings == UNION {[1 .. k -> {"0", "1", "2", "8", "F", "x", "-", "+"}] : k \in 0 .. 4}
=============================================================================
