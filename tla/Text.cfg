SPECIFICATION TextSpec
CONSTANTS
    Chars = {"a", "b", " ", "="}
    MaxLen = 7
    SIZE = 7
    Options <- MCOptions
    BUF_LEN = 3
    Bits <- MCBits
    T_STR = 64
    Jobs <- MCJobs
    W = 8
    BUF = 3
    Strings <- MCStrings
    Bases = {0, 2, 10, 16}
INVARIANT LastValueWins
INVARIANT FormatRight
INVARIANT ParseRight
INVARIANT ReadsBack
CHECK_DEADLOCK FALSE
