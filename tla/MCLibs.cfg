SPECIFICATION Spec
CONSTANTS
    MemSize = 5
    IntBits = 4
    LongBits = 6
    BUFSIZE = 6
    MAXARGS = 2
    commands <- MCcommands
    Keys <- MCKeys
    MaxTyped = 7
CHECK_DEADLOCK FALSE
INVARIANTS CopiesExactly ReadsAgree Truncates RunsWhatWasTyped
PROPERTIES NumbersReadBack FormatEnds
